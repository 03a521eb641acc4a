-------------------------- MODULE NonblockingServer --------------------------
(***************************************************************************)
(* TNonblockingServer: IO threads that run event loops, connection objects *)
(* (TConnection) that are taken from a stack and returned to it, a pool of *)
(* workers that process requests, and a notification pipe per IO thread    *)
(* through which pointers to connections come back to the loop.            *)
(*                                                                         *)
(* A connection object is worked on by one thread at a time, without a     *)
(* lock: its IO thread, then, as a task, the pool's queue and a worker,    *)
(* then the pipe.  An action is a handler, cut where another thread can    *)
(* interfere: at connMutex_, at the pool's mutex and at a full pipe.       *)
(*                                                                         *)
(* The bytes of a frame are left out: a request has arrived as a whole, or *)
(* the read is retried by the next event.                                  *)
(***************************************************************************)
EXTENDS Integers, Sequences, FiniteSets

CONSTANTS
    Conns,              \* client connections
    Objects,            \* addresses of TConnection objects
    NumIOThreads,
    Workers,            \* threads of the ThreadManager
    PipeSize,           \* messages a notification pipe holds
    StackLimit,         \* connectionStackLimit_, 0 for no limit
    MaxProcessors, MaxConnections,  \* limits for the overload condition
    Hysteresis,         \* overloadHysteresis_ in tenths
    Configurations,     \* overload action, thread pool or not, queue limit
    MaxRequests,        \* requests per client: a bound of the model
    Faults,             \* what goes wrong, of FaultKinds
    None

FaultKinds == {"notify", "context", "refused", "expired", "frame"}

ASSUME ConstantsAssumption ==
    /\ IsFiniteSet(Conns) /\ IsFiniteSet(Objects) /\ IsFiniteSet(Workers)
    /\ Cardinality(Conns) <= Cardinality(Objects)
    /\ NumIOThreads \in Nat \ {0} /\ PipeSize \in Nat \ {0}
    /\ StackLimit \in Nat
    /\ MaxProcessors \in Nat /\ MaxConnections \in Nat /\ Hysteresis \in 0..10
    /\ Configurations \subseteq {"none", "close", "drain"} \X BOOLEAN \X Nat
    /\ MaxRequests \in Nat /\ Faults \subseteq FaultKinds
    /\ None \notin Objects \cup Conns \cup Nat

IOThreads == 0 .. NumIOThreads - 1

VARIABLES
    overloadAction_, threadPoolProcessing_, pendingTaskCountMax_, \* fixed by Init
    tc,                 \* the fields of each TConnection object
    activeConnections_, connectionStack_, numTConnections_,
    lost,               \* objects in neither of these that are still counted
    numActiveProcessors_, nextIOThread_, overloaded_,
    connMutex_,         \* the IO thread that holds it across steps, or None
    pipe,               \* what is in the pipe of each IO thread; None: stop
    tasks_, mutex_,     \* queue and mutex of the pool
    io, hand,           \* where each IO thread is, and with which object
    incoming,           \* the client that is being accepted
    worker, job,        \* where each worker is, and with which task
    peer, requests,     \* state of each client, requests it has sent
    stopPc, stopLost,   \* progress of stop(); whether a message was lost
    broken              \* what a forceClose() that failed to notify left behind

configVars == <<overloadAction_, threadPoolProcessing_, pendingTaskCountMax_>>
poolVars == <<activeConnections_, connectionStack_, numTConnections_, lost>>
acceptVars == <<nextIOThread_, overloaded_, incoming>>
taskVars == <<tasks_, mutex_>>
workerVars == <<worker, job>>
ioVars == <<io, hand>>
clientVars == <<peer, requests>>
stopVars == <<stopPc, stopLost, broken>>
vars == <<configVars, tc, poolVars, numActiveProcessors_, acceptVars, connMutex_,
          pipe, taskVars, ioVars, workerVars, clientVars, stopVars>>

Blank == [appState_ |-> "INIT", socketState_ |-> "RECV_FRAMING", eventFlags_ |-> "none",
          ioThread_ |-> None, tSocket_ |-> None, output |-> None]

Init ==
    /\ \E c \in Configurations :
          /\ overloadAction_ = c[1] /\ threadPoolProcessing_ = c[2]
          /\ pendingTaskCountMax_ = c[3]
    /\ tc = [o \in Objects |-> Blank]
    /\ activeConnections_ = {} /\ connectionStack_ = <<>> /\ numTConnections_ = 0
    /\ lost = {}
    /\ numActiveProcessors_ = 0 /\ nextIOThread_ = 0 /\ overloaded_ = FALSE
    /\ connMutex_ = None
    /\ pipe = [i \in IOThreads |-> <<>>]
    /\ tasks_ = <<>> /\ mutex_ = None
    /\ io = [i \in IOThreads |-> "off"] /\ hand = [i \in IOThreads |-> None]
    /\ incoming = None
    /\ worker = [w \in Workers |-> "idle"] /\ job = [w \in Workers |-> None]
    /\ peer = [c \in Conns |-> "away"] /\ requests = [c \in Conns |-> 0]
    /\ stopPc = None /\ stopLost = FALSE /\ broken = "no"

-----------------------------------------------------------------------------
(* TConnection                                                             *)

(* Mutated Reading: the read event is not registered.                      *)
ReadingUnregistered(conn) ==
    [conn EXCEPT !.socketState_ = "RECV_FRAMING", !.appState_ = "READ_FRAME_SIZE"]

(* transition() from APP_INIT, and where SEND_RESULT and oneway calls fall *)
(* through to it.                                                          *)
Reading(conn) ==
    [conn EXCEPT !.socketState_ = "RECV_FRAMING", !.appState_ = "READ_FRAME_SIZE",
                 !.eventFlags_ = "read"]

(* transition() from APP_READ_FRAME_SIZE: the size of the frame is known.  *)
Framed(conn) == [conn EXCEPT !.socketState_ = "RECV", !.appState_ = "READ_REQUEST"]

(* The end of transition() from APP_WAIT_TASK: send what the processor has *)
(* written, or go on reading when there is nothing to send.                *)
Answering(conn) ==
    IF conn.output = None THEN Reading(conn)
    ELSE [conn EXCEPT !.socketState_ = "SEND", !.appState_ = "SEND_RESULT",
                      !.eventFlags_ = "write"]

(* Mutated Emptied: the output buffer is not reset.                        *)
EmptiedNot(conn) == conn

(* transition() from APP_READ_REQUEST resets the output buffer, which may  *)
(* hold the last result, also of the object's previous client ...          *)
Emptied(conn) == [conn EXCEPT !.output = None]

(* Mutated Waiting: the connection is not set idle.                        *)
WaitingWithEvents(conn) == [conn EXCEPT !.appState_ = "WAIT_TASK"]

(* ... and, with a pool, sets the connection idle.                         *)
Waiting(conn) == [conn EXCEPT !.appState_ = "WAIT_TASK", !.eventFlags_ = "none"]

(* decrementActiveProcessors stops at zero.                                *)
Decremented == IF numActiveProcessors_ > 0 THEN numActiveProcessors_ - 1 ELSE 0

StackFull == StackLimit > 0 /\ Len(connectionStack_) >= StackLimit

Uncounted == IF StackFull THEN numTConnections_ - 1 ELSE numTConnections_

(* close() and returnConnection(), by any thread.                          *)
Close(o) ==
    /\ connMutex_ = None
    /\ tc' = [tc EXCEPT ![o].eventFlags_ = "none", ![o].ioThread_ = None]
    /\ peer' = [peer EXCEPT ![tc[o].tSocket_] = "closed"]
    /\ activeConnections_' = activeConnections_ \ {o}
    /\ connectionStack_' = IF StackFull THEN connectionStack_
                           ELSE Append(connectionStack_, o)
    /\ numTConnections_' = Uncounted
    /\ UNCHANGED <<lost, requests>>

Room(i) == Len(pipe[i]) < PipeSize
Put(i, message) == pipe' = [pipe EXCEPT ![i] = Append(@, message)]

IOGoto(i, label) == io' = [io EXCEPT ![i] = label]

(* A client whose request the server has not read yet is "requested", or   *)
(* "left" when it has hung up after sending it; one that waits for its     *)
(* result is "waiting", and "connected" again when it has got it, or when  *)
(* its call turns out to be oneway.  One that will never get its result on *)
(* a connection which stays open is "forsaken".                            *)
Unread(o) == peer[tc[o].tSocket_] \in {"requested", "left"}
Served(c) == peer' = [peer EXCEPT ![c] = IF @ = "waiting" THEN "connected" ELSE @]

-----------------------------------------------------------------------------
(* workSocket(), called by the event loop of the connection's IO thread    *)

ReadFrameSize(i, o) ==
    /\ io[i] = "loop" /\ tc[o].ioThread_ = i /\ tc[o].eventFlags_ = "read"
    /\ tc[o].socketState_ = "RECV_FRAMING"
    /\ Unread(o)
    /\ tc' = [tc EXCEPT ![o] = Framed(@)]
    /\ UNCHANGED <<configVars, poolVars, numActiveProcessors_, acceptVars, connMutex_,
                   pipe, taskVars, ioVars, workerVars, clientVars, stopVars>>

(* The client is gone: the read returns nothing, or the write fails.       *)
SeesDisconnect(i, o) ==
    /\ io[i] = "loop" /\ tc[o].ioThread_ = i /\ tc[o].eventFlags_ # "none"
    /\ peer[tc[o].tSocket_] = "hungup"
    /\ Close(o)
    /\ UNCHANGED <<configVars, numActiveProcessors_, acceptVars, connMutex_, pipe,
                   taskVars, ioVars, workerVars, stopVars>>

(* The frame is too large or there is no memory for it: close.             *)
RefusesFrame(i, o) ==
    /\ "frame" \in Faults
    /\ io[i] = "loop" /\ tc[o].ioThread_ = i /\ tc[o].eventFlags_ = "read"
    /\ Unread(o)
    /\ Close(o)
    /\ UNCHANGED <<configVars, numActiveProcessors_, acceptVars, connMutex_, pipe,
                   taskVars, ioVars, workerVars, stopVars>>

(* The request is complete: a task for the pool, or a call of the          *)
(* processor by the IO thread itself.                                      *)
ReadRequest(i, o) ==
    /\ io[i] = "loop" /\ tc[o].ioThread_ = i /\ tc[o].eventFlags_ = "read"
    /\ tc[o].socketState_ = "RECV" /\ tc[o].appState_ = "READ_REQUEST"
    /\ Unread(o)
    /\ connMutex_ = None
    /\ peer' = [peer EXCEPT ![tc[o].tSocket_] = IF @ = "left" THEN "hungup" ELSE "waiting"]
    /\ numActiveProcessors_' = numActiveProcessors_ + 1
    /\ hand' = [hand EXCEPT ![i] = o]
    /\ \/ /\ threadPoolProcessing_ /\ IOGoto(i, "add")
          /\ tc' = [tc EXCEPT ![o] = Waiting(Emptied(@))]
       \/ /\ ~threadPoolProcessing_ /\ IOGoto(i, "process")
          /\ tc' = [tc EXCEPT ![o] = Emptied(@)]
    /\ UNCHANGED <<configVars, poolVars, acceptVars, connMutex_, pipe, taskVars,
                   workerVars, requests, stopVars>>

(* process() returns with a result, or without one after a oneway call ... *)
Process(i) ==
    LET o == hand[i]
        c == tc[o].tSocket_
    IN  /\ io[i] = "process" /\ connMutex_ = None
        /\ \E result \in {tc[o].output, c} :
              /\ tc' = [tc EXCEPT ![o] = Answering([@ EXCEPT !.output = result])]
              /\ IF result = None THEN Served(c) ELSE UNCHANGED peer
        /\ numActiveProcessors_' = Decremented
        /\ IOGoto(i, "loop")
        /\ UNCHANGED <<configVars, poolVars, acceptVars, connMutex_, pipe, taskVars,
                       hand, workerVars, requests, stopVars>>

(* ... or throws.                                                          *)
ProcessThrows(i) ==
    /\ io[i] = "process"
    /\ numActiveProcessors_' = Decremented
    /\ Close(hand[i])
    /\ IOGoto(i, "loop")
    /\ UNCHANGED <<configVars, acceptVars, connMutex_, pipe, taskVars, hand, workerVars,
                   stopVars>>

SendResult(i, o) ==
    /\ io[i] = "loop" /\ tc[o].ioThread_ = i /\ tc[o].eventFlags_ = "write"
    /\ tc' = [tc EXCEPT ![o] = Reading(@)]
    /\ Served(tc[o].tSocket_)
    /\ UNCHANGED <<configVars, poolVars, numActiveProcessors_, acceptVars, connMutex_,
                   pipe, taskVars, ioVars, workerVars, requests, stopVars>>

-----------------------------------------------------------------------------
(* addTask(): ThreadManager::add with no timeout                           *)

QueueFull == pendingTaskCountMax_ > 0 /\ Len(tasks_) >= pendingTaskCountMax_
Task(o) == [connection |-> o, socket |-> tc[o].tSocket_]

AddTask(i) ==
    /\ io[i] \in {"add", "woken"} /\ mutex_ = None /\ ~QueueFull
    /\ tasks_' = Append(tasks_, Task(hand[i]))
    /\ IOGoto(i, "loop")
    /\ UNCHANGED <<configVars, tc, poolVars, numActiveProcessors_, acceptVars, connMutex_,
                   pipe, mutex_, hand, workerVars, clientVars, stopVars>>

AddBlocks(i) ==
    /\ io[i] \in {"add", "woken"} /\ mutex_ = None /\ QueueFull
    /\ IOGoto(i, "blocked")
    /\ UNCHANGED <<configVars, tc, poolVars, numActiveProcessors_, acceptVars, connMutex_,
                   pipe, taskVars, hand, workerVars, clientVars, stopVars>>

(* The manager is not started any more.                                    *)
AddRefused(i) ==
    /\ "refused" \in Faults
    /\ io[i] = "add" /\ mutex_ = None
    /\ numActiveProcessors_' = Decremented
    /\ Close(hand[i])
    /\ IOGoto(i, "loop")
    /\ UNCHANGED <<configVars, acceptVars, connMutex_, pipe, taskVars, hand, workerVars,
                   stopVars>>

(* forceClose() marks the connection and sends it to its IO thread.  When  *)
(* that fails it counts the processor out, closes the connection and       *)
(* throws: see ExpireNotifyFails, WorkerNotifyFails and DrainNotifyFails.  *)
Forced(conn) == [conn EXCEPT !.appState_ = "CLOSE_CONNECTION"]

(* A full queue makes add() look for an expired task, the oldest first;    *)
(* expireClose() is called with the mutex of the pool.                     *)
AddExpires(i) ==
    /\ "expired" \in Faults
    /\ io[i] = "add" /\ mutex_ = None /\ QueueFull
    /\ mutex_' = i
    /\ tc' = [tc EXCEPT ![Head(tasks_).connection] = Forced(@)]
    /\ IOGoto(i, "expire")
    /\ UNCHANGED <<configVars, poolVars, numActiveProcessors_, acceptVars, connMutex_,
                   pipe, tasks_, hand, workerVars, clientVars, stopVars>>

ExpireNotify(i) ==
    LET o == Head(tasks_).connection
    IN  /\ io[i] = "expire" /\ Room(tc[o].ioThread_)
        /\ Put(tc[o].ioThread_, o)
        /\ tasks_' = Append(Tail(tasks_), Task(hand[i]))
        /\ mutex_' = None
        /\ IOGoto(i, "loop")
        /\ UNCHANGED <<configVars, tc, poolVars, numActiveProcessors_, acceptVars,
                       connMutex_, hand, workerVars, clientVars, stopVars>>

(* The exception of forceClose() leaves removeExpired() before the erase,  *)
(* add() and transition(): the task of the closed connection stays queued. *)
ExpireNotifyFails(i) ==
    /\ "notify" \in Faults
    /\ io[i] = "expire"
    /\ numActiveProcessors_' = Decremented
    /\ Close(Head(tasks_).connection)
    /\ mutex_' = None
    /\ broken' = "add"
    /\ IOGoto(i, "unwind")
    /\ UNCHANGED <<configVars, acceptVars, connMutex_, pipe, tasks_, hand, workerVars,
                   stopPc, stopLost>>

(* eventHandler() catches it and closes the connection that was to be      *)
(* added, whose processor stays counted.                                   *)
Unwind(i) ==
    /\ io[i] = "unwind"
    /\ Close(hand[i])
    /\ broken' = "unwound"
    /\ IOGoto(i, "loop")
    /\ UNCHANGED <<configVars, numActiveProcessors_, acceptVars, connMutex_, pipe, taskVars,
                   hand, workerVars, stopPc, stopLost>>

-----------------------------------------------------------------------------
(* The workers and TConnection::Task::run                                  *)

(* A worker that takes a task wakes one thread that is blocked in add().   *)
WakeAdder ==
    \/ (\A i \in IOThreads : io[i] # "blocked") /\ UNCHANGED io
    \/ \E i \in IOThreads : io[i] = "blocked" /\ IOGoto(i, "woken")

Take(w) ==
    /\ worker[w] = "idle" /\ mutex_ = None /\ tasks_ # <<>>
    /\ job' = [job EXCEPT ![w] = Head(tasks_)]
    /\ tasks_' = Tail(tasks_)
    /\ worker' = [worker EXCEPT ![w] = "run"]
    /\ WakeAdder
    /\ UNCHANGED <<configVars, tc, poolVars, numActiveProcessors_, acceptVars, connMutex_,
                   pipe, mutex_, hand, clientVars, stopVars>>

(* The task has expired in the queue: expireClose() instead of run().      *)
TakeExpired(w) ==
    /\ "expired" \in Faults
    /\ worker[w] = "idle" /\ mutex_ = None /\ tasks_ # <<>>
    /\ job' = [job EXCEPT ![w] = Head(tasks_)]
    /\ tasks_' = Tail(tasks_)
    /\ tc' = [tc EXCEPT ![Head(tasks_).connection] = Forced(@)]
    /\ worker' = [worker EXCEPT ![w] = "notify"]
    /\ WakeAdder
    /\ UNCHANGED <<configVars, poolVars, numActiveProcessors_, acceptVars, connMutex_,
                   pipe, mutex_, hand, clientVars, stopVars>>

(* The processor writes a result into the connection's buffer, or none     *)
(* after a oneway call, whose client does not wait ...                     *)
RunTask(w) ==
    /\ worker[w] = "run"
    /\ \/ /\ tc' = [tc EXCEPT ![job[w].connection].output = job[w].socket]
          /\ UNCHANGED peer
       \/ Served(job[w].socket) /\ UNCHANGED tc
    /\ worker' = [worker EXCEPT ![w] = "notify"]
    /\ UNCHANGED <<configVars, poolVars, numActiveProcessors_, acceptVars, connMutex_,
                   pipe, taskVars, ioVars, job, requests, stopVars>>

(* ... or throws before it has written anything, which run() swallows.     *)
Forsaken(c) == peer' = [peer EXCEPT ![c] = IF @ = "waiting" THEN "forsaken" ELSE @]
RunTaskThrows(w) ==
    /\ worker[w] = "run"
    /\ Forsaken(job[w].socket)
    /\ worker' = [worker EXCEPT ![w] = "notify"]
    /\ UNCHANGED <<configVars, tc, poolVars, numActiveProcessors_, acceptVars, connMutex_,
                   pipe, taskVars, ioVars, job, requests, stopVars>>

WorkerNotify(w) ==
    LET o == job[w].connection
    IN  /\ worker[w] = "notify" /\ Room(tc[o].ioThread_)
        /\ Put(tc[o].ioThread_, o)
        /\ worker' = [worker EXCEPT ![w] = "idle"]
        /\ job' = [job EXCEPT ![w] = None]
        /\ UNCHANGED <<configVars, tc, poolVars, numActiveProcessors_, acceptVars,
                       connMutex_, taskVars, ioVars, clientVars, stopVars>>

(* The notification fails: the worker closes the connection.  After run()  *)
(* it goes on; the exception of forceClose() leaves the thread instead,    *)
(* which ends the process.                                                 *)
WorkerNotifyFails(w) ==
    /\ "notify" \in Faults
    /\ worker[w] = "notify"
    /\ numActiveProcessors_' = Decremented
    /\ Close(job[w].connection)
    /\ worker' = [worker EXCEPT ![w] = "idle"]
    /\ job' = [job EXCEPT ![w] = None]
    /\ broken' = IF tc[job[w].connection].appState_ = "CLOSE_CONNECTION" THEN "worker"
                                                                        ELSE broken
    /\ UNCHANGED <<configVars, acceptVars, connMutex_, pipe, taskVars, ioVars,
                   stopPc, stopLost>>

-----------------------------------------------------------------------------
(* notifyHandler(): a pointer comes out of the pipe                        *)

Next1(i) == Head(pipe[i])
Got(i) == io[i] = "loop" /\ pipe[i] # <<>>
Pop(i) == pipe' = [pipe EXCEPT ![i] = Tail(@)]

(* Mutated ReceiveStop: the null pointer is skipped.                       *)
ReceiveStopSkips(i) ==
    /\ Got(i) /\ Next1(i) = None
    /\ Pop(i)
    /\ UNCHANGED <<configVars, tc, poolVars, numActiveProcessors_, acceptVars, connMutex_,
                   taskVars, ioVars, workerVars, clientVars, stopVars>>

ReceiveStop(i) ==
    /\ Got(i) /\ Next1(i) = None
    /\ Pop(i)
    /\ IOGoto(i, "done")
    /\ UNCHANGED <<configVars, tc, poolVars, numActiveProcessors_, acceptVars, connMutex_,
                   taskVars, hand, workerVars, clientVars, stopVars>>

ReceiveFresh(i) ==
    /\ Got(i) /\ Next1(i) # None
    /\ tc[Next1(i)].appState_ = "INIT"
    /\ Pop(i)
    /\ tc' = [tc EXCEPT ![Next1(i)] = Reading(@)]
    /\ UNCHANGED <<configVars, poolVars, numActiveProcessors_, acceptVars, connMutex_,
                   taskVars, ioVars, workerVars, clientVars, stopVars>>

(* The task is done; without a result the connection goes back to reading. *)
ReceiveResult(i) ==
    /\ Got(i) /\ Next1(i) # None /\ connMutex_ = None
    /\ tc[Next1(i)].appState_ = "WAIT_TASK"
    /\ Pop(i)
    /\ numActiveProcessors_' = Decremented
    /\ tc' = [tc EXCEPT ![Next1(i)] = Answering(@)]
    /\ UNCHANGED <<configVars, poolVars, acceptVars, connMutex_, taskVars, ioVars,
                   workerVars, clientVars, stopVars>>

(* Mutated ReceiveClose: the processor is not counted out.                 *)
ReceiveCloseUncounted(i) ==
    /\ Got(i) /\ Next1(i) # None
    /\ tc[Next1(i)].appState_ = "CLOSE_CONNECTION"
    /\ Pop(i)
    /\ Close(Next1(i))
    /\ UNCHANGED <<configVars, numActiveProcessors_, acceptVars, connMutex_, taskVars,
                   ioVars, workerVars, stopVars>>

ReceiveClose(i) ==
    /\ Got(i) /\ Next1(i) # None
    /\ tc[Next1(i)].appState_ = "CLOSE_CONNECTION"
    /\ Pop(i)
    /\ numActiveProcessors_' = Decremented
    /\ Close(Next1(i))
    /\ UNCHANGED <<configVars, acceptVars, connMutex_, taskVars, ioVars, workerVars, stopVars>>

-----------------------------------------------------------------------------
(* handleEvent(): IO thread 0 accepts a client                             *)

(* serverOverloaded(), which reads the counters without connMutex_.        *)
Overloaded ==
    LET active == numTConnections_ - Len(connectionStack_)
    IN  \/ numActiveProcessors_ > MaxProcessors \/ active > MaxConnections
        \/ /\ overloaded_
           /\ ~(/\ 10 * numActiveProcessors_ <= Hysteresis * MaxProcessors
                /\ 10 * active <= Hysteresis * MaxConnections)

Accept(c) ==
    /\ io[0] = "loop" /\ peer[c] = "backlog"
    /\ overloadAction_ = "none" \/ ~Overloaded
    /\ overloaded_' = IF overloadAction_ = "none" THEN overloaded_ ELSE FALSE
    /\ incoming' = c
    /\ IOGoto(0, "create")
    /\ UNCHANGED <<configVars, tc, poolVars, numActiveProcessors_, nextIOThread_, connMutex_,
                   pipe, taskVars, hand, workerVars, clientVars, stopVars>>

(* Overloaded: the client is dropped ...                                   *)
DropOnAccept(c) ==
    /\ io[0] = "loop" /\ peer[c] = "backlog" /\ connMutex_ = None
    /\ overloadAction_ = "close" /\ Overloaded
    /\ overloaded_' = TRUE
    /\ peer' = [peer EXCEPT ![c] = "closed"]
    /\ UNCHANGED <<configVars, tc, poolVars, numActiveProcessors_, nextIOThread_, incoming,
                   connMutex_, pipe, taskVars, ioVars, workerVars, requests, stopVars>>

(* ... or a task is taken out of the queue, while connMutex_ is held, and  *)
(* its connection sent to its IO thread to be closed.                      *)
BeginDrain(c) ==
    /\ io[0] = "loop" /\ peer[c] = "backlog" /\ connMutex_ = None
    /\ overloadAction_ = "drain" /\ Overloaded
    /\ overloaded_' = TRUE
    /\ connMutex_' = 0
    /\ incoming' = c
    /\ IOGoto(0, "drain")
    /\ UNCHANGED <<configVars, tc, poolVars, numActiveProcessors_, nextIOThread_, pipe,
                   taskVars, hand, workerVars, clientVars, stopVars>>

NothingToDrain ==
    /\ io[0] = "drain" /\ mutex_ = None /\ tasks_ = <<>>
    /\ peer' = [peer EXCEPT ![incoming] = "closed"]
    /\ connMutex_' = None
    /\ IOGoto(0, "loop")
    /\ UNCHANGED <<configVars, tc, poolVars, numActiveProcessors_, acceptVars, pipe,
                   taskVars, hand, workerVars, requests, stopVars>>

DrainTask ==
    /\ io[0] = "drain" /\ mutex_ = None /\ tasks_ # <<>>
    /\ hand' = [hand EXCEPT ![0] = Head(tasks_).connection]
    /\ tc' = [tc EXCEPT ![Head(tasks_).connection] = Forced(@)]
    /\ tasks_' = Tail(tasks_)
    /\ IOGoto(0, "drained")
    /\ UNCHANGED <<configVars, poolVars, numActiveProcessors_, acceptVars, connMutex_,
                   pipe, mutex_, workerVars, clientVars, stopVars>>

DrainNotify ==
    /\ io[0] = "drained" /\ Room(tc[hand[0]].ioThread_)
    /\ Put(tc[hand[0]].ioThread_, hand[0])
    /\ connMutex_' = None
    /\ IOGoto(0, "create")
    /\ UNCHANGED <<configVars, tc, poolVars, numActiveProcessors_, acceptVars, taskVars,
                   hand, workerVars, clientVars, stopVars>>

(* forceClose() counts the processor out, which takes connMutex_ again:    *)
(* the thread waits for itself.                                            *)
DrainNotifyFails ==
    /\ "notify" \in Faults
    /\ io[0] = "drained"
    /\ IOGoto(0, "stuck")
    /\ broken' = "drain"
    /\ UNCHANGED <<configVars, tc, poolVars, numActiveProcessors_, acceptVars, connMutex_,
                   pipe, taskVars, hand, workerVars, clientVars, stopPc, stopLost>>

(* createConnection(): round robin over the IO threads, an object from the *)
(* stack or a new one.                                                     *)
Fresh(o, c) == [Blank EXCEPT !.ioThread_ = nextIOThread_, !.tSocket_ = c,
                             !.output = IF connectionStack_ = <<>> THEN None ELSE tc[o].output]
Allocated == activeConnections_ \cup lost
                \cup {connectionStack_[k] : k \in DOMAIN connectionStack_}
Top == connectionStack_[Len(connectionStack_)]
Popped == SubSeq(connectionStack_, 1, Len(connectionStack_) - 1)

CreateConnection ==
    LET reused == connectionStack_ # <<>>
        o == IF reused THEN Top ELSE CHOOSE x \in Objects : x \notin Allocated
        mine == nextIOThread_ = 0
    IN  /\ io[0] = "create" /\ connMutex_ = None
        /\ connectionStack_' = IF reused THEN Popped ELSE connectionStack_
        /\ numTConnections_' = IF reused THEN numTConnections_ ELSE numTConnections_ + 1
        /\ activeConnections_' = activeConnections_ \cup {o}
        /\ nextIOThread_' = (nextIOThread_ + 1) % NumIOThreads
        /\ tc' = [tc EXCEPT ![o] = IF mine THEN Reading(Fresh(o, incoming))
                                       ELSE Fresh(o, incoming)]
        /\ IOGoto(0, IF mine THEN "loop" ELSE "fresh")
        /\ hand' = [hand EXCEPT ![0] = o]
        /\ peer' = [peer EXCEPT ![incoming] = "connected"]
        /\ UNCHANGED <<configVars, lost, numActiveProcessors_, overloaded_, incoming,
                       connMutex_, pipe, taskVars, workerVars, requests, stopVars>>

(* init() throws, as when the application's createContext does: a new      *)
(* object is freed again, one from the stack is not put back.              *)
CreateThrows ==
    /\ "context" \in Faults
    /\ io[0] = "create" /\ connMutex_ = None
    /\ \/ connectionStack_ = <<>> /\ UNCHANGED <<connectionStack_, lost>>
       \/ /\ connectionStack_ # <<>>
          /\ connectionStack_' = Popped
          /\ lost' = lost \cup {Top}
    /\ nextIOThread_' = (nextIOThread_ + 1) % NumIOThreads
    /\ peer' = [peer EXCEPT ![incoming] = "closed"]
    /\ IOGoto(0, "loop")
    /\ UNCHANGED <<configVars, tc, activeConnections_, numTConnections_, numActiveProcessors_,
                   overloaded_, incoming, connMutex_, pipe, taskVars, hand, workerVars,
                   requests, stopVars>>

FreshNotify ==
    /\ io[0] = "fresh" /\ io[tc[hand[0]].ioThread_] # "off" /\ Room(tc[hand[0]].ioThread_)
    /\ Put(tc[hand[0]].ioThread_, hand[0])
    /\ IOGoto(0, "loop")
    /\ UNCHANGED <<configVars, tc, poolVars, numActiveProcessors_, acceptVars, connMutex_,
                   taskVars, hand, workerVars, clientVars, stopVars>>

(* The notification fails, as it does before the IO thread has registered. *)
FreshNotifyFails ==
    /\ io[0] = "fresh" /\ ("notify" \in Faults \/ io[tc[hand[0]].ioThread_] = "off")
    /\ Close(hand[0])
    /\ IOGoto(0, "loop")
    /\ UNCHANGED <<configVars, numActiveProcessors_, acceptVars, connMutex_, pipe, taskVars,
                   hand, workerVars, stopVars>>

-----------------------------------------------------------------------------
(* serve(), stop() and the clients                                         *)

(* An IO thread registers its events and enters its loop.                  *)
Register(i) ==
    /\ io[i] = "off"
    /\ IOGoto(i, "loop")
    /\ UNCHANGED <<configVars, tc, poolVars, numActiveProcessors_, acceptVars, connMutex_,
                   pipe, taskVars, hand, workerVars, clientVars, stopVars>>

BeginStop ==
    /\ stopPc = None /\ stopPc' = 0
    /\ UNCHANGED <<configVars, tc, poolVars, numActiveProcessors_, acceptVars, connMutex_,
                   pipe, taskVars, ioVars, workerVars, clientVars, stopLost, broken>>

(* One IO thread after the other gets a null pointer; one that has not     *)
(* registered yet has no pipe and is missed.                               *)
StopThread ==
    /\ stopPc \in IOThreads
    /\ \/ io[stopPc] = "off" /\ stopLost' = TRUE /\ UNCHANGED pipe
       \/ io[stopPc] # "off" /\ Room(stopPc) /\ Put(stopPc, None) /\ UNCHANGED stopLost
    /\ stopPc' = stopPc + 1
    /\ UNCHANGED <<configVars, tc, poolVars, numActiveProcessors_, acceptVars, connMutex_,
                   taskVars, ioVars, workerVars, clientVars, broken>>

Client(c) ==
    /\ \/ /\ peer[c] = "away" /\ peer' = [peer EXCEPT ![c] = "backlog"]
          /\ UNCHANGED requests
       \/ /\ peer[c] = "connected" /\ requests[c] < MaxRequests
          /\ peer' = [peer EXCEPT ![c] = "requested"]
          /\ requests' = [requests EXCEPT ![c] = @ + 1]
       \/ /\ peer[c] \in {"connected", "requested", "waiting", "forsaken"}
          /\ peer' = [peer EXCEPT ![c] = "hungup"]
          /\ UNCHANGED requests
       \/ /\ peer[c] = "requested" /\ peer' = [peer EXCEPT ![c] = "left"]
          /\ UNCHANGED requests
    /\ UNCHANGED <<configVars, tc, poolVars, numActiveProcessors_, acceptVars, connMutex_,
                   pipe, taskVars, ioVars, workerVars, stopVars>>

ConnectionEvent(i, o) ==
    ReadFrameSize(i, o) \/ ReadRequest(i, o) \/ SendResult(i, o) \/ SeesDisconnect(i, o)

PipeEvent(i) ==
    ReceiveStop(i) \/ ReceiveFresh(i) \/ ReceiveResult(i) \/ ReceiveClose(i)

ListenEvent == \E c \in Conns : Accept(c) \/ DropOnAccept(c) \/ BeginDrain(c)

(* The rest of a handler that has begun.                                   *)
Handler(i) ==
    \/ Register(i) \/ Process(i) \/ AddTask(i) \/ AddBlocks(i) \/ ExpireNotify(i)
    \/ i = 0 /\ (\/ NothingToDrain \/ DrainTask \/ DrainNotify
                 \/ CreateConnection \/ FreshNotify \/ FreshNotifyFails)

WorkerStep(w) == Take(w) \/ RunTask(w) \/ WorkerNotify(w)

Failure ==
    \/ CreateThrows
    \/ \E i \in IOThreads : \/ ProcessThrows(i) \/ AddRefused(i) \/ AddExpires(i)
                           \/ ExpireNotifyFails(i)
    \/ \E i \in IOThreads, o \in Objects : RefusesFrame(i, o)
    \/ \E w \in Workers : TakeExpired(w) \/ RunTaskThrows(w) \/ WorkerNotifyFails(w)
    \/ DrainNotifyFails

System ==
    \/ \E i \in IOThreads, o \in Objects : ConnectionEvent(i, o)
    \/ \E i \in IOThreads : PipeEvent(i) \/ Handler(i)
    \/ ListenEvent \/ StopThread
    \/ \E w \in Workers : WorkerStep(w)

(* The model ends with the process, and when a queued task points to an    *)
(* object that is on the stack or freed: to follow it is undefined.        *)
Next ==
    \/ /\ broken \notin {"add", "unwound", "worker"}
       /\ System \/ Failure \/ BeginStop \/ \E c \in Conns : Client(c)
    \/ broken = "add" /\ \E i \in IOThreads : Unwind(i)

Spec == Init /\ [][Next]_vars

(* The server does not stand still while one of its threads can go on and  *)
(* calls of the processor return.  Because clients and requests are finite *)
(* in number this is as much as fairness to each thread.                   *)
Fairness == WF_vars(System)

FairSpec == Spec /\ Fairness

-----------------------------------------------------------------------------
(* Properties                                                              *)

(* Where a reference to connection object o is that its holder will follow *)
(* without a lock: a registered event, a handler, the queue, a worker, a   *)
(* pipe.                                                                   *)
Holding == {"add", "blocked", "woken", "expire", "unwind", "fresh", "drained", "stuck"}
Holders(o) ==
    {<<"event">> : e \in {tc[o].eventFlags_} \ {"none"}}
      \cup {<<"handler", i>> : i \in {j \in IOThreads : io[j] \in Holding /\ hand[j] = o}}
      \cup {<<"queue", k>> : k \in {n \in DOMAIN tasks_ : tasks_[n].connection = o}}
      \cup {<<"worker", w>> : w \in {v \in Workers : worker[v] # "idle" /\ job[v].connection = o}}
      \cup UNION {{<<"pipe", i, k>> : k \in {n \in DOMAIN pipe[i] : pipe[i][n] = o}} :
                     i \in IOThreads}

(* An active connection object is in the hands of exactly one thread or    *)
(* queue, and an object that was closed, and may be given to another       *)
(* client or freed, is in no hands at all; but for the one whose task      *)
(* stays queued when forceClose() has failed in add().                     *)
OneHolder ==
    \A o \in Objects :
        Cardinality(Holders(o)) =
          IF \/ o \in activeConnections_
             \/ broken \in {"add", "unwound"} /\ o = Head(tasks_).connection
          THEN 1 ELSE 0

(* numActiveProcessors_ counts the connections whose request is with the   *)
(* pool, or being closed after it was, or with the processor inline, so    *)
(* the decrement that stops at zero hides no mistake; the exception of a   *)
(* failed forceClose() in add() leaves one too many.  numTConnections_     *)
(* counts the objects in use, on the stack, and lost by a failed           *)
(* createConnection(), and no object is in two places.                     *)
CountersExact ==
    /\ numActiveProcessors_ =
          Cardinality({o \in activeConnections_ :
                          tc[o].appState_ \in {"WAIT_TASK", "CLOSE_CONNECTION"}})
            + Cardinality({i \in IOThreads : io[i] = "process"})
            + IF broken = "unwound" THEN 1 ELSE 0
    /\ numTConnections_ = Cardinality(activeConnections_) + Len(connectionStack_)
                            + Cardinality(lost)
    /\ numTConnections_ = Cardinality(Allocated)

(* What is sent to a client is the result of its own request, although the *)
(* buffer it is in is that of an object which served other clients before. *)
OwnReply ==
    \A o \in activeConnections_ :
        tc[o].appState_ = "SEND_RESULT" => tc[o].output = tc[o].tSocket_

(* A client that has sent a request gets its answer, or its connection is  *)
(* closed, as long as the server is not stopped and no notification of     *)
(* forceClose() fails.  The exception is a call whose processor threw in   *)
(* the pool: run() swallows that, and the client waits for ever on a       *)
(* connection that the server keeps open and reads from.                   *)
RequestAnswered ==
    \A c \in Conns :
        peer[c] = "requested" ~> \/ peer[c] \notin {"requested", "waiting"}
                                \/ stopPc # None \/ broken # "no"

(* stop() ends the loops of all IO threads, so that serve() returns, unless *)
(* it came before a thread had registered or a notification of             *)
(* forceClose() fails.                                                     *)
StopEndsServe ==
    stopPc # None ~> (\A i \in IOThreads : io[i] = "done") \/ stopLost \/ broken # "no"
=============================================================================
