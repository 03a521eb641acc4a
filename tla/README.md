# TLA+ models of the Apache Thrift C++ runtime

This directory holds TLA+ specifications of the concurrent and stateful parts of
the C++ library (`lib/cpp/src/thrift`), the TLC configurations that check them on
small instances, and TLAPS proofs of their most important properties for
instances of any size. Every definition is translated from the source; `PROJECT.json` records
for each one the lines it models.

- [1. The system](#1-the-system)
- [2. Modules](#2-modules)
- [3. Modelling conventions](#3-modelling-conventions)
- [4. Correspondence with the code](#4-correspondence-with-the-code)
- [5. Runs](#5-runs)
- [6. Proofs](#6-proofs)
- [7. Disagreements between code and documentation](#7-disagreements-between-code-and-documentation)
- [8. What is not modelled](#8-what-is-not-modelled)
- [9. Plan](#9-plan)

## 1. The system

Thrift generates clients and servers from an interface description; the C++
library provides what they run on. The parts, bottom up:

| Part | State | Operations | What makes it hard |
|---|---|---|---|
| `concurrency/Monitor`, `Mutex` | a mutex, the threads asleep on a condition | wait, notify, notifyAll | notify wakes any one sleeper; spurious wakeups; timeouts that race a notify |
| `concurrency/ThreadManager` | queue of tasks, worker counts, life-cycle state, three monitors on one mutex | add, remove, removeNextPending, removeExpiredTasks, addWorker, removeWorker, start, stop; the worker loop | counters that decide whom to wake; threads blocked on a full queue; surplus workers; expiry; stop while others wait |
| `concurrency/TimerManager` | map of timers by due time, a dispatcher thread | add, remove (two forms), start, stop | one notify for several kinds of sleepers; the clock is finer than the sleep; tasks run outside the monitor |
| `async/TConcurrentClientSyncInfo` and the generated concurrent client | sequence ids, one monitor per outstanding call, the header that was read for another thread | send_*, recv_* | threads take turns at reading one connection; any of them may fail in the middle |
| `server/TServerFramework`, `TSimpleServer`, `TThreadedServer`, `TThreadPoolServer`, `TConnectedClient` | number of clients and its limit, reference counts of client objects, maps of active and dead threads | serve, stop, setConcurrentClientLimit; connect and dispose | the last reference decides which thread disposes; maps keyed by addresses that are reused; stop against a blocked accept |
| `server/TNonblockingServer` | connection objects and their stack, state of each connection, IO threads, notification pipes, overload counters | event handlers, addTask, expire, drain, stop | objects passed between threads as raw pointers, without a lock; queues and pipes that fill up |
| `transport/TFileTransport` | two buffers of events, a writer thread, chunks of the log file, a read buffer | write, flush, the destructor, read; the writer thread | batches swapped under one of three monitors; the end of the log found by reading it; a reader that follows a growing file |
| `transport/TBufferTransports` | read and write buffers, frame sizes, the read budget of a message | read, borrow, consume, readEnd, write, flush, close | buffers that fill exactly; frames that arrive in pieces; a budget that has to fit each frame |
| `protocol/TCompactProtocol` over `TMemoryBuffer` | last field ids and their stack, a bool that waits for its header or its value, the buffer's positions | write*/read* | deltas, packed bytes and variable-length integers at their limits; a buffer that grows while it is read |
| other `transport/*`, `protocol/*`, `processor/*` | sockets, text formats | open, read, write, dispatch | blocking I/O, parsing |
| `compiler/` | – | parse, generate | a batch program |
| other languages under `lib/` | – | – | independent implementations |

How they interact: a server accepts connections through a server transport and
hands each client (`TThreadedServer`: to a thread; `TThreadPoolServer`,
`TNonblockingServer`: as a task to the `ThreadManager`). Processors read and
write through protocols and transports: a message is encoded by a protocol into
a memory buffer or into the write buffer of a buffered or framed transport, and
decoded at the other end under the read budget of the transport. Several threads of a client process may
share one connection through `TConcurrentClientSyncInfo`. `TimerManager` stands
by itself on `Monitor`.

What it means for the system to be right, and what the properties below state:
no thread sleeps while there is work for it; counters on which decisions rest
are exact; a task runs at most once; each caller gets the reply to its own call;
an object has one owner at a time; limits hold; stop ends everything it should,
and nothing runs afterwards; what is written is read again, byte for byte and
call for call, across buffers, frames, log files and restarts. The hazards behind each of these, at the lines
where they bite, are listed in `PROJECT.json`, including those that no property
covers yet and why.

## 2. Modules

| Module | Models |
|---|---|
| `Monitor` | condition variables as wait sets; extended by `ThreadManager`, `TimerManager` and `FileTransport` |
| `TaskPool` | abstract: a bounded queue served in order, each task with one outcome |
| `ThreadManager` | `concurrency/ThreadManager.cpp` |
| `ThreadManagerProofs` | the queue's bound, where every task is, tasks run at most once; `ThreadManager` implements `TaskPool` |
| `ThreadManagerWorkerProofs` | type correctness of the pool; workers are woken, counters are exact, a stopped pool has no workers |
| `TimerManager` | `concurrency/TimerManager.cpp` |
| `TimerManagerProofs` | safety of the timer manager |
| `ConcurrentClient` | `async/TConcurrentClientSyncInfo.cpp` with the `send_`/`recv_` code of `t_cpp_generator.cc` |
| `ConcurrentClientProofs` | headers are read in step, calls get their own replies, have ids and monitors of their own; the threads that share a client never all sleep |
| `ServerFramework` | `TServerFramework.cpp` composed with the three blocking servers, `TConnectedClient.cpp` and the interrupts of `TServerSocket.cpp` |
| `ServerFrameworkProofs` | clients are counted, the limit is kept, no thread is forgotten, `serve()` leaves nothing behind |
| `NonblockingServer` | `TNonblockingServer.cpp` composed with the part of the pool it uses |
| `NonblockingServerProofs` | the invariant of the server; each step keeps every connection in one place and its state in order |
| `NonblockingServerCountProofs` | the steps keep the types and the counts, hence the theorems: one holder, exact counters, own results |
| `EventFile` | how `TFileTransport` lays out, reads and recovers a log file: operators on bytes |
| `FileTransport` | `TFileTransport.cpp`: the writing program, its writer thread and a reader |
| `ByteStream` | abstract: bytes come out as they went in, whole messages if so asked |
| `MessageBudget` | the read budget of `TTransport.h` |
| `BufferTransports` | `TBufferedTransport` and `TFramedTransport`, a writer and a reader with a connection in between |
| `MemoryBuffer` | `TMemoryBuffer`: operators on a record |
| `CompactInts` | zigzag, varints, casts, packed header bytes and field deltas of the compact protocol |
| `CompactProtocol` | `TCompactProtocol.tcc` composed with `MemoryBuffer`: one object that writes, one that reads |
| `WireProofs` | both transports implement `ByteStream`, fail only for a reason, and budget and frame fit; the conversions of `CompactInts`, varints included, are inverted for all widths and ids |
| `MC*` | model values and small constants for TLC, one per specification |

Definitions named like another one with a suffix and introduced as "Mutated ..."
are plausible mistakes in the code (a dropped notify, an off-by-one, an `if` for
a `while`). They are not part of a specification. Substituting one for its
original makes TLC report the property that `PROJECT.json` pairs with it: this
is how we know that a property can fail.

## 3. Modelling conventions

- **Steps.** An action is what a thread does from taking a mutex to giving it
  back, or to waiting on a monitor. Where the code keeps a mutex across several
  decisions, or changes shared state without one, the action is cut there and a
  variable records the holder (`mutex_`, `clientMonitor_`, `connMutex_`,
  `readMutex_`, ...).
- **Monitors.** A wait set holds the threads that sleep and were not signalled.
  A signalled thread has left it but still has to take the mutex again, so
  others may come first. `notify` chooses any sleeper; every model has spurious
  wakeups.
- **Timeouts.** A timed wait may end at any moment, also after a notify that it
  has not noticed. Only `TimerManager` has a clock.
- **Calls that throw** without changing anything are stuttering steps and left
  out. Failures that change something are actions, enabled by the constant
  `Faults` where there is a choice.
- **Data.** Payloads, messages and buffers are model values or are reduced to
  what the properties tell apart: to whom a message belongs, whether a frame is
  complete, whether a buffer still holds an old result. Where the bytes are the
  point (log file, frames, compact protocol) they are bytes, and the sizes are
  small constants.
- **Bounds.** Counters that only bound the model are named: `MaxCalls`,
  `MaxRequests`, `MaxClock`, `MaxWrites`, `MaxFlushes`, `MaxRestarts`, `MaxFaults`,
  `MaxBytes`, `MaxMessages`, `MaxFields`, and the sets of tasks and timers, each
  added once.
- **Integers.** `workerCount_` wraps at `SizeMax` as a `size_t` does; sequence
  ids wrap at `SeqMin`/`SeqMax`, which stand for the limits of `int32_t`. The
  integers of the compact protocol are `I16Bits`, `I32Bits` and `I64Bits` wide;
  the instance takes 16, 20 and 30, TLC's own integers having 32 bits.

## 4. Correspondence with the code

### ThreadManager
Variables are the fields of `ThreadManager::Impl`; `workerPc`, `callerPc` and
`adminPc` say where each thread is, and `fate` remembers what became of every
task. `Worker::run` is split at its decisions: `WorkerStart`, `WorkerWait`,
`WorkerWakeup`, `WorkerDequeue`, `WorkerTaskDone`/`WorkerExpireDone`,
`WorkerInactive`, `WorkerExit`. `add()` is `Add` when there is room (perhaps made
by dropping an expired task), `AddBlock` when there is none, and `AddWakeup` or
`AddTimeout` later; a running task may call it, too. `removeExpiredTasks()` does
not take the mutex in the code (line 130), so its steps do not ask for it either:
`SweepBegin` reads the clock, `SweepPass` and `SweepEnd` move the iterator `sweepAt`,
`SweepCallback` calls the callback, `SweepErase` erases what the iterator points to
by then, and `SweepCount` writes the counter that was read before. Other threads
move the queue under the iterator (`Shifted`): a task that is erased although its
time is not over gets the fate `"lost"`. With the constant `SweepsAlone` the
program keeps the other threads away from the manager during the call. Within one
access to the deque nothing interferes; what two truly simultaneous ones would do
is outside of the model.
`AddWorker`, `RemoveWorker`, `Stop` and `AdminWakeup` are the managing calls with
their wait for the worker count to settle. Constants say which threads make
which calls, so that a run can do without some of them. `Pool` maps the manager
to `TaskPool`: the queue is the queue, a worker that runs a task is a busy slot,
and a task whose `add()` is blocked is still new.

### TimerManager
`Sleep`, `TimesOut`, `TakeExpired`, `RunTask`, `EndBatch`, `CheckState` and `Exit`
are `Dispatcher::run`; the unsynchronised read of `state_` at the end of its loop
may see the old value. `Start`/`Spawn`/`AwaitStart` and
`Stop`/`AwaitStop`/`CleanUp` are the two calls with what they do outside the
monitor. The clock has `MS` units per millisecond: `Timeout` is the conversion of
the code, which cuts to whole milliseconds and waits for at least one, because a
timeout of zero means to wait for ever.

### ConcurrentClient
A call goes `GenerateSeqId`, `LockWrite`, `Written`, `LockRead`, then the loop of
`recv_`: `ReadHeader`, `UpdatePending`, `CheckForWork`, `WaitForever`/`Wakeup`,
`Reply`. The destructors of the two sentries are part of the action that leaves
their scope. A failed send runs `markBad_` under `seqidMutex_` but without
`readMutex_`; `WriteFails` and `SendMarksBad` therefore interleave with the
readers. The server may reply in any order, reply to a call that does not exist,
or close; a body may be unreadable. A message that is no `T_REPLY` (`WrongType`) is
skipped by `recv_`, which neither throws nor returns then: the thread goes on to read
a result from what comes behind the message (`ReadOn`), and fails or takes bytes that
are another thread's for its own (`"misread"`, which is not followed further).

### ServerFramework
`kind` selects the class. The deleter of a client object is a sequence of steps
(`DropReference`, `LockClients`, `JoinDead`, `MoveToDead`, `DeleteClient`,
`UncountClient`) taken by whichever thread drops the last reference. Addresses
are chosen among the free ones and reused. `stop()` is two steps,
`StopChildren` and `StopAccept`, as in the code, and is called once the server
listens. The thread pool is reduced to what `ThreadManager` promises: a bounded
queue that blocks, refuses or expires tasks.

### NonblockingServer
A record per `TConnection` holds its states, its event registration and whose
result is in its output buffer. Handlers are cut where another thread can
interfere: at `connMutex_`, at the pool's mutex, and at a full pipe. The
decrement of the active processors and the close that follows it take
`connMutex_` twice in the code and are one step here; nothing reads the counter
in between but the overload test, whose input may lag by one. A new connection
takes the object on top of the stack, or a fixed free one, since fresh addresses
are interchangeable. `lost` holds objects that are counted and reachable from
nowhere. A `ReadRequest` finds a whole frame; a partial read leaves the state as
it is and waits for the next event.

`forceClose()` closes nothing itself: it notifies the connection's IO thread, and
if that fails it closes the connection and throws (lines 319-323). `broken` says
where the exception went. In `add()` on a full queue (`ExpireNotifyFails`) it
leaves `removeExpired` before the erase, so the task of the closed connection stays
at the head of the queue, and `eventHandler` catches it and closes the connection
that was adding without taking its processor off the count (`Unwind`). In a worker
(`WorkerNotifyFails`) it leaves the thread, which ends the process. In
`drainPendingTask` the thread waits for `connMutex_`, which it holds
(`DrainNotifyFails`). The model ends with the process, and where a task in the
queue points to an object that is already on the stack or freed. An exception
of the processor is swallowed by `Task::run` (`RunTaskThrows`, lines 366-379): the
empty output is taken for that of a oneway call, and the client of a two-way call
is `Forsaken`, with neither an answer nor a closed connection.

### FileTransport
`Write`, `Flush` and `Destroy` are the calls of the program, `WriteWakes`,
`FlushWakes`, `DestroyNotifies` and `DestroyJoins` what is left of them after a
wait. The writer thread is `WriterStarts` (which finds the end of the log with
`SeekToEnd` and truncates the file there), `WriterTop`, `Swap` with its wait,
`Reopen` (after an error), `PadChunk`, `AppendEvent` or `SkipEvent`, `CheckFlush`,
`Fsync` and `NotifyFlushed`; a system call is a step. Each of them may fail:
after a failed write or reopening the thread drops the event, or gives up its batch
(`GiveUp`); the result of `fsync` is ignored, as in the code. The history variable
`mishaps` remembers that the file was opened again, after which `offset_` is no
longer where the file ends, and that an `fsync` failed.
After its wait `swapEventBuffers` swaps when the buffer is still empty and not
when an event has come (line 284); the model does the same, and the events are
taken at the next turn. `Read` is one turn of `readEvent` by the reading object, with the
waiting at the end of the file, and the copy to the caller. `logged`, `accepted` and `delivered` are history.
Reading is `EventFile`: `Parse` is the loop over the read buffer,
`PerformRecovery` what happens after a corrupted event.

### BufferTransports
The writer writes, flushes, closes; a write or a flush may fail half way, and the
connection may be reset. A flush that fails has emptied its buffer before, and the
program may close the transport. A `write()` that fails (`WriteFails`) keeps the
buffer although a part of it was sent; the next `flush()` or `close()` would send it
again, and the writer is not followed beyond that point. The reader reads, borrows and consumes, peeks, and calls `readEnd`.
A read that has to wait keeps its progress in `part` (`readAll` of the frame size
and of the frame takes what comes). The budget is drawn on by `consume()` only, as
in the code, and bound to a frame by `readFrame()`.

### CompactProtocol and MemoryBuffer
A step is one call of `TCompactProtocolT` with all the bytes it writes or reads.
`toWrite` and `toRead` are the grammar of messages: the writer takes any call that
fits, the reader the call that what it has read asks for. Calls on the two objects
interleave, so that the buffer grows, and is reset, while a message is read.
`Bind` is the call of a server that limits the budget to what is in the buffer;
it throws if that is more than a message may have.
An exception ends the object that met it.

## 5. Runs

TLC finishes each run in at most two minutes with two workers.

| Run | Instance | Shows |
|---|---|---|
| `tm_safety` | 2 workers, 2 callers, 1 managing thread, 3 tasks (one expires), queue of 2, all kinds of timeouts, removals, sweeps with nobody else in the manager | `TypeOK`, `TasksAccounted`, `CountersExact`, `NoSleepWhileWork`, `StopLeavesNoWorker`; `ImplementsPool`: the refinement of `TaskPool` |
| `tm_live` | queue of 1, two callers that block for ever | `PendingTaskIsTaken`, `CallsReturn`, `StopDrainsQueue` |
| `timer` | 2 threads that start and stop, 2 timers of one task, 2 units per millisecond | `TypeOK`, `NeverOversleeps`, `CountMatchesMap`, `StoppedIsQuiet`, `CallsReturn`, `TimersFire` |
| `cc_calls` | 3 calls at once, one perhaps oneway, ids that wrap, a cache of one monitor, all faults, messages of the wrong type included | `CallsDistinct`, `OwnReply`, `SomeoneReads`, `EveryCallReturns` |
| `server` | 2 connections, each of the three servers, limits 1 and 2, pool of 1 with a queue of 1, all faults | `ClientCountExact`, `LimitRespected`, `NoThreadForgotten`, `ServePostcondition`, `StopEndsServe` |
| `nonblocking` | 2 clients, 2 IO threads, 1 worker; inline processing, a pool with a queue of 1, both overload actions; all faults | `OneHolder`, `CountersExact`, `OwnReply`, `RequestAnswered`, `StopEndsServe` |
| `file` | chunks of 15 bytes, events of 1 and 4, buffers of 1 event, a read buffer of 5; 3 writes, a flush, a restart, a kill or a failing system call | `ReaderFollows`, `FlushedIsDurable`, `CallsReturn`, `EventsWritten` |
| `transports` | both classes, buffers of 2 bytes, writes of 1 to 3, reads of 1 and 3, 5 bytes in all; messages over 3 and frames over 4 bytes are refused | `ImplementsStream`: the refinement of `ByteStream`; `BudgetBindsFrame`, `FailuresJustified`, `FlushedArrives` |
| `compact` | 2 messages, 2 fields of 8 kinds, nested; a buffer that grows from 2 to 60 bytes, of which a message may have 40 | `RoundTrip`, `OnlyLimitsRefuse`, `MessageLeavesNothing` |
| `tm_sweep`, `file_partial`, `framed_reclaim` | | violations, see section 7 |

**Why these bounds.** A lost wakeup needs two sleepers, one signalled and not yet
running, and an event that comes between; two workers, two callers and three
tasks with a queue of one or two contain this. With three concurrent calls one
thread reads for a second while a third fails. Two connections and two addresses
suffice for an address to be reused while a dead thread is still in the map. Two
objects, two IO threads and one worker let an object return to the stack and
serve another client while the first request is with the pool. With its size an
event takes five or eight bytes; a chunk of fifteen holds three small ones exactly,
a small and a large one leave less than a size field, and two large ones do not
fit, so every case of the padding occurs, and the read buffer of five ends inside
sizes, events and padding. Five
bytes over buffers of two fill them exactly, overflow them by one and
reach twice their size, and make frames that are within, at and over the limits;
a `TFramedTransport` created with two bytes has a write buffer of four, too small for
`flush()` until something is written.
The field ids of `compact` follow, equal and precede each other and lie fifteen
and sixteen apart; its integers fill all the bytes of a varint; its lists have
fourteen-or-less and fifteen elements, which are written differently; the strings
and buffers reach their limits. What the bounds exclude is said in section 8.

**Deadlock.** The runs turn TLC's deadlock check off where the system may stop:
all tasks are used up, all calls made, or the server has returned. That nothing
stops too early is what the liveness properties state. The timer runs keep it on.

**Fairness.** Threads that can run do, and a thread that waits for a mutex gets
it although others take it in between: strong fairness for each thread, since
the mutex is free again and again. Tasks, callbacks and processor calls are
assumed to return and, for `EveryCallReturns`, the server to answer or close.
No fairness is assumed for calls of the interface, failures, expiry, spurious
wakeups, clients that connect or leave, or `stop`. In `TimerManager` the clock
advances. `NonblockingServer` has finitely many clients and requests, so its
behaviours without stuttering are finite; there, weak fairness of the server as a
whole says the same as fairness to each thread and is far cheaper to check. In
`FileTransport` the writer thread runs and its timed wait ends; the main thread
gets the mutex although the idle writer thread takes it again and again (strong
fairness). In `BufferTransports` the reader goes on reading. `CompactProtocol` is
sequential code without a promise of progress, and states none.

**Conditions on liveness.** In `tm_live`, adds block for ever and nothing is
removed: `remove()` makes room without waking anybody, and a timed add may time
out after it was notified, in which case its notification is lost. These are
listed as hazards. `PendingTaskIsTaken`, and `CallsReturn` for a blocked add, hold
as long as there are workers. `StopDrainsQueue` states what the worker loop does
(`isActive()`, line 222): `stop()` has the queue run to its end. The comment at
`ThreadManager.h:72` promises the opposite, that it "Aborts all remaining
unprocessed task"; the property sides with the code. `CountersExact`, `NoSleepWhileWork`, `CallsReturn`
and `StopLeavesNoWorker` are for one managing thread at a time; with two, a worker
that finds the limit lowered before it started leaves the pool without having
entered it, and the count goes wrong (line 334).

**Conditions and exceptions.** Some properties name a case in which the code does
not do what they say otherwise; each is reached in the run of the property.

- `TasksAccounted`, `CountersExact` and `ImplementsPool` of the thread manager are
  for programs that keep other threads away during `removeExpiredTasks()`
  (`SweepsAlone`). Without that, `tm_sweep` shows a task that is lost.
- `CallsReturn` of the timer manager excepts a manager whose dispatcher thread could
  not be started: `state_` stays STARTING and everybody waits for it.
- `EveryCallReturns` of the concurrent client excepts the calls that a message of
  the wrong type has misled.
- `OneHolder` and `CountersExact` of the non-blocking server except what a failed
  notification of `forceClose()` inside `add()` leaves behind: the task of a closed connection
  at the head of the queue, and one processor too many. `RequestAnswered` and
  `StopEndsServe` promise nothing after any such failure, and `RequestAnswered` nothing
  to the client of a two-way call whose processor threw in the pool.
- `ReaderFollows` excepts a log in which an event crosses a chunk boundary, and states
  that only a writer thread that reopened the file after an error writes one.
  `FlushedIsDurable` promises no sync when `fsync` failed, whose result the code
  ignores, or when the destructor ends a writer thread with an error. `CallsReturn`
  of the file transport excepts a `flush()` that finds both buffers empty while an I/O error is
  pending: the thread clears the error only for a further event (lines 371-395), and
  until then starts its loop again before it looks at `forceFlush_` (line 454).
- `OnlyLimitsRefuse` excepts a buffer with more in it than a message may have.

## 6. Proofs

The proofs hold for every value of the constants that satisfies the assumption
`ConstantsAssumption` of the module concerned. It asks for finite sets of
threads, tasks, timers and connections, for the constants' types, and that the markers for
"nothing" are not things; `ThreadManager` also needs fewer threads than the
largest `size_t`, and that no worker is a caller. TLC evaluates the assumption in
every run.

**ThreadManagerProofs.** A step is first classified by what it does to the tasks
(`EveryStepHasAShape`): workers move, a worker takes or finishes a task, a task is
erased from some position of the queue, an `add()` succeeds, blocks or resumes, a
sweep moves on, time passes. Every later lemma is about these few shapes.

- `TasksStayAccounted`: with `SweepsAlone`, `Spec => []TasksAccounted`. `AloneInv` says
  that nobody is at the queue during a sweep, so that its iterator points to the task
  it has looked at. The invariant `TaskInv` says
  besides which task every blocked caller and every busy worker holds and what
  its fate is (`Held`): without it a task on its way into or out of the queue
  would be nowhere. `EraseAccounts`, `AppendAccounts` and `OtherFates` say what
  erasing, appending and a change elsewhere do to a queue without duplicates.
- `QueueStaysBounded`: `Spec => []QueueBounded`. Dropping an expired task only
  shortens the queue, and a resumed `add()` appends only below the limit.
- `TasksRunOnce`: `Spec => TaskRunsOnce`, an action property, from `TaskInv`: a
  worker takes only pending tasks, and `OneFate` shows that no step changes a
  fate that is final.
- `ManagerImplementsPool`: with `SweepsAlone`, `Spec => ImplementsPool`. The refinement needs that a
  blocked caller's task is not in the queue, that the task of a busy worker is
  executing, that a full queue is at its limit and not above, and that a sweep
  only drops tasks whose time was over when it looked (`SweepsLate`). Then each
  step is a step of `TaskPool` or leaves its four variables alone.

**ThreadManagerWorkerProofs**, about the workers. `TypeCorrect`: `Spec => []TypeOK`.
`TypeOK` says that `idleCount_` is a natural number; the decrement in
`WorkerWakeup` keeps it so only because it counts the workers in `monitor_.wait()`.
The inductive invariant `TypeInv` therefore adds `IdleCountExact`. `WorkerNext`
shows that `WorkerInv` is inductive too: only the owner of the mutex decides to
leave, `workerCount_` is the number of workers in the pool, a worker that leaves
is surplus, there is a place for every one that starts, and while no
`addWorker`, `removeWorker` or `stop` is in progress the count equals the limit.

`WorkerInv` has a condition, `InTurn`: the limit `workerMaxCount_` is changed only
while no other such call waits for the workers to follow an earlier change. The
code does not enforce it. When `removeWorker` lowers the limit while `addWorker`
still waits for its workers to start, a worker finds no place for it and takes
one off a count that never included it.

The theorems about a running and a stopping pool follow:

- `WorkersAreWoken`: `Spec /\ InTurn => []NoSleepWhileWork`. The number of workers
  that are awake between two tasks covers the pending tasks and the surplus
  workers, or nobody sleeps. `AlertMore` and its companions follow the two
  numbers through each kind of step: an `add()` notifies when someone is idle, a
  worker that dequeues takes one task and is no longer needed for it, and
  `removeWorkersUnderLock` wakes as many as have to leave.
- `CountsAreExact`: with an expire callback and `SweepsAlone`, `Spec /\ InTurn => []CountersExact`.
  `ExpiredExact` counts the workers that run the callback at the moment. Without
  a callback the worker loop drops an expired task and does not count it, so the
  theorem assumes one, as the runs do.
- `OneManagerTakesTurns`: if one thread manages the pool, `Spec => InTurn`: each
  of these calls returns before the next one begins. The two results above then
  hold without a condition.
- `StopIsComplete`: if one thread manages the pool, `Spec => StopLeavesNoWorker`.
  `stop()` returns when limit and count are 0 (`StopInv`); then no worker is in
  the pool or on its way into it (`NobodyLeft`), and the last ones have been
  joined.

**TimerManagerProofs.** One inductive invariant, `TimerInv`, for four theorems
(`TimerTypeCorrect`, `CountIsExact`, `DispatcherWakesInTime`, `StopIsFinal`). Its
core is `Control`: which states of the manager the dispatcher may meet at each
place of its loop, and a thread inside `stop()` at each of its own. From it
follows that while the manager is STARTED only the dispatcher can sleep on the
monitor (`OnlyDispatcherSleeps`), so that the single `notify()` of `add()` reaches it; hence a timer added
during a sleep is either later than the one the dispatcher waits for or wakes it.
`TimeoutBound` is the arithmetic of the cut to whole milliseconds, for any
resolution of the clock.

**ConcurrentClientProofs**, for any number of threads and calls.
`StreamInv` says that the holder of `readMutex_` is the only thread inside the
loop of `recv_`, and that a header whose body is unread is either with that thread,
or pending, or the client is stopped.

- `HeadersInStep`: a header is read only between two messages, up to where a message
  of the wrong type misleads its reader, from `StreamInv` alone. It holds although a failing send runs `markBad_` without `readMutex_`.
- `RepliesAreOwn`: `Spec /\ NoReuse => []OwnReply`. Added are `IdsOwned` (a thread
  has an id of its own, in the map, from send to the end of recv) and
  `MessagesOwned` (a message with the id of a call belongs to that call).

`NoReuse` says that when `generateSeqId` hands out an id, no call and no message
carries it. The code itself only compares the id with the smallest one in the map,
so the condition has to come from the use of the client: it holds as long as no
call and no late reply outlives 2^32 further calls. The `cc_calls` instance
satisfies it.

Two more theorems, under `NoReuse` as well and for any number of cached monitors,
are about the monitors.

- `CallsAreDistinct`: `Spec /\ NoReuse => []CallsDistinct`, with `IdsOwned` and
  `MonitorsApart`: the monitors in the map and in the cache are all different. A
  new one differs from them because the monitors in use are always finitely many
  (`FreshExists`).
- `SomeCallIsAwake`: `Spec /\ NoReuse => []SomeoneReads`. The property is far from
  inductive; what carries it is how the role of the reader is handed on.
  `HandedOn`: once threads wait there is a reader, a pending header or
  `wakeupSomeone_`. `Awake`: the call a header is pending for does not sleep, and a
  thread goes to sleep only while there is such a call. `OwnersKnown`: until the
  client is stopped every id in the map and the pending one belong to a call.
  `Sleepers` and `Sent` say that a thread sleeps on the monitor of its own id and
  that only written requests are answered.

Most steps of the client touch no id, monitor or message. `Calm` and `Outside`
say what such a step leaves alone, and the proofs treat all of them as one case
(`CalmOrNot`, `OutsideOrNot`).

**ServerFrameworkProofs**, for any number of connections and addresses, any limits
and all three servers. All theorems rest on `RefInv`: where `serve()` and
the thread of a client may be, who then holds a reference to the client object,
and that only one thread at a time disposes of it.

- `ClientsAreCounted`: `Spec => []ClientCountExact`, inductive with `RefInv`. The
  set of counted clients gains one element in `newlyConnectedClient` and loses one
  at the end of `disposeConnectedClient`; every other step leaves it alone.
- `LimitIsKept`: `Spec => []LimitRespected`. `LimitInv` adds that from the check of
  the limit to the count of the accepted client there is room under the largest
  limit so far, which holds because nobody else counts clients up.
- `ThreadsAreKept`: `Spec => []NoThreadForgotten`. `std::map::insert` keeps an old
  entry, so a thread is lost if its key is taken. `AddressInv` says that the map of
  active threads holds only clients that still own their address; hence the
  address of a new client is free (`FreeAddress`). The map of dead threads is
  empty whenever a thread enters it, because it is drained under the same mutex.
- `ServeLeavesNothing`: `Spec => []ServePostcondition`. `ThreadInv` says where
  `TThreadedServer` keeps a thread at each stage of its client, and that only
  clients somebody still has to delete own an address; `EndInv` says what has
  been emptied or joined at each point behind the loop of `serve()`.

**NonblockingServerProofs** and **NonblockingServerCountProofs**, for any number of
clients, IO threads and workers, any limits and every combination of the modelled
failures. None of the three properties is inductive, and none can be proved
without the others: whether a close is counted once depends on who else may close
the connection, and whether a result goes to its own client on who may have
rewritten the object. They are proved from one invariant, `WholeInv` (theorem
`ServerInvariant`): `ServerInv`, until a `forceClose()` inside `add()` throws, and
`DamagedInv` after that. The parts of `ServerInv`:

- `Placed`: libevent's registrations, the handlers, the task queue, the workers
  and the pipes *share out* the active connections: they cover them, are disjoint,
  and no connection is twice in one of them. This is `OneHolder` in a form that a
  step changes in two places at most.
- `Flow`: what holds of a connection in each place. `Stages`: a connection with an
  event is not with the pool, one in the queue, with a worker or in a handler that
  closes it is. `Owned`: it has an IO thread and a client. `Inline`: a thread that
  calls the processor itself still has the event of that connection. `Labels`: only
  thread 0 accepts, a handler that expires a task holds the pool's mutex and finds
  a task, and the client being accepted has no object yet. `TaskResults` and
  `Outputs`: a task is for the client of its connection, and the output buffer is
  empty or that client's until it is sent.
- `Stock`: an object is active, on the stack or lost, once, `numTConnections_` is
  the number of them, and there are no more than clients that were ever accepted,
  so that a new object can always be allocated.
- `Processors`: `numActiveProcessors_` is the number of connections with the pool
  and of processors called inline. Hence it is positive whenever
  `decrementActiveProcessors()` is called, and stopping at zero hides nothing.

`DamagedInv` keeps the types, the stock and the outputs. `Placed` then holds of the active
connections together with the closed one whose task is still at the head of the
queue, and when the exception has been caught `numActiveProcessors_` is one too high.

For each action one lemma shows `Placed' /\ Flow' /\ Counted`, where `Counted` says
that the counter and the sets behind it move together; the actions that end a
connection share `Closes` and its companions. The second module shows that the
types are kept and that a step leaves the stock alone or closes one active
connection (`Settles`); creating a connection, which takes an object from the stack
or allocates one, is a case of its own (`FreeObject`, `StockCreate`). What the proof
needs about sizes of finite sets is collected in `SetSizes` and derived from the
library in one place. Before it was proved, TLC checked each part of `ServerInv` on
the instance of the run `nonblocking`.

- `ObjectsHaveOneHolder`: `Spec => []OneHolder`, from `Placed`.
- `ServerCountersExact`: `Spec => []CountersExact`, from `Stock` and `Processors`.
- `ResultsAreOwn`: `Spec => []OwnReply`, from `Outputs`.

The assumption that there are at least as many objects as clients says that
allocating a connection object does not fail.

**WireProofs, `FrameBudgetHolds`:** `Spec => []BudgetBindsFrame`, for
all sizes of buffers, frames, messages and thresholds. The inductive invariant
`BudgetInv` adds that a budget bound to a frame stays at least as large as what is
buffered of it while more arrives, and the types of the buffers. Small lemmas say
what dropping, taking and appending do to a sequence of bytes; there is one lemma
per operation of the reader, and one that no step of the writer touches the
reader.

**WireProofs, `TransportsImplementStream`:** `Spec => ImplementsStream`, the
refinement of `ByteStream`, for all sizes of buffers, frames, messages, reads and
writes. The inductive invariant `StreamInv` consists of `BudgetInv` and

- `WriterInv`: what is in the write buffer is the end of what was written, and none
  of it was flushed;
- `ReaderInv`: what was read and what is buffered are the bytes that were written,
  and the read buffer of a `TFramedTransport` ends where the writer flushed;
- `WireInv`: what is on its way goes on where the reader is. For a
  `TFramedTransport` this says that the bytes in the connection, behind the part of
  a frame the reader already has, are a sequence of frames (`Framed`), each with
  its size in front and ending at a flush; the last may be torn once the writer
  has failed. `FirstFrame` and its companions say how such a sequence loses its first
  frame, gets another at its end, or is cut short.

Each step of the transports is then a step of `ByteStream` or changes nothing of it
(`StreamStep`). TLC checked `StreamInv` on the instance of the run `transports`
before it was proved. The theorem assumes `WholeMessages`: `readEnd()` is called inside of a
frame only if the reclaim threshold has its default, which no frame exceeds (the
run `framed_reclaim` shows what happens otherwise), and all that is written stays
below 2 GB, where sizes no longer fit an `int32_t`.

**WireProofs, `TransportFailuresJustified`:** `Spec => []FailuresJustified`. `FailInv`
adds that the reader is always between two flushes and that a
`TFramedTransport` without a frame has its whole budget; so a frame that was refused is one that
was sent too large (`FrameWasSent`, `RefusedForSize`). That a write fails only for
the connection needs the buffer of `writeSlow` to be large enough after its
loop, which is a recursive function in the model: `DoubledFits`, by induction.
The theorem assumes `WholeMessages` and `ReadsFit`: no single read asks for more than a
message may hold. Such a read is refused by `checkReadBytesAvailable` before any frame has arrived.

**WireProofs, conversions:** `ZigzagInverse` (integers of every width come back from
their zigzag form, which fits the same number of bits), `FieldHeaderInverse`
(type and id come back from the header of a field, for every pair of ids, whether
it was written with a delta or not), `VarintInverse` (whatever follows a varint in the
buffer, `readVarint64` takes the bytes `writeVarint64` made, never more than its limit, and
finds their number) and `IntegersComeBack` (integers of 16, 32 and 64 bits, sizes and
sequence ids survive zigzag, varint and casts together). These are about the operators that
`CompactProtocol` is made of, with the widths as constants of any size; the run `compact`
takes small ones, for TLC's integers. The varints and the powers of two are
recursive functions. `RecursionExists` proves once that such definitions have a value;
what they compute is proved with the least number for which it would fail
(`LeastElement`, from the library's theorem that numbers are well-founded), because the
library's induction theorems themselves take an operator that the provers cannot fill in.

Only model-checked:

- Everything about `FileTransport`: `ReaderFollows`, for one, compares the bytes
  delivered with the whole log, and rests on what `EventFile` computes by folds and recursion over whole files, with
  the bytes of sizes given by `256^i`, which the provers do not interpret.
- The calls of `CompactProtocol` (`RoundTrip`, `OnlyLimitsRefuse`,
  `MessageLeavesNothing`): the conversions are proved, but that a reader follows the
  writer needs the history of every call with the field ids and the grammar at that
  time, the folds that write a call in pieces, and `2^k` for the size of the
  buffer.
- All liveness properties, which are out of the prover's reach.

## 7. Disagreements between code and documentation

Each is a run in which TLC finds a behaviour of the code that contradicts a
comment or a document of the repository. `PROJECT.json` quotes the lines.

| Run | Property violated | What happens |
|---|---|---|
| `tm_sweep` | `SweepsTakeExpired` | `removeExpiredTasks()` walks the queue without the mutex, against the comment at `ThreadManager.cpp:528`. A worker takes an expired task between the callback and the erase, and the erase takes away another one, which has not expired and is never run. |
| `file_partial` | `PartialEventsDiscarded` | After a power loss in the middle of an event the writer thread truncates the file at its end, not behind the last whole event, and appends to the partial one. |
| `framed_reclaim` | `ImplementsStream` | `readEnd()` of a `TFramedTransport` with a reclaim threshold drops a large buffer although another message of the frame is in it. |

Others were met while modelling and are left out of the passing runs by their
constants, or accounted for by a property; the hazards in `PROJECT.json` name the
lines:

- With a second thread that calls `stop()` during `addWorker()`, the manager is
  STOPPED with workers alive: `stop()` subtracts the current worker count from the
  limit. A thread blocked in `add()` does not look at the state again after its
  wait and queues its task into a stopped manager.
- `stop()` runs the tasks that are pending, which `ThreadManager.h:72` says it aborts;
  `StopDrainsQueue` states the code's side.
- After a failed write the log file is opened again with an `offset_` that is that of a read
  buffer instead of the end of the file: the padding is computed from it, and an
  event crosses a chunk boundary, which the comment in `writerThread` rules out.
  `ReaderFollows` names this as its exception.
- A `flush()` of the file transport after an I/O error on the last event does not return.
- A worker of the non-blocking server swallows an exception of the processor, and the
  caller of a two-way call waits on an open connection.
- `recv_` of the concurrent client goes on reading behind a message of the wrong type.
- A `write()` of a `TBufferedTransport` that fails keeps a buffer that was sent in part.
- `generateSeqId()` compares with the smallest outstanding id only; another call
  that outlives a whole round of ids has its id handed out again.
- A thread already waiting for `writeMutex_` when a send fails writes its message
  behind the torn one.
- `remove(task)` of the timer manager returns although a timer of the same task
  has been taken out of the map and is still going to run.
- When the set-up of a connection object of the non-blocking server throws, the
  object stays counted and is never used or freed; `CountersExact` counts such
  objects apart, in `lost`.

## 8. What is not modelled

Inside the modelled parts:

- `ThreadManager`: failing thread creation in `addWorker`; changes of the queue
  limit, thread factory or expire callback at run time (they are constants).
- `TimerManager`: a task that calls `stop()` (it would wait for itself) or throws.
- `ConcurrentClient`: writes that block on a full connection; what a thread does that
  took another's message for its own.
- `ServerFramework`: `stop()` before the server listens; exceptions other than
  transport exceptions; an `IllegalStateException` from a pool stopped by others;
  event handlers; binding and the retries inside `accept`.
- `NonblockingServer`: partial reads and writes and buffer sizes; a user's event
  base; `stop()` on an IO thread itself; what follows when a task points to an object
  that was returned, or an exception ends the process; pipes smaller than the number of connections. `drainPendingTask`
  on a bounded queue makes room without waking an IO thread that sleeps in
  `addTask`: with three clients and a queue of one TLC finds it asleep for ever.
  That instance takes several minutes and is not among the runs, which drain an
  unbounded queue.
- `FileTransport`: `resetOutputFile`; seeks asked for by the user; a `write` of the
  operating system that takes a part of the bytes; `TFileProcessor`.
- `BufferTransports`: what a program sends after a `write()` of a `TBufferedTransport`
  has thrown (the buffer goes out again); frame sizes that no `TFramedTransport` sends;
  the 2 GB limit; setters.
- `MemoryBuffer`: observed and adopted memory, `getWritePtr`/`wroteBytes`, sizes
  near 2^32.
- `CompactProtocol`: a program that goes on with an object after an exception;
  transports other than `TMemoryBuffer`; the conversion of doubles to bytes.

Parts without a module, with the reasons, are in the `components` of
`PROJECT.json`: plain I/O (TLS, HTTP, pipes, sockets' options), text formats,
stateless dispatch, the compiler and the libraries of the other languages.

## 9. Plan

Done: the worker pool with its abstract specification, the timer manager, the
concurrent client, the blocking servers, the non-blocking server, the file
transport, the buffered, framed and memory transports and the compact protocol.
In the order in which it is worth doing:

1. `Thread`/`ThreadFactory`: the start handshake, and with it failing thread
   creation in the pool.
2. `ServerFramework` and `NonblockingServer` over `TaskPool`.
3. `TSocketPool` (retry intervals, servers marked down); the interrupt and retry
   logic of `TSocket::read`; the growth of the non-blocking server's read buffer.
4. `THeaderTransport`: the kinds of clients it detects, over `MessageBudget`.
5. Proofs: `RoundTrip`, on top of the conversions that are proved, and what
   `EventFile` computes.
6. The failures that section 8 lists as missing inside the modelled parts.
