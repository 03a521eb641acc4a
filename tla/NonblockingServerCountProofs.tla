------------------- MODULE NonblockingServerCountProofs -------------------
(***************************************************************************)
(* The second half of the proofs about TNonblockingServer: its steps keep  *)
(* the types of its state and the number of its objects, and so the        *)
(* invariant of NonblockingServerProofs holds throughout.                  *)
(***************************************************************************)
EXTENDS NonblockingServerProofs

-----------------------------------------------------------------------------
(* Types, and what happens to the stock of objects.                        *)

Stocked ==
    /\ Known \subseteq Known'
    /\ UNCHANGED poolVars \/ \E o \in activeConnections_ : Close(o)

ConnTypes ==
    /\ tc \in [Objects -> Connection] /\ activeConnections_ \subseteq Objects
    /\ lost \subseteq Objects /\ connectionStack_ \in Seq(Objects) /\ DOMAIN peer = Conns
ThreadTypes ==
    /\ io \in [IOThreads -> IOLabels] /\ hand \in [IOThreads -> Objects \cup {None}]
    /\ worker \in [Workers -> {"idle", "run", "notify"}]
    /\ job \in [Workers -> Tasks \cup {None}]
QueueTypes ==
    /\ pendingTaskCountMax_ \in Nat /\ nextIOThread_ \in IOThreads
    /\ pipe \in [IOThreads -> Seq(Objects \cup {None})] /\ tasks_ \in Seq(Tasks)

LEMMA TypesParts == Types <=> ConnTypes /\ ThreadTypes /\ QueueTypes
  BY Zenon DEF Types, ConnTypes, ThreadTypes, QueueTypes

LEMMA TypesPartsNext == Types' <=> ConnTypes' /\ ThreadTypes' /\ QueueTypes'
  BY Zenon DEF Types, ConnTypes, ThreadTypes, QueueTypes

LEMMA SameTypes ==
  ASSUME Types
  PROVE  /\ UNCHANGED <<tc, poolVars, peer>> => ConnTypes'
         /\ UNCHANGED <<ioVars, workerVars>> => ThreadTypes'
         /\ UNCHANGED <<configVars, nextIOThread_, pipe, tasks_>> => QueueTypes'
  BY TypesParts, Zenon DEF ConnTypes, ThreadTypes, QueueTypes, poolVars, ioVars, workerVars,
                           configVars

LEMMA GotoTypes ==
  ASSUME Types, NEW i \in IOThreads, NEW l \in IOLabels, IOGoto(i, l), UNCHANGED workerVars,
         hand' = hand \/ \E o \in Objects : hand' = [hand EXCEPT ![i] = o]
  PROVE  ThreadTypes'
  BY Zenon DEF Types, ThreadTypes, IOGoto, workerVars

LEMMA CloseTypes ==
  ASSUME Types, Owned, NEW o \in activeConnections_, Close(o)
  PROVE  ConnTypes' /\ Stocked
<1>1. o \in Objects /\ tc[o].tSocket_ \in Known
  BY Zenon DEF Types, Owned
<1>2. /\ tc' \in [Objects -> Connection] /\ activeConnections_' = activeConnections_ \ {o}
      /\ connectionStack_' \in Seq(Objects) /\ lost' = lost
      /\ DOMAIN peer' = Conns /\ Known' = Known
  BY <1>1, CloseEffect, Zenon
<1> QED
  BY <1>2, Zenon DEF ConnTypes, Stocked, Types

LEMMA RewriteTypes ==
  ASSUME Types, NEW o \in Objects, NEW r \in Connection, tc' = [tc EXCEPT ![o] = r],
         UNCHANGED poolVars,
         peer' = peer \/ (\E c \in Conns : Served(c))
           \/ (\E c \in Conns, v \in {"hungup", "waiting"} : peer' = [peer EXCEPT ![c] = v])
  PROVE  ConnTypes' /\ Stocked
<1>1. tc' \in [Objects -> Connection]
  BY Touch, Zenon
<1>2. DOMAIN peer' = Conns /\ Known \subseteq Known'
  <2>1. CASE peer' = peer
    BY <2>1, SamePeer, Zenon DEF Types
  <2>2. CASE \E c \in Conns : Served(c)
    BY <2>2, ServedPeer, Zenon
  <2>3. CASE \E c \in Conns, v \in {"hungup", "waiting"} : peer' = [peer EXCEPT ![c] = v]
    <3> PICK c \in Conns, v \in {"hungup", "waiting"} : peer' = [peer EXCEPT ![c] = v]
      BY <2>3, Zenon
    <3>1. v \notin {"away", "backlog"}
      OBVIOUS
    <3> QED
      BY <3>1, PeerSet, Zenon
  <2> QED
    BY <2>1, <2>2, <2>3
<1>3. activeConnections_' = activeConnections_ /\ lost' = lost /\ connectionStack_' = connectionStack_
  BY Zenon DEF poolVars
<1> QED
  BY <1>1, <1>2, <1>3, Zenon DEF ConnTypes, Stocked, Types

LEMMA LabelTypes ==
  /\ "loop" \in IOLabels /\ "process" \in IOLabels /\ "add" \in IOLabels
  /\ "blocked" \in IOLabels /\ "woken" \in IOLabels /\ "expire" \in IOLabels
  /\ "drain" \in IOLabels /\ "drained" \in IOLabels /\ "create" \in IOLabels
  /\ "fresh" \in IOLabels /\ "done" \in IOLabels
  /\ "unwind" \in IOLabels /\ "stuck" \in IOLabels
  BY Zenon DEF IOLabels, Holding

LEMMA EventClosesTypes ==
  ASSUME Types, Placed, Flow, NEW i \in IOThreads, NEW o \in Objects,
         SeesDisconnect(i, o) \/ RefusesFrame(i, o)
  PROVE  Types' /\ Stocked
<1>1. /\ tc[o].eventFlags_ # "none" /\ Close(o)
      /\ UNCHANGED <<configVars, nextIOThread_, pipe, tasks_, ioVars, workerVars>>
  BY Zenon DEF SeesDisconnect, RefusesFrame, taskVars, acceptVars
<1>2. o \in activeConnections_
  BY <1>1, Places, Zenon DEF Evented
<1>3. ConnTypes' /\ Stocked
  BY <1>1, <1>2, CloseTypes, Zenon DEF Flow
<1>4. ThreadTypes' /\ QueueTypes'
  BY <1>1, SameTypes, Zenon
<1> QED
  BY <1>3, <1>4, TypesPartsNext, Zenon

LEMMA HandlerClosesTypes ==
  ASSUME Types, Placed, Flow, NEW i \in IOThreads,
         ProcessThrows(i) \/ AddRefused(i) \/ (i = 0 /\ FreshNotifyFails)
  PROVE  Types' /\ Stocked
<1>1. /\ io[i] = "process" \/ io[i] \in Holding
      /\ Close(hand[i]) /\ IOGoto(i, "loop") /\ hand' = hand
      /\ UNCHANGED <<configVars, nextIOThread_, pipe, tasks_, workerVars>>
  BY Zenon DEF ProcessThrows, AddRefused, FreshNotifyFails, Holding, taskVars, acceptVars
<1>2. hand[i] \in activeConnections_
  BY <1>1, Places, Zenon DEF Flow, Inline
<1>3. ConnTypes' /\ Stocked
  BY <1>1, <1>2, CloseTypes, Zenon DEF Flow
<1>4. ThreadTypes' /\ QueueTypes'
  BY <1>1, SameTypes, GotoTypes, LabelTypes, Zenon
<1> QED
  BY <1>3, <1>4, TypesPartsNext, Zenon

LEMMA WorkerClosesTypes ==
  ASSUME Types, Placed, Flow, NEW w \in Workers, WorkerNotifyFails(w)
  PROVE  Types' /\ Stocked
<1>1. /\ worker[w] # "idle" /\ Close(job[w].connection)
      /\ worker' = [worker EXCEPT ![w] = "idle"] /\ job' = [job EXCEPT ![w] = None]
      /\ UNCHANGED <<configVars, nextIOThread_, pipe, tasks_, ioVars>>
  BY Zenon DEF WorkerNotifyFails, taskVars, acceptVars
<1>2. job[w].connection \in activeConnections_
  BY <1>1, Places, Zenon
<1>3. ConnTypes' /\ Stocked
  BY <1>1, <1>2, CloseTypes, Zenon DEF Flow
<1>4. QueueTypes'
  BY <1>1, SameTypes, Zenon
<1>5. ThreadTypes'
  BY <1>1, Zenon DEF Types, ThreadTypes, ioVars
<1> QED
  BY <1>3, <1>4, <1>5, TypesPartsNext, Zenon

LEMMA PipeTypes ==
  ASSUME Types, Placed, Flow, NEW i \in IOThreads,
         ReceiveClose(i) \/ ReceiveFresh(i) \/ ReceiveResult(i)
  PROVE  Types' /\ Stocked
<1>0. PICK o : o = Next1(i)
  OBVIOUS
<1>1. /\ pipe[i] # <<>> /\ o # None /\ Pop(i)
      /\ UNCHANGED <<configVars, nextIOThread_, tasks_, ioVars, workerVars>>
  BY <1>0, Zenon DEF ReceiveClose, ReceiveFresh, ReceiveResult, Got, taskVars, acceptVars
<1>2. o \in Piped /\ pipe' \in [IOThreads -> Seq(Objects \cup {None})]
  BY <1>0, <1>1, PipePop, Zenon DEF Placed
<1>3. o \in activeConnections_ /\ o \in Objects /\ tc[o].tSocket_ \in Conns /\ tc[o] \in Connection
  BY <1>2, Places, Zenon DEF Types, Flow, Owned, Known
<1>4. ConnTypes' /\ Stocked
  <2>1. CASE ReceiveClose(i)
    BY <1>0, <1>3, <2>1, CloseTypes, Zenon DEF Flow, ReceiveClose
  <2>2. CASE ReceiveFresh(i) \/ ReceiveResult(i)
    <3>1. UNCHANGED poolVars /\ (peer' = peer \/ \E c \in Conns : Served(c))
      BY <1>0, <1>3, <2>2, Zenon DEF ReceiveFresh, ReceiveResult, clientVars
    <3>2. \/ tc' = [tc EXCEPT ![o] = Reading(tc[o])]
          \/ tc' = [tc EXCEPT ![o] = Answering(tc[o])]
      BY <1>0, <2>2, Zenon DEF ReceiveFresh, ReceiveResult
    <3>3. Reading(tc[o]) \in Connection /\ Answering(tc[o]) \in Connection
      BY <1>3, ReadingFields, AnsweringFields, Zenon
    <3> QED
      BY <1>3, <3>1, <3>2, <3>3, RewriteTypes, Zenon
  <2> QED
    BY <2>1, <2>2
<1>5. ThreadTypes'
  BY <1>1, SameTypes, Zenon
<1>6. QueueTypes'
  BY <1>1, <1>2, Zenon DEF QueueTypes, Types, configVars
<1> QED
  BY <1>4, <1>5, <1>6, TypesPartsNext, Zenon

LEMMA EventTypes ==
  ASSUME Types, Placed, Flow, NEW i \in IOThreads, NEW o \in Objects,
         ReadFrameSize(i, o) \/ SendResult(i, o) \/ ReadRequest(i, o)
  PROVE  Types' /\ Stocked
<1>1. /\ tc[o].eventFlags_ # "none"
      /\ UNCHANGED <<configVars, poolVars, nextIOThread_, pipe, tasks_, workerVars>>
  BY Zenon DEF ReadFrameSize, SendResult, ReadRequest, taskVars, acceptVars
<1>2. o \in activeConnections_ /\ tc[o].tSocket_ \in Conns /\ tc[o] \in Connection
  BY <1>1, Places, Zenon DEF Evented, Types, Flow, Owned, Known
<1>3. QueueTypes'
  BY <1>1, SameTypes, Zenon
<1>4. CASE ReadFrameSize(i, o) \/ SendResult(i, o)
  <2>1. UNCHANGED ioVars /\ (peer' = peer \/ \E c \in Conns : Served(c))
    BY <1>2, <1>4, Zenon DEF ReadFrameSize, SendResult, clientVars
  <2>2. tc' = [tc EXCEPT ![o] = Framed(tc[o])] \/ tc' = [tc EXCEPT ![o] = Reading(tc[o])]
    BY <1>4, Zenon DEF ReadFrameSize, SendResult
  <2>3. Framed(tc[o]) \in Connection /\ Reading(tc[o]) \in Connection
    BY <1>2, FramedFields, ReadingFields, Zenon
  <2>4. ConnTypes' /\ Stocked
    BY <1>1, <2>1, <2>2, <2>3, RewriteTypes, Zenon
  <2>5. ThreadTypes'
    BY <1>1, <2>1, SameTypes, Zenon
  <2> QED
    BY <1>3, <2>4, <2>5, TypesPartsNext, Zenon
<1>5. CASE ReadRequest(i, o)
  <2>1. \E c \in Conns, v \in {"hungup", "waiting"} : peer' = [peer EXCEPT ![c] = v]
    BY <1>2, <1>5, Zenon DEF ReadRequest
  <2>2. \/ tc' = [tc EXCEPT ![o] = Waiting(Emptied(tc[o]))] /\ IOGoto(i, "add")
        \/ tc' = [tc EXCEPT ![o] = Emptied(tc[o])] /\ IOGoto(i, "process")
    BY <1>5, Zenon DEF ReadRequest
  <2>3. Emptied(tc[o]) \in Connection /\ Waiting(Emptied(tc[o])) \in Connection
    BY <1>2, EmptiedFields, WaitingFields, Zenon
  <2>4. ConnTypes' /\ Stocked
    BY <1>1, <2>1, <2>2, <2>3, RewriteTypes, Zenon
  <2>5. ThreadTypes'
    <3>1. \E p \in Objects : hand' = [hand EXCEPT ![i] = p]
      BY <1>5, Zenon DEF ReadRequest
    <3> QED
      BY <1>1, <2>2, <3>1, GotoTypes, LabelTypes, Zenon
  <2> QED
    BY <1>3, <2>4, <2>5, TypesPartsNext, Zenon
<1> QED
  BY <1>4, <1>5

LEMMA ProcessTypes ==
  ASSUME Types, Placed, Flow, NEW i \in IOThreads, Process(i)
  PROVE  Types' /\ Stocked
<1>0. PICK o : o = hand[i]
  OBVIOUS
<1>1. /\ io[i] = "process" /\ IOGoto(i, "loop") /\ hand' = hand
      /\ UNCHANGED <<configVars, poolVars, nextIOThread_, pipe, tasks_, workerVars>>
  BY Zenon DEF Process, taskVars, acceptVars
<1>2. o \in activeConnections_ /\ o \in Objects /\ tc[o].tSocket_ \in Conns /\ tc[o] \in Connection
  BY <1>0, <1>1, Places, Zenon DEF Types, Flow, Owned, Known, Inline
<1>3. PICK result \in {tc[o].output, tc[o].tSocket_} :
          /\ tc' = [tc EXCEPT ![o] = Answering([tc[o] EXCEPT !.output = result])]
          /\ IF result = None THEN Served(tc[o].tSocket_) ELSE UNCHANGED peer
  BY <1>0, Zenon DEF Process
<1>4. result \in Conns \cup {None}
  BY <1>2, Zenon DEF Connection
<1>5. Answering([tc[o] EXCEPT !.output = result]) \in Connection
  BY <1>2, <1>4, OutputFields, AnsweringFields, Zenon
<1>6. peer' = peer \/ \E c \in Conns : Served(c)
  BY <1>2, <1>3, Zenon
<1>7. ConnTypes' /\ Stocked
  BY <1>1, <1>2, <1>3, <1>5, <1>6, RewriteTypes, Zenon
<1>8. ThreadTypes' /\ QueueTypes'
  BY <1>1, SameTypes, GotoTypes, LabelTypes, Zenon
<1> QED
  BY <1>7, <1>8, TypesPartsNext, Zenon

LEMMA StaysStocked ==
  ASSUME Types, UNCHANGED <<tc, poolVars>>, DOMAIN peer' = Conns, Known \subseteq Known'
  PROVE  ConnTypes' /\ Stocked
  BY Zenon DEF ConnTypes, Stocked, Types, poolVars

LEMMA AddTypes ==
  ASSUME Types, Placed, Flow, NEW i \in IOThreads, AddTask(i) \/ ExpireNotify(i) \/ AddBlocks(i)
  PROVE  Types' /\ Stocked
<1>1. /\ io[i] \in Holding /\ hand' = hand
      /\ UNCHANGED <<tc, configVars, poolVars, nextIOThread_, workerVars, peer>>
      /\ IOGoto(i, "loop") \/ IOGoto(i, "blocked")
  BY Zenon DEF AddTask, ExpireNotify, AddBlocks, Holding, acceptVars, clientVars
<1>2. DOMAIN peer' = Conns /\ Known \subseteq Known'
  BY <1>1, SamePeer, Zenon DEF Types
<1>3. ConnTypes' /\ Stocked
  BY <1>1, <1>2, StaysStocked, Zenon
<1>4. ThreadTypes'
  BY <1>1, GotoTypes, LabelTypes, Zenon
<1>5. hand[i] \in activeConnections_ /\ hand[i] \in Held
  BY <1>1, Places, Zenon DEF Held
<1>6. Task(hand[i]) \in Tasks
  BY <1>5, TaskType, Zenon DEF Flow
<1>7. tasks_' \in Seq(Tasks) /\ pipe' \in [IOThreads -> Seq(Objects \cup {None})]
  <2>1. CASE AddTask(i)
    <3>1. tasks_' = Append(tasks_, Task(hand[i])) /\ pipe' = pipe
      BY <2>1, Zenon DEF AddTask
    <3> QED
      BY <1>6, <3>1, Appended, Zenon DEF Types
  <2>2. CASE AddBlocks(i)
    BY <2>2, Zenon DEF AddBlocks, taskVars, Types
  <2>3. CASE ExpireNotify(i)
    <3>0. PICK o : o = Head(tasks_).connection
      OBVIOUS
    <3>1. io[i] = "expire" /\ tasks_' = Append(Tail(tasks_), Task(hand[i])) /\ Put(tc[o].ioThread_, o)
      BY <2>3, <3>0, Zenon DEF ExpireNotify
    <3>2. tasks_ # <<>>
      BY <3>1, Zenon DEF Flow, Labels
    <3>3. o \in Objects /\ o \in Queued /\ Tail(tasks_) \in Seq(Tasks)
      BY <3>0, <3>2, QueueHead, Zenon DEF Placed
    <3>4. o \in activeConnections_ /\ o \notin Piped
      BY <3>3, Places, InOnePlace, Zenon
    <3>5. tc[o].ioThread_ \in IOThreads
      BY <3>4, Zenon DEF Flow, Owned
    <3>6. pipe' \in [IOThreads -> Seq(Objects \cup {None})]
      BY <3>1, <3>3, <3>4, <3>5, PipePut, Zenon DEF Placed
    <3> QED
      BY <1>6, <3>1, <3>3, <3>6, Appended, Zenon
  <2> QED
    BY <2>1, <2>2, <2>3
<1>8. QueueTypes'
  BY <1>1, <1>7, Zenon DEF QueueTypes, Types, configVars
<1> QED
  BY <1>3, <1>4, <1>8, TypesPartsNext, Zenon

LEMMA NotifyTypes ==
  ASSUME Types, Placed, Flow, DrainNotify \/ FreshNotify
  PROVE  Types' /\ Stocked
<1>0. 0 \in IOThreads
  BY Fixed
<1>1. /\ io[0] \in Holding /\ hand' = hand
      /\ UNCHANGED <<tc, configVars, poolVars, nextIOThread_, workerVars, peer, tasks_>>
      /\ IOGoto(0, "loop") \/ IOGoto(0, "create")
      /\ Put(tc[hand[0]].ioThread_, hand[0])
  BY Zenon DEF DrainNotify, FreshNotify, Holding, acceptVars, clientVars, taskVars
<1>2. DOMAIN peer' = Conns /\ Known \subseteq Known'
  BY <1>1, SamePeer, Zenon DEF Types
<1>3. ConnTypes' /\ Stocked
  BY <1>1, <1>2, StaysStocked, Zenon
<1>4. ThreadTypes'
  BY <1>0, <1>1, GotoTypes, LabelTypes, Zenon
<1>5. hand[0] \in activeConnections_ /\ hand[0] \in Held
  BY <1>0, <1>1, Places, Zenon DEF Held
<1>6. hand[0] \notin Piped /\ hand[0] \in Objects /\ tc[hand[0]].ioThread_ \in IOThreads
  BY <1>5, InOnePlace, Zenon DEF Flow, Owned, Types
<1>7. pipe' \in [IOThreads -> Seq(Objects \cup {None})]
  BY <1>1, <1>6, PipePut, Zenon DEF Placed
<1>8. QueueTypes'
  BY <1>1, <1>7, Zenon DEF QueueTypes, Types, configVars
<1> QED
  BY <1>3, <1>4, <1>8, TypesPartsNext, Zenon

LEMMA WorkerNotifyTypes ==
  ASSUME Types, Placed, Flow, NEW w \in Workers, WorkerNotify(w)
  PROVE  Types' /\ Stocked
<1>0. PICK o : o = job[w].connection
  OBVIOUS
<1>1. /\ worker[w] = "notify"
      /\ UNCHANGED <<tc, configVars, poolVars, nextIOThread_, ioVars, peer, tasks_>>
      /\ worker' = [worker EXCEPT ![w] = "idle"] /\ job' = [job EXCEPT ![w] = None]
      /\ Put(tc[o].ioThread_, o)
  BY <1>0, Zenon DEF WorkerNotify, acceptVars, clientVars, taskVars
<1>2. DOMAIN peer' = Conns /\ Known \subseteq Known'
  BY <1>1, SamePeer, Zenon DEF Types
<1>3. ConnTypes' /\ Stocked
  BY <1>1, <1>2, StaysStocked, Zenon
<1>4. ThreadTypes'
  BY <1>1, Zenon DEF Types, ThreadTypes, ioVars
<1>5. o \in activeConnections_ /\ o \in Worked
  BY <1>0, <1>1, Places, Zenon DEF Worked
<1>6. o \notin Piped /\ o \in Objects /\ tc[o].ioThread_ \in IOThreads
  BY <1>5, InOnePlace, Zenon DEF Flow, Owned, Types
<1>7. pipe' \in [IOThreads -> Seq(Objects \cup {None})]
  BY <1>1, <1>6, PipePut, Zenon DEF Placed
<1>8. QueueTypes'
  BY <1>1, <1>7, Zenon DEF QueueTypes, Types, configVars
<1> QED
  BY <1>3, <1>4, <1>8, TypesPartsNext, Zenon

LEMMA ForceTypes ==
  ASSUME Types, Placed, Flow, tasks_ # <<>>, UNCHANGED <<poolVars, peer>>,
         tc' = [tc EXCEPT ![Head(tasks_).connection] = Forced(@)]
  PROVE  ConnTypes' /\ Stocked
<1>0. PICK o : o = Head(tasks_).connection
  OBVIOUS
<1>1. o \in Objects
  BY <1>0, QueueHead, Zenon DEF Placed
<1>2. tc[o] \in Connection
  BY <1>1, Zenon DEF Types
<1>3. Forced(tc[o]) \in Connection /\ tc' = [tc EXCEPT ![o] = Forced(tc[o])]
  BY <1>0, <1>2, ForcedFields, Zenon
<1> QED
  BY <1>1, <1>3, RewriteTypes, Zenon

LEMMA TakeTypes ==
  ASSUME Types, Placed, Flow, NEW w \in Workers, Take(w) \/ TakeExpired(w)
  PROVE  Types' /\ Stocked
<1>1. /\ tasks_ # <<>> /\ tasks_' = Tail(tasks_) /\ job' = [job EXCEPT ![w] = Head(tasks_)]
      /\ \E l \in {"run", "notify"} : worker' = [worker EXCEPT ![w] = l]
      /\ WakeAdder /\ UNCHANGED <<configVars, poolVars, nextIOThread_, hand, peer, pipe>>
      /\ tc' = tc \/ tc' = [tc EXCEPT ![Head(tasks_).connection] = Forced(@)]
  BY Zenon DEF Take, TakeExpired, acceptVars, clientVars
<1>2. Head(tasks_) \in Tasks /\ Tail(tasks_) \in Seq(Tasks)
  BY <1>1, QueueHead, Zenon DEF Placed
<1>3. ConnTypes' /\ Stocked
  <2>1. CASE tc' = tc
    <3>1. DOMAIN peer' = Conns /\ Known \subseteq Known'
      BY <1>1, SamePeer, Zenon DEF Types
    <3> QED
      BY <1>1, <2>1, <3>1, StaysStocked, Zenon
  <2>2. CASE tc' = [tc EXCEPT ![Head(tasks_).connection] = Forced(@)]
    BY <1>1, <2>2, ForceTypes, Zenon
  <2> QED
    BY <1>1, <2>1, <2>2, Zenon
<1>4. io' \in [IOThreads -> IOLabels]
  BY <1>1, LabelTypes, Zenon DEF WakeAdder, IOGoto, Types
<1>5. worker' \in [Workers -> {"idle", "run", "notify"}] /\ job' \in [Workers -> Tasks \cup {None}]
  BY <1>1, <1>2, Zenon DEF Types
<1>6. ThreadTypes'
  BY <1>1, <1>4, <1>5, Zenon DEF ThreadTypes, Types
<1>7. QueueTypes'
  BY <1>1, <1>2, Zenon DEF QueueTypes, Types, configVars
<1> QED
  BY <1>3, <1>6, <1>7, TypesPartsNext, Zenon

LEMMA RunTaskTypes ==
  ASSUME Types, Placed, Flow, NEW w \in Workers, RunTask(w) \/ RunTaskThrows(w)
  PROVE  Types' /\ Stocked
<1>0. PICK o : o = job[w].connection
  OBVIOUS
<1>1. /\ worker[w] = "run" /\ worker' = [worker EXCEPT ![w] = "notify"] /\ job' = job
      /\ UNCHANGED <<configVars, poolVars, nextIOThread_, ioVars, tasks_, pipe>>
  BY Zenon DEF RunTask, RunTaskThrows, acceptVars, taskVars
<1>2. o \in activeConnections_ /\ o \in Objects /\ tc[o] \in Connection /\ job[w] \in Tasks
  BY <1>0, <1>1, Places, Zenon DEF Types, Flow, Labels
<1>3. job[w].socket \in Conns
  BY <1>2, Zenon DEF Tasks
<1>4. ConnTypes' /\ Stocked
  <2>1. CASE tc' = [tc EXCEPT ![o].output = job[w].socket] /\ peer' = peer
    <3>1. [tc[o] EXCEPT !.output = job[w].socket] \in Connection
      BY <1>2, <1>3, OutputFields, Zenon
    <3>2. tc' = [tc EXCEPT ![o] = [tc[o] EXCEPT !.output = job[w].socket]]
      BY <2>1, Zenon
    <3> QED
      BY <1>1, <1>2, <2>1, <3>1, <3>2, RewriteTypes, Zenon
  <2>2. CASE tc' = tc /\ (Served(job[w].socket) \/ Forsaken(job[w].socket))
    BY <1>1, <1>3, <2>2, ServedPeer, StaysStocked, Zenon
  <2> QED
    BY <1>0, <2>1, <2>2, Zenon DEF RunTask, RunTaskThrows
<1>5. ThreadTypes'
  BY <1>1, Zenon DEF Types, ThreadTypes, ioVars
<1>6. QueueTypes'
  BY <1>1, SameTypes, Zenon
<1> QED
  BY <1>4, <1>5, <1>6, TypesPartsNext, Zenon

LEMMA ForcingTypes ==
  ASSUME Types, Placed, Flow, NEW i \in IOThreads, AddExpires(i) \/ (i = 0 /\ DrainTask)
  PROVE  Types' /\ Stocked
<1>1. UNCHANGED <<configVars, poolVars, nextIOThread_, workerVars, peer, pipe>>
  BY Zenon DEF AddExpires, DrainTask, acceptVars, clientVars
<1>2. tc' = [tc EXCEPT ![Head(tasks_).connection] = Forced(@)]
  BY Zenon DEF AddExpires, DrainTask
<1>3. tasks_ # <<>>
  <2>1. CASE AddExpires(i)
    <3>1. QueueFull
      BY <2>1, Zenon DEF AddExpires
    <3> QED
      BY <3>1, SMT DEF QueueFull, Types
  <2>2. CASE i = 0 /\ DrainTask
    BY <2>2, Zenon DEF DrainTask
  <2> QED
    BY <2>1, <2>2
<1>4. ConnTypes' /\ Stocked
  BY <1>1, <1>2, <1>3, ForceTypes, Zenon
<1>5. Head(tasks_).connection \in Objects /\ Tail(tasks_) \in Seq(Tasks)
  BY <1>3, QueueHead, Zenon DEF Placed
<1>6. ThreadTypes'
  <2>1. \/ IOGoto(i, "expire") /\ hand' = hand
        \/ IOGoto(i, "drained") /\ hand' = [hand EXCEPT ![i] = Head(tasks_).connection]
    BY Zenon DEF AddExpires, DrainTask
  <2> QED
    BY <1>1, <1>5, <2>1, GotoTypes, LabelTypes, Zenon
<1>7. tasks_' = tasks_ \/ tasks_' = Tail(tasks_)
  BY Zenon DEF AddExpires, DrainTask
<1>8. QueueTypes'
  BY <1>1, <1>5, <1>7, Zenon DEF QueueTypes, Types, configVars
<1> QED
  BY <1>4, <1>6, <1>8, TypesPartsNext, Zenon

LEMMA QuietTypes ==
  ASSUME Types, Placed, Flow, NEW i \in IOThreads,
         \/ Register(i) \/ ReceiveStop(i)
         \/ i = 0 /\ \E c \in Conns : Accept(c) \/ DropOnAccept(c) \/ BeginDrain(c)
         \/ i = 0 /\ (NothingToDrain \/ DrainNotifyFails)
  PROVE  Types' /\ Stocked
<1>1. UNCHANGED <<configVars, poolVars, nextIOThread_, workerVars, tc, tasks_, hand>>
  BY Zenon DEF Register, ReceiveStop, Accept, DropOnAccept, BeginDrain, NothingToDrain,
               DrainNotifyFails, acceptVars, taskVars, ioVars
<1>2. io' = io \/ \E l \in IOLabels : IOGoto(i, l)
  BY LabelTypes, Zenon DEF Register, ReceiveStop, Accept, DropOnAccept, BeginDrain,
                           NothingToDrain, DrainNotifyFails, ioVars
<1>3. ThreadTypes'
  BY <1>1, <1>2, SameTypes, GotoTypes, Zenon DEF ioVars
<1>4. pipe' \in [IOThreads -> Seq(Objects \cup {None})]
  <2>1. pipe' = pipe \/ (pipe[i] # <<>> /\ Pop(i))
    BY Zenon DEF Register, ReceiveStop, Accept, DropOnAccept, BeginDrain, NothingToDrain,
                 DrainNotifyFails, Got
  <2> QED
    BY <2>1, PipePop, Zenon DEF Types, Placed
<1>5. QueueTypes'
  BY <1>1, <1>4, Zenon DEF QueueTypes, Types, configVars
<1>6. peer' = peer \/ \E c \in Conns : peer' = [peer EXCEPT ![c] = "closed"]
  <2>1. i = 0 /\ NothingToDrain => incoming \in Conns
    BY Zenon DEF NothingToDrain, Flow, Labels
  <2> QED
    BY <2>1, Zenon DEF Register, ReceiveStop, Accept, DropOnAccept, BeginDrain, NothingToDrain,
                       DrainNotifyFails, clientVars
<1>7. DOMAIN peer' = Conns /\ Known \subseteq Known'
  <2>1. "closed" \notin {"away", "backlog"}
    OBVIOUS
  <2> QED
    BY <1>6, <2>1, SamePeer, PeerSet, Zenon DEF Types
<1>8. ConnTypes' /\ Stocked
  BY <1>1, <1>7, StaysStocked, Zenon
<1> QED
  BY <1>3, <1>5, <1>8, TypesPartsNext, Zenon

LEMMA OutsideTypes ==
  ASSUME Types, Placed, Flow,
         BeginStop \/ StopThread \/ (\E c \in Conns : Client(c)) \/ UNCHANGED vars
  PROVE  Types' /\ Stocked
<1>1. UNCHANGED <<configVars, poolVars, nextIOThread_, workerVars, ioVars, tc, tasks_>>
  BY Zenon DEF BeginStop, StopThread, Client, vars, acceptVars, taskVars
<1>2. ThreadTypes'
  BY <1>1, SameTypes, Zenon
<1>3. pipe' \in [IOThreads -> Seq(Objects \cup {None})]
  <2>1. pipe' = pipe \/ \E i \in IOThreads : Put(i, None)
    BY Zenon DEF BeginStop, StopThread, Client, vars
  <2>2. None \notin Piped
    BY Fixed, Zenon DEF Piped
  <2> QED
    BY <2>1, <2>2, PipePut, Zenon DEF Types, Placed
<1>4. QueueTypes'
  BY <1>1, <1>3, Zenon DEF QueueTypes, Types, configVars
<1>5. DOMAIN peer' = Conns /\ Known \subseteq Known'
  <2>1. CASE BeginStop \/ StopThread \/ UNCHANGED vars
    BY <2>1, SamePeer, Zenon DEF Types, BeginStop, StopThread, vars, clientVars
  <2>2. CASE \E c \in Conns : Client(c)
    <3>1. PICK c \in Conns : Client(c)
      BY <2>2
    <3>2. \/ peer[c] = "away" /\ peer' = [peer EXCEPT ![c] = "backlog"]
          \/ \E v \in {"requested", "hungup", "left"} : peer' = [peer EXCEPT ![c] = v]
      BY <3>1, Zenon DEF Client
    <3>3. CASE \E v \in {"requested", "hungup", "left"} : peer' = [peer EXCEPT ![c] = v]
      <4>1. PICK v \in {"requested", "hungup", "left"} : peer' = [peer EXCEPT ![c] = v]
        BY <3>3, Zenon
      <4>2. v \notin {"away", "backlog"}
        OBVIOUS
      <4> QED
        BY <4>1, <4>2, PeerSet, Zenon
    <3>4. CASE peer[c] = "away" /\ peer' = [peer EXCEPT ![c] = "backlog"]
      BY <3>4, Zenon DEF Known, Types
    <3> QED
      BY <3>2, <3>3, <3>4
  <2> QED
    BY <2>1, <2>2
<1>6. ConnTypes' /\ Stocked
  BY <1>1, <1>5, StaysStocked, Zenon
<1> QED
  BY <1>2, <1>4, <1>6, TypesPartsNext, Zenon

LEMMA NextThread ==
  ASSUME Types, nextIOThread_' = (nextIOThread_ + 1) % NumIOThreads
  PROVE  nextIOThread_' \in IOThreads
<1>1. nextIOThread_ \in Nat /\ NumIOThreads \in Nat \ {0}
  BY ConstantsAssumption DEF Types, IOThreads
<1> QED
  BY <1>1 DEF IOThreads

LEMMA CreateThrowsTypes ==
  ASSUME Types, Placed, Flow, Once(connectionStack_), CreateThrows
  PROVE  Types' /\ Known' = Known \cup {incoming}
<1>0. 0 \in IOThreads
  BY Fixed
<1>1. /\ io[0] = "create" /\ peer' = [peer EXCEPT ![incoming] = "closed"] /\ IOGoto(0, "loop")
      /\ UNCHANGED <<configVars, tc, activeConnections_, pipe, tasks_, hand, workerVars>>
      /\ nextIOThread_' = (nextIOThread_ + 1) % NumIOThreads
  BY Zenon DEF CreateThrows, taskVars
<1>2. incoming \in Conns
  BY <1>1, Zenon DEF Flow, Labels
<1>3. DOMAIN peer' = Conns /\ Known' = Known \cup {incoming}
  <2>1. "closed" \notin {"away", "backlog"}
    OBVIOUS
  <2> QED
    BY <1>1, <1>2, <2>1, PeerSet, Zenon
<1>4. connectionStack_' \in Seq(Objects) /\ lost' \subseteq Objects
  <2>1. CASE connectionStack_ = <<>> /\ UNCHANGED <<connectionStack_, lost>>
    BY <2>1, Zenon DEF Types
  <2>2. CASE /\ connectionStack_ # <<>> /\ connectionStack_' = Popped /\ lost' = lost \cup {Top}
    <3>1. Popped \in Seq(Objects) /\ Top \in Objects
      BY <2>2, StackPop, Zenon DEF Popped, Top, Types
    <3> QED
      BY <2>2, <3>1, Zenon DEF Types
  <2> QED
    BY <2>1, <2>2, Zenon DEF CreateThrows
<1>5. ConnTypes'
  BY <1>1, <1>3, <1>4, Zenon DEF ConnTypes, Types
<1>6. ThreadTypes'
  BY <1>0, <1>1, GotoTypes, LabelTypes, Zenon
<1>7. nextIOThread_' \in IOThreads
  BY <1>1, NextThread, Zenon
<1>8. QueueTypes'
  BY <1>1, <1>7, Zenon DEF QueueTypes, Types, configVars
<1> QED
  BY <1>3, <1>5, <1>6, <1>8, TypesPartsNext, Zenon

LEMMA CreateTypes ==
  ASSUME Types, Placed, Flow, Once(connectionStack_), CreateConnection,
         NEW o \in Objects, o = Chosen, o \notin activeConnections_
  PROVE  Types' /\ Known' = Known \cup {incoming}
<1>0. 0 \in IOThreads
  BY Fixed
<1>1. /\ io[0] = "create" /\ peer' = [peer EXCEPT ![incoming] = "connected"]
      /\ IOGoto(0, "loop") \/ IOGoto(0, "fresh")
      /\ UNCHANGED <<configVars, lost, pipe, tasks_, workerVars>>
      /\ nextIOThread_' = (nextIOThread_ + 1) % NumIOThreads
  BY Zenon DEF CreateConnection, taskVars
<1>2. /\ hand' = [hand EXCEPT ![0] = o] /\ activeConnections_' = activeConnections_ \cup {o}
      /\ connectionStack_' = IF connectionStack_ # <<>> THEN Popped ELSE connectionStack_
  <2>1. /\ hand' = [hand EXCEPT ![0] = Chosen]
        /\ activeConnections_' = activeConnections_ \cup {Chosen}
        /\ connectionStack_' = IF connectionStack_ # <<>> THEN Popped ELSE connectionStack_
    BY Zenon DEF CreateConnection, Chosen
  <2> QED
    BY <2>1, Zenon
<1>3. incoming \in Conns
  BY <1>1, Zenon DEF Flow, Labels
<1>4. DOMAIN peer' = Conns /\ Known' = Known \cup {incoming}
  <2>1. "connected" \notin {"away", "backlog"}
    OBVIOUS
  <2> QED
    BY <1>1, <1>3, <2>1, PeerSet, Zenon
<1>5. connectionStack_' \in Seq(Objects)
  <2>1. CASE connectionStack_ = <<>>
    BY <1>2, <2>1, Zenon DEF Types
  <2>2. CASE connectionStack_ # <<>>
    BY <1>2, <2>2, StackPop, Zenon DEF Popped, Types
  <2> QED
    BY <2>1, <2>2
<1>6. ConnTypes'
  BY <1>1, <1>2, <1>4, <1>5, CreateStep, Zenon DEF ConnTypes, Types
<1>7. ThreadTypes'
  BY <1>0, <1>1, <1>2, GotoTypes, LabelTypes, Zenon
<1>8. nextIOThread_' \in IOThreads
  BY <1>1, NextThread, Zenon
<1>9. QueueTypes'
  BY <1>1, <1>8, Zenon DEF QueueTypes, Types, configVars
<1> QED
  BY <1>4, <1>6, <1>7, <1>9, TypesPartsNext, Zenon

-----------------------------------------------------------------------------
(* An object that is in one place has one holder.                          *)

EventHolders(o) == {<<"event">> : e \in {tc[o].eventFlags_} \ {"none"}}
HandlerHolders(o) ==
    {<<"handler", i>> : i \in {j \in IOThreads : io[j] \in Holding /\ hand[j] = o}}
QueueHolders(o) == {<<"queue", k>> : k \in {n \in DOMAIN tasks_ : tasks_[n].connection = o}}
WorkerHolders(o) ==
    {<<"worker", w>> : w \in {v \in Workers : worker[v] # "idle" /\ job[v].connection = o}}
PipeHolders(o) ==
    UNION {{<<"pipe", i, k>> : k \in {n \in DOMAIN pipe[i] : pipe[i][n] = o}} : i \in IOThreads}

LEMMA HoldersParts ==
  ASSUME NEW o
  PROVE  Holders(o) = EventHolders(o) \cup HandlerHolders(o) \cup QueueHolders(o)
                        \cup WorkerHolders(o) \cup PipeHolders(o)
  BY Zenon DEF Holders, EventHolders, HandlerHolders, QueueHolders, WorkerHolders, PipeHolders

LEMMA EventHolder ==
  ASSUME NEW o \in Objects
  PROVE  IF o \in Evented THEN \E x : EventHolders(o) = {x} ELSE EventHolders(o) = {}
<1>1. CASE o \in Evented
  <2>1. EventHolders(o) = {<<"event">>}
    BY <1>1, Zenon DEF Evented, EventHolders
  <2> QED
    BY <1>1, <2>1, Zenon
<1>2. CASE o \notin Evented
  BY <1>2, Zenon DEF Evented, EventHolders
<1> QED
  BY <1>1, <1>2

LEMMA HandlerHolder ==
  ASSUME HeldOnce, NEW o
  PROVE  IF o \in Held THEN \E x : HandlerHolders(o) = {x} ELSE HandlerHolders(o) = {}
<1>1. CASE o \in Held
  <2>1. PICK i \in IOThreads : io[i] \in Holding /\ hand[i] = o
    BY <1>1, Zenon DEF Held
  <2>2. {j \in IOThreads : io[j] \in Holding /\ hand[j] = o} = {i}
    BY <2>1, Zenon DEF HeldOnce
  <2>3. HandlerHolders(o) = {<<"handler", i>>}
    BY <2>2, Zenon DEF HandlerHolders
  <2> QED
    BY <1>1, <2>3, Zenon
<1>2. CASE o \notin Held
  BY <1>2, Zenon DEF Held, HandlerHolders
<1> QED
  BY <1>1, <1>2

LEMMA QueueHolder ==
  ASSUME OnceEach(tasks_), NEW o
  PROVE  IF o \in Queued THEN \E x : QueueHolders(o) = {x} ELSE QueueHolders(o) = {}
<1>1. CASE o \in Queued
  <2>1. PICK k \in DOMAIN tasks_ : tasks_[k].connection = o
    BY <1>1, Zenon DEF Queued, Connections
  <2>2. {n \in DOMAIN tasks_ : tasks_[n].connection = o} = {k}
    BY <2>1, Zenon DEF OnceEach
  <2>3. QueueHolders(o) = {<<"queue", k>>}
    BY <2>2, Zenon DEF QueueHolders
  <2> QED
    BY <1>1, <2>3, Zenon
<1>2. CASE o \notin Queued
  BY <1>2, Zenon DEF Queued, Connections, QueueHolders
<1> QED
  BY <1>1, <1>2

LEMMA WorkerHolder ==
  ASSUME WorkedOnce, NEW o
  PROVE  IF o \in Worked THEN \E x : WorkerHolders(o) = {x} ELSE WorkerHolders(o) = {}
<1>1. CASE o \in Worked
  <2>1. PICK w \in Workers : worker[w] # "idle" /\ job[w].connection = o
    BY <1>1, Zenon DEF Worked
  <2>2. {v \in Workers : worker[v] # "idle" /\ job[v].connection = o} = {w}
    BY <2>1, Zenon DEF WorkedOnce
  <2>3. WorkerHolders(o) = {<<"worker", w>>}
    BY <2>2, Zenon DEF WorkerHolders
  <2> QED
    BY <1>1, <2>3, Zenon
<1>2. CASE o \notin Worked
  BY <1>2, Zenon DEF Worked, WorkerHolders
<1> QED
  BY <1>1, <1>2

LEMMA PipeHolder ==
  ASSUME PipedOnce, NEW o \in Objects
  PROVE  IF o \in Piped THEN \E x : PipeHolders(o) = {x} ELSE PipeHolders(o) = {}
<1>1. CASE o \in Piped
  <2>1. PICK i \in IOThreads : o \in Members(pipe[i])
    BY <1>1, Zenon DEF Piped
  <2>2. PICK k \in DOMAIN pipe[i] : pipe[i][k] = o
    BY <2>1, Zenon DEF Members
  <2>3. o # None
    BY Fixed, Zenon
  <2>4. ASSUME NEW j \in IOThreads, NEW n \in DOMAIN pipe[j], pipe[j][n] = o
        PROVE  j = i /\ n = k
    <3>1. o \in Members(pipe[j])
      BY <2>4, Zenon DEF Members
    <3>2. j = i
      BY <2>1, <3>1, Zenon DEF PipedOnce
    <3>3. Once(pipe[i])
      BY Zenon DEF PipedOnce
    <3> QED
      BY <2>2, <2>3, <2>4, <3>2, <3>3, Zenon DEF Once
  <2>5. PipeHolders(o) = {<<"pipe", i, k>>}
    <3>1. <<"pipe", i, k>> \in PipeHolders(o)
      <4>1. <<"pipe", i, k>> \in {<<"pipe", i, m>> : m \in {n \in DOMAIN pipe[i] : pipe[i][n] = o}}
        BY <2>2, Zenon
      <4> QED
        BY <4>1, Zenon DEF PipeHolders
    <3>2. ASSUME NEW x \in PipeHolders(o) PROVE x = <<"pipe", i, k>>
      <4>1. PICK j \in IOThreads :
              \E n \in DOMAIN pipe[j] : pipe[j][n] = o /\ x = <<"pipe", j, n>>
        BY <3>2, Zenon DEF PipeHolders
      <4>2. PICK n \in DOMAIN pipe[j] : pipe[j][n] = o /\ x = <<"pipe", j, n>>
        BY <4>1, Zenon
      <4> QED
        BY <2>4, <4>2, Zenon
    <3> QED
      BY <3>1, <3>2, Zenon
  <2> QED
    BY <1>1, <2>5, Zenon
<1>2. CASE o \notin Piped
  <2>1. \A j \in IOThreads : {n \in DOMAIN pipe[j] : pipe[j][n] = o} = {}
    BY <1>2, Zenon DEF Piped, Members
  <2> QED
    BY <1>2, <2>1, Zenon DEF PipeHolders
<1> QED
  BY <1>1, <1>2

(* Placed, for any set of objects.                                         *)
PlacedIn(all) ==
    /\ ShareOut(all, Evented, Held, Queued, Worked, Piped)
    /\ HeldOnce /\ OnceEach(tasks_) /\ WorkedOnce /\ PipedOnce

LEMMA HeldByOne ==
  ASSUME NEW all, PlacedIn(all), NEW o \in Objects
  PROVE  IF o \in all THEN \E x : Holders(o) = {x} ELSE Holders(o) = {}
<1>1. /\ IF o \in Evented THEN \E x : EventHolders(o) = {x} ELSE EventHolders(o) = {}
      /\ IF o \in Held THEN \E x : HandlerHolders(o) = {x} ELSE HandlerHolders(o) = {}
      /\ IF o \in Queued THEN \E x : QueueHolders(o) = {x} ELSE QueueHolders(o) = {}
      /\ IF o \in Worked THEN \E x : WorkerHolders(o) = {x} ELSE WorkerHolders(o) = {}
      /\ IF o \in Piped THEN \E x : PipeHolders(o) = {x} ELSE PipeHolders(o) = {}
  BY EventHolder, HandlerHolder, QueueHolder, WorkerHolder, PipeHolder, Zenon DEF PlacedIn
<1>2. CASE o \notin all
  <2>1. o \notin Evented /\ o \notin Held /\ o \notin Queued /\ o \notin Worked /\ o \notin Piped
    BY <1>2, Zenon DEF PlacedIn, ShareOut
  <2> QED
    BY <1>1, <1>2, <2>1, HoldersParts, Zenon
<1>3. CASE o \in all
  <2>1. CASE o \in Evented
    <3>1. o \notin Held /\ o \notin Queued /\ o \notin Worked /\ o \notin Piped
      BY <2>1, Zenon DEF PlacedIn, ShareOut
    <3> QED
      BY <1>1, <1>3, <2>1, <3>1, HoldersParts, Zenon
  <2>2. CASE o \in Held
    <3>1. o \notin Evented /\ o \notin Queued /\ o \notin Worked /\ o \notin Piped
      BY <2>2, Zenon DEF PlacedIn, ShareOut
    <3> QED
      BY <1>1, <1>3, <2>2, <3>1, HoldersParts, Zenon
  <2>3. CASE o \in Queued
    <3>1. o \notin Evented /\ o \notin Held /\ o \notin Worked /\ o \notin Piped
      BY <2>3, Zenon DEF PlacedIn, ShareOut
    <3> QED
      BY <1>1, <1>3, <2>3, <3>1, HoldersParts, Zenon
  <2>4. CASE o \in Worked
    <3>1. o \notin Evented /\ o \notin Held /\ o \notin Queued /\ o \notin Piped
      BY <2>4, Zenon DEF PlacedIn, ShareOut
    <3> QED
      BY <1>1, <1>3, <2>4, <3>1, HoldersParts, Zenon
  <2>5. CASE o \in Piped
    <3>1. o \notin Evented /\ o \notin Held /\ o \notin Queued /\ o \notin Worked
      BY <2>5, Zenon DEF PlacedIn, ShareOut
    <3> QED
      BY <1>1, <1>3, <2>5, <3>1, HoldersParts, Zenon
  <2> QED
    BY <1>3, <2>1, <2>2, <2>3, <2>4, <2>5, Zenon DEF PlacedIn, ShareOut
<1> QED
  BY <1>2, <1>3, Zenon

-----------------------------------------------------------------------------
(* The initial states, and the steps but for the counters.                 *)

LEMMA InitTypes ==
  ASSUME Init
  PROVE  Types
<1>1. Blank \in Connection
  BY DEF Blank, Connection
<1>2. 0 \in IOThreads
  BY Fixed
<1>3. pendingTaskCountMax_ \in Nat
  BY ConstantsAssumption DEF Init
<1> QED
  BY <1>1, <1>2, <1>3 DEF Init, Types, IOLabels

LEMMA InitNowhere ==
  ASSUME Init
  PROVE  /\ Evented = {} /\ Held = {} /\ Queued = {} /\ Worked = {} /\ Piped = {}
         /\ Stacked = {} /\ Busy = {} /\ Processing = {} /\ Allocated = {} /\ Known = {}
         /\ Once(connectionStack_) /\ Len(connectionStack_) = 0
<1>1. Evented = {}
  BY DEF Init, Evented, Blank
<1>2. Held = {} /\ Processing = {}
  BY DEF Init, Held, Processing, Holding
<1>3. Queued = {} /\ Stacked = {} /\ Allocated = {}
  BY DEF Init, Queued, Connections, Stacked, Members, Allocated
<1>4. Worked = {} /\ Busy = {}
  BY DEF Init, Worked, Busy
<1>5. Piped = {} /\ Known = {}
  BY DEF Init, Piped, Members, Known
<1>6. Once(connectionStack_) /\ Len(connectionStack_) = 0
  BY DEF Init, Once
<1> QED
  BY <1>1, <1>2, <1>3, <1>4, <1>5, <1>6, Zenon

LEMMA InitPlaced ==
  ASSUME Init
  PROVE  Placed /\ Flow
<1>1. Placed
  <2>1. Apart
    BY InitNowhere, Zenon DEF Apart, ShareOut, Init
  <2>2. HeldOnce /\ WorkedOnce
    BY DEF Init, HeldOnce, WorkedOnce, Holding
  <2>3. OnceEach(tasks_) /\ PipedOnce
    BY DEF Init, OnceEach, PipedOnce, Once, Members
  <2> QED
    BY <2>1, <2>2, <2>3, Zenon DEF Placed
<1>2. Flow
  <2>1. Owned /\ Outputs
    BY Zenon DEF Init, Owned, Outputs
  <2>2. (\A i \in IOThreads : io[i] = "off") /\ (\A w \in Workers : worker[w] = "idle")
    BY Zenon DEF Init
  <2>3. Stages
    BY <2>2, InitNowhere, Zenon DEF Stages, Holding
  <2>4. Inline
    BY <2>2, Zenon DEF Inline
  <2>5. Labels
    BY <2>2, Fixed, Zenon DEF Labels
  <2>6. TaskResults
    BY <2>2 DEF TaskResults, Init
  <2> QED
    BY <2>1, <2>3, <2>4, <2>5, <2>6, Zenon DEF Flow
<1> QED
  BY <1>1, <1>2

(* What a step leaves to the counters.                                     *)
Settled == Types' /\ Stocked /\ Placed' /\ Flow' /\ Counted

LEMMA EventSettles ==
  ASSUME Types, Placed, Flow, NEW i \in IOThreads, NEW o \in Objects,
         ConnectionEvent(i, o) \/ RefusesFrame(i, o)
  PROVE  Settled
<1>1. CASE SeesDisconnect(i, o) \/ RefusesFrame(i, o)
  BY <1>1, EventCloses, EventClosesTypes, Zenon DEF Settled
<1>2. CASE ReadFrameSize(i, o) \/ SendResult(i, o)
  BY <1>2, EventStep, EventTypes, Zenon DEF Settled
<1>3. CASE ReadRequest(i, o)
  BY <1>3, ReadRequestStep, EventTypes, Zenon DEF Settled
<1> QED
  BY <1>1, <1>2, <1>3, Zenon DEF ConnectionEvent

LEMMA PipeSettles ==
  ASSUME Types, Placed, Flow, NEW i \in IOThreads, PipeEvent(i)
  PROVE  Settled
<1>1. CASE ReceiveStop(i)
  BY <1>1, LoopSteps, QuietTypes, Zenon DEF Settled
<1>2. CASE ReceiveFresh(i) \/ ReceiveResult(i)
  BY <1>2, ReceiveStep, PipeTypes, Zenon DEF Settled
<1>3. CASE ReceiveClose(i)
  BY <1>3, PipeCloses, PipeTypes, Zenon DEF Settled
<1> QED
  BY <1>1, <1>2, <1>3, Zenon DEF PipeEvent

LEMMA HandlerSettles ==
  ASSUME Types, Placed, Flow, NEW i \in IOThreads, Handler(i), ~(i = 0 /\ CreateConnection)
  PROVE  Settled
<1>1. CASE Register(i)
  BY <1>1, LoopSteps, QuietTypes, Zenon DEF Settled
<1>2. CASE Process(i)
  BY <1>2, ProcessStep, ProcessTypes, Zenon DEF Settled
<1>3. CASE AddTask(i)
  BY <1>3, AddTaskStep, AddTypes, Zenon DEF Settled
<1>4. CASE AddBlocks(i)
  BY <1>4, LoopSteps, AddTypes, Zenon DEF Settled
<1>5. CASE ExpireNotify(i)
  BY <1>5, ExpireNotifyStep, AddTypes, Zenon DEF Settled
<1>6. CASE i = 0 /\ NothingToDrain
  BY <1>6, GiveUpSteps, QuietTypes, Zenon DEF Settled
<1>7. CASE i = 0 /\ DrainTask
  BY <1>7, DrainTaskStep, ForcingTypes, Zenon DEF Settled
<1>8. CASE i = 0 /\ (DrainNotify \/ FreshNotify)
  BY <1>8, HandlerNotifyStep, NotifyTypes, Zenon DEF Settled
<1>9. CASE i = 0 /\ FreshNotifyFails
  BY <1>9, HandlerCloses, HandlerClosesTypes, Zenon DEF Settled
<1> QED
  BY <1>1, <1>2, <1>3, <1>4, <1>5, <1>6, <1>7, <1>8, <1>9, Zenon DEF Handler

LEMMA RefusalSettles ==
  ASSUME Types, Placed, Flow, NEW i \in IOThreads,
         ProcessThrows(i) \/ AddRefused(i) \/ AddExpires(i)
  PROVE  Settled
<1>1. CASE ProcessThrows(i)
  BY <1>1, InlineCloses, HandlerClosesTypes, Zenon DEF Settled
<1>2. CASE AddRefused(i)
  BY <1>2, HandlerCloses, HandlerClosesTypes, Zenon DEF Settled
<1>3. CASE AddExpires(i)
  BY <1>3, AddExpiresStep, ForcingTypes, Zenon DEF Settled
<1> QED
  BY <1>1, <1>2, <1>3

LEMMA WorkerSettles ==
  ASSUME Types, Placed, Flow, NEW w \in Workers,
         WorkerStep(w) \/ TakeExpired(w) \/ RunTaskThrows(w) \/ WorkerNotifyFails(w)
  PROVE  Settled
<1>1. CASE Take(w)
  BY <1>1, TakeStep, TakeTypes, Zenon DEF Settled
<1>2. CASE TakeExpired(w)
  BY <1>2, TakeExpiredStep, TakeTypes, Zenon DEF Settled
<1>3. CASE RunTask(w) \/ RunTaskThrows(w)
  BY <1>3, RunTaskStep, RunTaskTypes, Zenon DEF Settled
<1>4. CASE WorkerNotify(w)
  BY <1>4, WorkerNotifyStep, WorkerNotifyTypes, Zenon DEF Settled
<1>5. CASE WorkerNotifyFails(w)
  BY <1>5, WorkerCloses, WorkerClosesTypes, Zenon DEF Settled
<1> QED
  BY <1>1, <1>2, <1>3, <1>4, <1>5, Zenon DEF WorkerStep

LEMMA ListenSettles ==
  ASSUME Types, Placed, Flow, ListenEvent
  PROVE  Settled
<1>1. PICK c \in Conns : Accept(c) \/ DropOnAccept(c) \/ BeginDrain(c)
  BY Zenon DEF ListenEvent
<1>2. Placed' /\ Flow' /\ Counted
  BY <1>1, AcceptSteps, Zenon
<1>3. Types' /\ Stocked
  BY <1>1, Fixed, QuietTypes, Zenon
<1> QED
  BY <1>2, <1>3, Zenon DEF Settled

LEMMA OutsideSettles ==
  ASSUME Types, Placed, Flow,
         BeginStop \/ StopThread \/ (\E c \in Conns : Client(c)) \/ UNCHANGED vars
  PROVE  Settled
  BY OutsideSteps, OutsideTypes, Zenon DEF Settled

LEMMA DrainFailsSettles ==
  ASSUME Types, Placed, Flow, DrainNotifyFails
  PROVE  Settled
  BY DrainFailsStep, QuietTypes, Fixed, Zenon DEF Settled

(* The exception of forceClose() is in add(), or has left it.              *)
Damaged == broken \in {"add", "unwound"}

(* Every step does, but for those that give a client an object and those   *)
(* of that exception.                                                      *)
LEMMA Settles ==
  ASSUME Types, Placed, Flow, [Next]_vars, ~CreateConnection, ~CreateThrows, ~Damaged'
  PROVE  Settled
<1>1. CASE System
  <2>1. CASE \E i \in IOThreads, o \in Objects : ConnectionEvent(i, o)
    BY <2>1, EventSettles, Zenon
  <2>2. CASE \E i \in IOThreads : PipeEvent(i) \/ Handler(i)
    BY <2>2, PipeSettles, HandlerSettles, Zenon
  <2>3. CASE ListenEvent \/ StopThread
    BY <2>3, ListenSettles, OutsideSettles, Zenon
  <2>4. CASE \E w \in Workers : WorkerStep(w)
    BY <2>4, WorkerSettles, Zenon
  <2> QED
    BY <1>1, <2>1, <2>2, <2>3, <2>4, Zenon DEF System
<1>2. CASE Failure
  <2>1. CASE \E i \in IOThreads : ProcessThrows(i) \/ AddRefused(i) \/ AddExpires(i)
    BY <2>1, RefusalSettles, Zenon
  <2>2. CASE \E i \in IOThreads, o \in Objects : RefusesFrame(i, o)
    BY <2>2, EventSettles, Zenon
  <2>3. CASE \E w \in Workers : TakeExpired(w) \/ RunTaskThrows(w) \/ WorkerNotifyFails(w)
    BY <2>3, WorkerSettles, Zenon
  <2>4. CASE DrainNotifyFails
    BY <2>4, DrainFailsSettles, Zenon
  <2>5. ~\E i \in IOThreads : ExpireNotifyFails(i)
    BY Zenon DEF ExpireNotifyFails, Damaged
  <2> QED
    BY <1>2, <2>1, <2>2, <2>3, <2>4, <2>5, Zenon DEF Failure
<1>3. CASE BeginStop \/ (\E c \in Conns : Client(c)) \/ UNCHANGED vars
  BY <1>3, OutsideSettles, Zenon
<1>4. ~\E i \in IOThreads : Unwind(i)
  BY Zenon DEF Unwind, Damaged
<1> QED
  BY <1>1, <1>2, <1>3, <1>4, Zenon DEF Next

-----------------------------------------------------------------------------
(* The counters.                                                           *)

(* What the library proves of the sizes of sets, as far as the counters    *)
(* need it. The lemmas below take it as an assumption; SetSizesHold at the *)
(* end of the module discharges it.                                        *)
SetSizes ==
  /\ Cardinality({}) = 0
  /\ \A x : Cardinality({x}) = 1
  /\ \A a, b \in Int : IsFiniteSet(a .. b)
  /\ \A S : IsFiniteSet(S) => Cardinality(S) \in Nat
  /\ \A S, T : IsFiniteSet(S) /\ T \subseteq S =>
        /\ IsFiniteSet(T) /\ Cardinality(T) <= Cardinality(S)
        /\ Cardinality(T) = Cardinality(S) => T = S
  /\ \A S, x : IsFiniteSet(S) =>
        /\ x \in S => Cardinality(S \ {x}) = Cardinality(S) - 1 /\ Cardinality(S) > 0
        /\ x \notin S => Cardinality(S \cup {x}) = Cardinality(S) + 1

LEMMA Sizes ==
  ASSUME SetSizes, NEW S, IsFiniteSet(S), NEW x
  PROVE  /\ Cardinality(S) \in Nat
         /\ x \in S => Cardinality(S \ {x}) = Cardinality(S) - 1 /\ Cardinality(S) > 0
         /\ x \notin S => Cardinality(S \cup {x}) = Cardinality(S) + 1
  BY Zenon DEF SetSizes

LEMMA Subsets ==
  ASSUME SetSizes, NEW S, IsFiniteSet(S), NEW T \in SUBSET S
  PROVE  /\ IsFiniteSet(T) /\ Cardinality(T) <= Cardinality(S)
         /\ Cardinality(T) = Cardinality(S) => T = S
  BY Zenon DEF SetSizes

LEMMA Finite ==
  ASSUME SetSizes, Types
  PROVE  /\ IsFiniteSet(activeConnections_) /\ IsFiniteSet(lost) /\ IsFiniteSet(Allocated)
         /\ IsFiniteSet(Known) /\ IsFiniteSet(Busy) /\ IsFiniteSet(Processing)
         /\ Allocated \subseteq Objects /\ Allocated = activeConnections_ \cup lost \cup Stacked
<1>1. Stacked \subseteq Objects
  BY SequenceSize, Zenon DEF Stacked, Types
<1>2. Allocated = activeConnections_ \cup lost \cup Stacked
  BY Zenon DEF Allocated, Stacked, Members
<1>3. Allocated \subseteq Objects /\ activeConnections_ \subseteq Objects /\ lost \subseteq Objects
  BY <1>1, <1>2, Zenon DEF Types
<1>4. Busy \subseteq Objects /\ Known \subseteq Conns /\ Processing \subseteq IOThreads
  BY <1>3, Zenon DEF Busy, Known, Processing
<1>5. IsFiniteSet(Objects) /\ IsFiniteSet(Conns)
  BY ConstantsAssumption, Zenon
<1>6. IsFiniteSet(IOThreads)
  BY Threads, Zenon DEF IOThreads, SetSizes
<1> QED
  BY <1>2, <1>3, <1>4, <1>5, <1>6, Subsets, Zenon

LEMMA ProcessorsStep ==
  ASSUME SetSizes, Types, Processors, Counted
  PROVE  Processors'
<1>1. IsFiniteSet(Busy) /\ IsFiniteSet(Processing)
  BY Finite, Zenon
<1>2. Cardinality(Busy) \in Nat /\ Cardinality(Processing) \in Nat
  BY <1>1, Zenon DEF SetSizes
<1>3. PairOf(numActiveProcessors_, Cardinality(Busy), Cardinality(Processing))
  BY Zenon DEF Processors, PairOf
<1>4. PairOf(numActiveProcessors_', Cardinality(Busy'), Cardinality(Processing'))
  <2>1. CASE Busy' = Busy /\ Processing' = Processing /\ UNCHANGED numActiveProcessors_
    BY <1>3, <2>1, Zenon
  <2>2. CASE /\ numActiveProcessors_' = numActiveProcessors_ + 1
             /\ (\E o \in Objects \ Busy : Busy' = Busy \cup {o}) /\ Processing' = Processing
    <3>1. Cardinality(Busy') = Cardinality(Busy) + 1
      BY <1>1, <2>2, Sizes, Zenon
    <3> QED
      BY <1>2, <1>3, <2>2, <3>1, PairMoves, Zenon
  <2>3. CASE /\ numActiveProcessors_' = numActiveProcessors_ + 1 /\ Busy' = Busy
             /\ \E i \in IOThreads \ Processing : Processing' = Processing \cup {i}
    <3>1. Cardinality(Processing') = Cardinality(Processing) + 1
      BY <1>1, <2>3, Sizes, Zenon
    <3> QED
      BY <1>2, <1>3, <2>3, <3>1, PairMoves, Zenon
  <2>4. CASE /\ numActiveProcessors_' = Decremented
             /\ (\E o \in Busy : Busy' = Busy \ {o}) /\ Processing' = Processing
    <3>1. Cardinality(Busy') = Cardinality(Busy) - 1 /\ Cardinality(Busy) > 0
      BY <1>1, <2>4, Sizes, Zenon
    <3> QED
      BY <1>2, <1>3, <2>4, <3>1, PairMoves, Zenon DEF Decremented
  <2>5. CASE /\ numActiveProcessors_' = Decremented /\ Busy' = Busy
             /\ \E i \in Processing : Processing' = Processing \ {i}
    <3>1. Cardinality(Processing') = Cardinality(Processing) - 1 /\ Cardinality(Processing) > 0
      BY <1>1, <2>5, Sizes, Zenon
    <3> QED
      BY <1>2, <1>3, <2>5, <3>1, PairMoves, Zenon DEF Decremented
  <2> QED
    BY <2>1, <2>2, <2>3, <2>4, <2>5, Zenon DEF Counted
<1> QED
  BY <1>4, Zenon DEF Processors, PairOf

(* The counter of the objects grows only when a client is accepted.        *)
LEMMA KnownGrows ==
  ASSUME SetSizes, Types, Types', Known \subseteq Known'
  PROVE  Cardinality(Known) <= Cardinality(Known') /\ Cardinality(Known) \in Nat
         /\ Cardinality(Known') \in Nat
<1>1. IsFiniteSet(Known')
  <2>1. Known' \subseteq Conns /\ IsFiniteSet(Conns)
    BY ConstantsAssumption, Zenon DEF Known
  <2> QED
    BY <2>1, Subsets, Zenon
<1>2. IsFiniteSet(Known)
  BY Finite, Zenon
<1> QED
  BY <1>1, <1>2, Subsets, Zenon DEF SetSizes

(* Numbers of the stock of objects.                                        *)
LEMMA StockNumbers ==
  ASSUME SetSizes, Types, Stock
  PROVE  /\ Cardinality(activeConnections_) \in Nat /\ Cardinality(lost) \in Nat
         /\ Len(connectionStack_) \in Nat /\ Cardinality(Known) \in Nat
         /\ SumOf(numTConnections_, Cardinality(activeConnections_), Len(connectionStack_),
                  Cardinality(lost))
         /\ numTConnections_ <= Cardinality(Known) /\ numTConnections_ \in Nat
<1>1. /\ Cardinality(activeConnections_) \in Nat /\ Cardinality(lost) \in Nat
      /\ Cardinality(Known) \in Nat
  BY Finite, Zenon DEF SetSizes
<1>2. Len(connectionStack_) \in Nat
  BY SequenceSize, Zenon DEF Types
<1>3. /\ SumOf(numTConnections_, Cardinality(activeConnections_), Len(connectionStack_),
               Cardinality(lost))
      /\ numTConnections_ <= Cardinality(Known)
  BY Zenon DEF Stock, SumOf
<1> QED
  BY <1>1, <1>2, <1>3, SumMoves, Zenon

(* The bound on the counter holds as clients become known.                 *)
LEMMA StockBound ==
  ASSUME SetSizes, Types, Types', Stock, Known \subseteq Known'
  PROVE  numTConnections_ <= Cardinality(Known') /\ numTConnections_ - 1 <= Cardinality(Known')
<1>1. numTConnections_ \in Nat /\ numTConnections_ <= Cardinality(Known)
  BY StockNumbers, Zenon
<1>2. /\ Cardinality(Known) \in Nat /\ Cardinality(Known') \in Nat
      /\ Cardinality(Known) <= Cardinality(Known')
  BY KnownGrows, Zenon
<1> QED
  BY <1>1, <1>2, BoundGrows, Zenon

LEMMA AllocatedNext == Allocated' = activeConnections_' \cup lost' \cup Stacked'
  BY Zenon DEF Allocated, Stacked, Members

LEMMA StockNext ==
  ASSUME Once(connectionStack_)',
         activeConnections_' \cap (Stacked' \cup lost') = {}, Stacked' \cap lost' = {},
         numTConnections_' = Cardinality(Allocated'),
         SumOf(numTConnections_', Cardinality(activeConnections_'), Len(connectionStack_'),
               Cardinality(lost')),
         numTConnections_' <= Cardinality(Known')
  PROVE  Stock'
  BY Zenon DEF Stock, SumOf

LEMMA StockSame ==
  ASSUME SetSizes, Types, Types', Stock, UNCHANGED poolVars, Known \subseteq Known'
  PROVE  Stock'
<1>1. /\ activeConnections_' = activeConnections_ /\ connectionStack_' = connectionStack_
      /\ numTConnections_' = numTConnections_ /\ lost' = lost
  BY Zenon DEF poolVars
<1>2. Stacked' = Stacked /\ Allocated' = Allocated
  BY <1>1, Zenon DEF Stacked, Allocated
<1>3. numTConnections_' <= Cardinality(Known')
  BY <1>1, StockBound, Zenon
<1> QED
  BY <1>1, <1>2, <1>3, Zenon DEF Stock

LEMMA StockClose ==
  ASSUME SetSizes, Types, Types', Stock, NEW o \in activeConnections_, Close(o), Known \subseteq Known'
  PROVE  Stock'
<1>1. /\ activeConnections_' = activeConnections_ \ {o} /\ lost' = lost
      /\ connectionStack_' = IF StackFull THEN connectionStack_ ELSE Append(connectionStack_, o)
      /\ numTConnections_' = IF StackFull THEN numTConnections_ - 1 ELSE numTConnections_
  BY Zenon DEF Close, Uncounted
<1>2. /\ o \in Objects /\ o \notin Stacked /\ o \notin lost /\ o \in Allocated
      /\ connectionStack_ \in Seq(Objects) /\ Once(connectionStack_)
  BY Zenon DEF Stock, Types, Allocated
<1>3. Cardinality(activeConnections_') = Cardinality(activeConnections_) - 1
  BY <1>1, Finite, Sizes, Zenon
<1>6. /\ SumOf(numTConnections_ - 1, Cardinality(activeConnections_) - 1,
               Len(connectionStack_), Cardinality(lost))
      /\ SumOf(numTConnections_, Cardinality(activeConnections_) - 1,
               Len(connectionStack_) + 1, Cardinality(lost))
  BY StockNumbers, SumMoves, Zenon
<1>7. numTConnections_ <= Cardinality(Known') /\ numTConnections_ - 1 <= Cardinality(Known')
  BY StockBound, Zenon
<1>4. CASE StackFull
  <2>1. Stacked' = Stacked /\ connectionStack_' = connectionStack_ /\ Once(connectionStack_)'
    BY <1>1, <1>2, <1>4, Zenon DEF Stacked
  <2>2. Allocated' = Allocated \ {o}
    BY <1>1, <1>2, <2>1, Finite, AllocatedNext, Zenon
  <2>3. Cardinality(Allocated') = Cardinality(Allocated) - 1
    BY <1>2, <2>2, Finite, Sizes, Zenon
  <2>4. /\ activeConnections_' \cap (Stacked' \cup lost') = {} /\ Stacked' \cap lost' = {}
    BY <1>1, <2>1, Zenon DEF Stock
  <2>5. /\ numTConnections_' = Cardinality(Allocated')
        /\ SumOf(numTConnections_', Cardinality(activeConnections_'), Len(connectionStack_'),
                 Cardinality(lost'))
        /\ numTConnections_' <= Cardinality(Known')
    <3>1. numTConnections_ = Cardinality(Allocated) /\ numTConnections_' = numTConnections_ - 1
      BY <1>1, <1>4, Zenon DEF Stock
    <3> QED
      BY <1>1, <1>3, <1>6, <1>7, <2>1, <2>3, <3>1, Zenon
  <2> QED
    BY <2>1, <2>4, <2>5, StockNext, Zenon
<1>5. CASE ~StackFull
  <2>1. connectionStack_' = Append(connectionStack_, o) /\ numTConnections_' = numTConnections_
    BY <1>1, <1>5, Zenon
  <2>2. Stacked' = Stacked \cup {o} /\ Once(connectionStack_)'
    <3>1. o = None \/ o \notin Members(connectionStack_)
      BY <1>2, Zenon DEF Stacked
    <3>2. /\ Members(Append(connectionStack_, o)) = Members(connectionStack_) \cup {o}
          /\ Once(Append(connectionStack_, o))
      BY <1>2, <3>1, MembersAppend, Zenon
    <3> QED
      BY <2>1, <3>2, Zenon DEF Stacked
  <2>3. Len(connectionStack_') = Len(connectionStack_) + 1
    BY <1>2, <2>1, SequenceSize, Zenon
  <2>4. Allocated' = Allocated
    BY <1>1, <1>2, <2>2, Finite, AllocatedNext, Zenon
  <2>5. /\ activeConnections_' \cap (Stacked' \cup lost') = {} /\ Stacked' \cap lost' = {}
    BY <1>1, <1>2, <2>2, Zenon DEF Stock
  <2>6. /\ numTConnections_' = Cardinality(Allocated')
        /\ SumOf(numTConnections_', Cardinality(activeConnections_'), Len(connectionStack_'),
                 Cardinality(lost'))
        /\ numTConnections_' <= Cardinality(Known')
    <3>1. numTConnections_ = Cardinality(Allocated)
      BY Zenon DEF Stock
    <3> QED
      BY <1>1, <1>3, <1>6, <1>7, <2>1, <2>3, <2>4, <3>1, Zenon
  <2> QED
    BY <2>2, <2>5, <2>6, StockNext, Zenon
<1> QED
  BY <1>4, <1>5, Zenon

LEMMA StockStep ==
  ASSUME SetSizes, Types, Types', Stock, Stocked
  PROVE  Stock'
  BY StockSame, StockClose, Zenon DEF Stocked

LEMMA StockThrows ==
  ASSUME SetSizes, Types, Types', Stock, CreateThrows, Known \subseteq Known'
  PROVE  Stock'
<1>1. activeConnections_' = activeConnections_ /\ numTConnections_' = numTConnections_
  BY Zenon DEF CreateThrows
<1>2. CASE connectionStack_ = <<>> /\ UNCHANGED <<connectionStack_, lost>>
  BY <1>1, <1>2, StockSame, Zenon DEF poolVars
<1>3. CASE connectionStack_ # <<>> /\ connectionStack_' = Popped /\ lost' = lost \cup {Top}
  <2>1. connectionStack_ \in Seq(Objects) /\ Once(connectionStack_)
    BY Zenon DEF Types, Stock
  <2>2. /\ Len(connectionStack_') = Len(connectionStack_) - 1 /\ Once(connectionStack_)'
        /\ Top \in Stacked /\ Stacked' = Stacked \ {Top}
    BY <1>3, <2>1, StackPop, Zenon DEF Stacked, Popped, Top
  <2>3. Top \notin lost /\ Top \notin activeConnections_
    BY <2>2, Zenon DEF Stock
  <2>4. Cardinality(lost') = Cardinality(lost) + 1
    BY <1>3, <2>3, Finite, Sizes, Zenon
  <2>5. Allocated' = Allocated
    BY <1>1, <1>3, <2>2, Finite, AllocatedNext, Zenon
  <2>6. /\ activeConnections_' \cap (Stacked' \cup lost') = {} /\ Stacked' \cap lost' = {}
    BY <1>1, <1>3, <2>2, <2>3, Zenon DEF Stock
  <2>7. SumOf(numTConnections_, Cardinality(activeConnections_), Len(connectionStack_) - 1,
              Cardinality(lost) + 1)
    BY StockNumbers, SumMoves, Zenon
  <2>8. numTConnections_ = Cardinality(Allocated) /\ numTConnections_ <= Cardinality(Known')
    BY StockBound, Zenon DEF Stock
  <2>9. /\ numTConnections_' = Cardinality(Allocated')
        /\ SumOf(numTConnections_', Cardinality(activeConnections_'), Len(connectionStack_'),
                 Cardinality(lost'))
        /\ numTConnections_' <= Cardinality(Known')
    BY <1>1, <2>2, <2>4, <2>5, <2>7, <2>8, Zenon
  <2> QED
    BY <2>2, <2>6, <2>9, StockNext, Zenon
<1> QED
  BY <1>2, <1>3, Zenon DEF CreateThrows

(* A client that is being accepted has no object yet, so one is free.      *)
LEMMA FreeObject ==
  ASSUME SetSizes, Types, Labels, Stock, io[0] = "create"
  PROVE  Chosen \in Objects /\ Chosen \notin activeConnections_
         /\ (connectionStack_ = <<>> => Chosen \notin Allocated)
<1>1. CASE connectionStack_ # <<>>
  <2>1. connectionStack_ \in Seq(Objects) /\ Once(connectionStack_)
    BY Zenon DEF Types, Stock
  <2>2. Top \in Stacked /\ Top \in Objects
    BY <1>1, <2>1, StackPop, Zenon DEF Stacked, Top
  <2> QED
    BY <1>1, <2>2, Zenon DEF Chosen, Stock
<1>2. CASE connectionStack_ = <<>>
  <2>1. Known \subseteq Conns /\ Known # Conns
    BY Zenon DEF Labels, Known
  <2>2. IsFiniteSet(Conns) /\ IsFiniteSet(Objects)
    BY ConstantsAssumption, Zenon
  <2>3. Cardinality(Known) <= Cardinality(Conns) /\ Cardinality(Known) # Cardinality(Conns)
    BY <2>1, <2>2, Subsets, Zenon
  <2>7. Allocated # Objects
    <3>1. /\ Cardinality(Allocated) \in Nat /\ Cardinality(Known) \in Nat
          /\ Cardinality(Conns) \in Nat /\ Cardinality(Objects) \in Nat
      BY <2>2, Finite, Zenon DEF SetSizes
    <3>2. Cardinality(Allocated) <= Cardinality(Known) /\ Cardinality(Conns) <= Cardinality(Objects)
      BY ConstantsAssumption, Zenon DEF Stock
    <3>3. Cardinality(Allocated) # Cardinality(Objects)
      BY <2>3, <3>1, <3>2, Strictly, Zenon
    <3> QED
      BY <3>3, Zenon
  <2>4. \E x \in Objects : x \notin Allocated
    BY <2>7, Finite, Zenon
  <2>5. Chosen = CHOOSE x \in Objects : x \notin Allocated
    BY <1>2, Zenon DEF Chosen
  <2>6. Chosen \in Objects /\ Chosen \notin Allocated
    BY <2>4, <2>5, Zenon
  <2> QED
    BY <2>6, Finite, Zenon
<1> QED
  BY <1>1, <1>2, Zenon

LEMMA StockCreate ==
  ASSUME SetSizes, Types, Types', Labels, Stock, CreateConnection, Known' = Known \cup {incoming}
  PROVE  Stock'
<1>1. /\ io[0] = "create" /\ lost' = lost
      /\ activeConnections_' = activeConnections_ \cup {Chosen}
      /\ connectionStack_' = IF connectionStack_ # <<>> THEN Popped ELSE connectionStack_
      /\ numTConnections_' = IF connectionStack_ # <<>> THEN numTConnections_
                             ELSE numTConnections_ + 1
  BY Zenon DEF CreateConnection, Chosen
<1>2. /\ Chosen \in Objects /\ Chosen \notin activeConnections_
      /\ (connectionStack_ = <<>> => Chosen \notin Allocated)
  BY <1>1, FreeObject, Zenon
<1>3. Cardinality(activeConnections_') = Cardinality(activeConnections_) + 1
  BY <1>1, <1>2, Finite, Sizes, Zenon
<1>4. Cardinality(Known') = Cardinality(Known) + 1
  <2>1. incoming \notin Known
    BY <1>1, Zenon DEF Labels
  <2> QED
    BY <2>1, Finite, Sizes, Zenon
<1>5. connectionStack_ \in Seq(Objects) /\ Once(connectionStack_)
  BY Zenon DEF Types, Stock
<1>6. /\ SumOf(numTConnections_, Cardinality(activeConnections_) + 1,
               Len(connectionStack_) - 1, Cardinality(lost))
      /\ SumOf(numTConnections_ + 1, Cardinality(activeConnections_) + 1,
               Len(connectionStack_), Cardinality(lost))
  BY StockNumbers, SumMoves, Zenon
<1>7. /\ numTConnections_ <= Cardinality(Known') /\ numTConnections_ + 1 <= Cardinality(Known')
      /\ numTConnections_ = Cardinality(Allocated)
  <2>1. /\ numTConnections_ \in Nat /\ Cardinality(Known) \in Nat
        /\ numTConnections_ <= Cardinality(Known)
    BY StockNumbers, Zenon
  <2>2. numTConnections_ <= Cardinality(Known) + 1 /\ numTConnections_ + 1 <= Cardinality(Known) + 1
    BY <2>1, BoundGrows, Zenon
  <2> QED
    BY <1>4, <2>2, Zenon DEF Stock
<1>8. CASE connectionStack_ # <<>>
  <2>1. Chosen = Top /\ connectionStack_' = Popped /\ numTConnections_' = numTConnections_
    BY <1>1, <1>8, Zenon DEF Chosen
  <2>2. /\ Len(connectionStack_') = Len(connectionStack_) - 1 /\ Once(connectionStack_)'
        /\ Top \in Stacked /\ Stacked' = Stacked \ {Top}
    BY <1>5, <1>8, <2>1, StackPop, Zenon DEF Stacked, Popped, Top
  <2>3. Allocated' = Allocated
    BY <1>1, <2>1, <2>2, Finite, AllocatedNext, Zenon
  <2>4. /\ activeConnections_' \cap (Stacked' \cup lost') = {} /\ Stacked' \cap lost' = {}
    BY <1>1, <2>1, <2>2, Zenon DEF Stock
  <2>5. /\ numTConnections_' = Cardinality(Allocated')
        /\ SumOf(numTConnections_', Cardinality(activeConnections_'), Len(connectionStack_'),
                 Cardinality(lost'))
        /\ numTConnections_' <= Cardinality(Known')
    BY <1>1, <1>3, <1>4, <1>6, <1>7, <2>1, <2>2, <2>3, Zenon
  <2> QED
    BY <2>2, <2>4, <2>5, StockNext, Zenon
<1>9. CASE connectionStack_ = <<>>
  <2>1. connectionStack_' = connectionStack_ /\ numTConnections_' = numTConnections_ + 1
    BY <1>1, <1>9, Zenon
  <2>2. Stacked' = Stacked /\ Once(connectionStack_)'
    BY <1>5, <2>1, Zenon DEF Stacked
  <2>3. Allocated' = Allocated \cup {Chosen} /\ Chosen \notin Allocated
    BY <1>1, <1>2, <1>9, <2>2, Finite, AllocatedNext, Zenon
  <2>4. Cardinality(Allocated') = Cardinality(Allocated) + 1
    BY <2>3, Finite, Sizes, Zenon
  <2>5. /\ activeConnections_' \cap (Stacked' \cup lost') = {} /\ Stacked' \cap lost' = {}
    BY <1>1, <2>2, <2>3, Finite, Zenon DEF Stock
  <2>6. /\ numTConnections_' = Cardinality(Allocated')
        /\ SumOf(numTConnections_', Cardinality(activeConnections_'), Len(connectionStack_'),
                 Cardinality(lost'))
        /\ numTConnections_' <= Cardinality(Known')
    BY <1>1, <1>3, <1>4, <1>6, <1>7, <2>1, <2>4, Zenon
  <2> QED
    BY <2>2, <2>5, <2>6, StockNext, Zenon
<1> QED
  BY <1>8, <1>9, Zenon
-----------------------------------------------------------------------------
(* The invariant.                                                          *)

LEMMA InitInv ==
  ASSUME SetSizes, Init
  PROVE  ServerInv
<1>1. Types /\ Placed /\ Flow
  BY InitTypes, InitPlaced, Zenon
<1>2. /\ activeConnections_ = {} /\ lost = {} /\ numTConnections_ = 0
      /\ numActiveProcessors_ = 0
  BY Zenon DEF Init
<1>3. Cardinality({}) = 0 /\ 0 = 0 + 0 + 0 /\ 0 = 0 + 0 /\ 0 <= 0
  BY Zeros, Zenon DEF SetSizes
<1>4. Stock
  BY <1>2, <1>3, InitNowhere, Zenon DEF Stock
<1>5. Processors
  BY <1>2, <1>3, InitNowhere, Zenon DEF Processors
<1> QED
  BY <1>1, <1>4, <1>5, Zenon DEF ServerInv

LEMMA CreateInv ==
  ASSUME SetSizes, ServerInv, CreateConnection \/ CreateThrows
  PROVE  ServerInv'
<1>1. Types /\ Placed /\ Flow /\ Stock /\ Processors /\ Labels /\ Once(connectionStack_)
  BY Zenon DEF ServerInv, Flow, Stock
<1>2. Placed' /\ Flow' /\ Counted /\ Types' /\ Stock'
  <2>1. CASE CreateConnection
    <3>1. io[0] = "create"
      BY <2>1, Zenon DEF CreateConnection
    <3>2. PICK o \in Objects : o = Chosen /\ o \notin activeConnections_
      BY <1>1, <3>1, FreeObject, Zenon
    <3>3. Placed' /\ Flow' /\ Counted
      BY <1>1, <2>1, <3>2, CreateStep, Zenon
    <3>4. Types' /\ Known' = Known \cup {incoming}
      BY <1>1, <2>1, <3>2, CreateTypes, Zenon
    <3> QED
      BY <1>1, <2>1, <3>3, <3>4, StockCreate, Zenon
  <2>2. CASE CreateThrows
    <3>1. Placed' /\ Flow' /\ Counted
      BY <1>1, <2>2, GiveUpSteps, Zenon
    <3>2. Types' /\ Known \subseteq Known'
      BY <1>1, <2>2, CreateThrowsTypes, Zenon
    <3> QED
      BY <1>1, <2>2, <3>1, <3>2, StockThrows, Zenon
  <2> QED
    BY <2>1, <2>2, Zenon
<1>3. Processors'
  BY <1>1, <1>2, ProcessorsStep, Zenon
<1> QED
  BY <1>2, <1>3, Zenon DEF ServerInv

(* Every other step of the server and of its clients keeps the invariant.  *)
LEMMA StepInv ==
  ASSUME SetSizes, ServerInv, [Next]_vars, ~Damaged'
  PROVE  ServerInv'
<1>1. CASE CreateConnection \/ CreateThrows
  BY <1>1, CreateInv, Zenon
<1>2. CASE ~CreateConnection /\ ~CreateThrows
  <2>1. Types /\ Placed /\ Flow /\ Stock /\ Processors
    BY Zenon DEF ServerInv
  <2>2. Types' /\ Stocked /\ Placed' /\ Flow' /\ Counted
    BY <1>2, <2>1, Settles, Zenon DEF Settled
  <2>3. Stock' /\ Processors'
    BY <2>1, <2>2, StockStep, ProcessorsStep, Zenon
  <2> QED
    BY <2>2, <2>3, Zenon DEF ServerInv
<1> QED
  BY <1>1, <1>2, Zenon

-----------------------------------------------------------------------------
(* The exception of forceClose() in add().                                 *)

(* The task of a closed connection is still the oldest.  The connections   *)
(* of the handlers that unwind are open, and counted as busy until they    *)
(* are closed without a decrement.                                         *)
Leftover == Head(tasks_).connection
Unwound == numActiveProcessors_ = Cardinality(Busy) + Cardinality(Processing) + 1
DamagedInv ==
    /\ Types /\ Stock /\ Owned /\ Outputs
    /\ tasks_ # <<>> /\ Leftover \notin activeConnections_
    /\ PlacedIn(activeConnections_ \cup {Leftover})
    /\ broken = "add" =>
          Processors /\ \A i \in IOThreads : io[i] = "unwind" => InPool(hand[i])
    /\ broken = "unwound" => Unwound

LEMMA CloseOutputs ==
  ASSUME Types, Outputs, NEW o \in Objects, activeConnections_' = activeConnections_ \ {o},
         \A p \in Objects \ {o} : tc'[p] = tc[p]
  PROVE  Outputs'
<1>1. activeConnections_ \subseteq Objects
  BY Zenon DEF Types
<1> QED
  BY <1>1, Zenon DEF Outputs

(* What close() does to a connection, whoever calls it.                    *)
LEMMA CloseAlone ==
  ASSUME SetSizes, Types, Types', Stock, Owned, Outputs, NEW o \in activeConnections_, Close(o)
  PROVE  /\ Stock' /\ Owned' /\ Outputs' /\ Busy' = Busy \ {o} /\ Evented' = Evented \ {o}
         /\ activeConnections_' = activeConnections_ \ {o}
         /\ \A p \in Objects \ {o} : tc'[p] = tc[p]
<1>1. o \in Objects /\ tc[o].tSocket_ \in Known
  BY Zenon DEF Types, Owned
<1>2. /\ \A p \in Objects \ {o} : tc'[p] = tc[p]
      /\ Evented' = Evented \ {o} /\ activeConnections_' = activeConnections_ \ {o}
      /\ Known' = Known
  BY <1>1, CloseEffect, Zenon
<1>3. Stock'
  BY <1>2, StockClose, Zenon
<1>4. Owned' /\ Outputs' /\ Busy' = Busy \ {o}
  BY <1>1, <1>2, CloseOwned, CloseOutputs, BusyClose, Zenon
<1> QED
  BY <1>2, <1>3, <1>4

LEMMA ExpireFailsTypes ==
  ASSUME ServerInv, NEW i \in IOThreads, ExpireNotifyFails(i)
  PROVE  /\ Types' /\ tasks_ # <<>> /\ Leftover \in Queued /\ Leftover \in Busy
         /\ Leftover \in Objects /\ io[i] \in Holding
<1>1. Types /\ Placed /\ Flow
  BY Zenon DEF ServerInv
<1>2. /\ io[i] = "expire" /\ Close(Leftover) /\ IOGoto(i, "unwind") /\ hand' = hand
      /\ UNCHANGED <<configVars, nextIOThread_, pipe, tasks_, workerVars>>
  BY Zenon DEF ExpireNotifyFails, Leftover, acceptVars
<1>3. tasks_ # <<>> /\ io[i] \in Holding
  BY <1>1, <1>2, Zenon DEF Flow, Labels, Holding
<1>4. Leftover \in Queued /\ Leftover \in Objects
  BY <1>1, <1>3, QueueHead, Zenon DEF Placed, Leftover
<1>5. Leftover \in activeConnections_ /\ Leftover \in Busy
  BY <1>1, <1>4, Places, Zenon DEF Flow, Stages, Busy
<1>6. ConnTypes'
  BY <1>1, <1>2, <1>5, CloseTypes, Zenon DEF Flow
<1>7. ThreadTypes' /\ QueueTypes'
  BY <1>1, <1>2, SameTypes, GotoTypes, LabelTypes, Zenon
<1> QED
  BY <1>3, <1>4, <1>5, <1>6, <1>7, TypesPartsNext, Zenon

LEMMA ExpireFails ==
  ASSUME SetSizes, ServerInv, NEW i \in IOThreads, ExpireNotifyFails(i)
  PROVE  DamagedInv'
<1>0. PICK h : h = Leftover
  OBVIOUS
<1>1. Types /\ Placed /\ Flow /\ Stock /\ Processors /\ Types'
  BY ExpireFailsTypes, Zenon DEF ServerInv
<1>2. /\ io[i] = "expire" /\ Close(h) /\ IOGoto(i, "unwind") /\ hand' = hand
      /\ UNCHANGED <<pipe, tasks_, workerVars>> /\ broken' = "add"
      /\ numActiveProcessors_' = Decremented
  BY <1>0, Zenon DEF ExpireNotifyFails, Leftover
<1>3. h \in Queued /\ h \in Busy /\ h \in activeConnections_ /\ h \in Objects /\ tasks_ # <<>>
  BY <1>0, ExpireFailsTypes, Zenon DEF Busy
<1>4. /\ Stock' /\ Owned' /\ Outputs' /\ Busy' = Busy \ {h} /\ Evented' = Evented \ {h}
      /\ activeConnections_' = activeConnections_ \ {h}
      /\ \A p \in Objects \ {h} : tc'[p] = tc[p]
  BY <1>1, <1>2, <1>3, CloseAlone, Zenon DEF Flow
<1>5. io'[i] = "unwind" /\ \A j \in IOThreads : j # i => io'[j] = io[j]
  BY <1>1, <1>2, IoSet, Zenon
<1>6. Leftover' = h /\ tasks_' # <<>>
  BY <1>0, <1>2, <1>3, Zenon DEF Leftover
<1>7. \A j \in IOThreads : /\ io[j] \in Holding <=> io'[j] \in Holding
                           /\ io[j] \in Holding => hand'[j] = hand[j]
  <2>1. "expire" \in Holding /\ "unwind" \in Holding
    BY Zenon DEF Holding
  <2> QED
    BY <1>2, <1>5, <2>1, Zenon
<1>8. PlacedIn(activeConnections_ \cup {Leftover})'
  <2>1. h \notin Evented
    BY <1>1, <1>3, InOnePlace, Zenon
  <2>2. Evented' = Evented /\ activeConnections_' \cup {h} = activeConnections_
    BY <1>3, <1>4, <2>1, Zenon
  <2>3. Held' = Held /\ HeldOnce'
    BY <1>1, <1>7, HeldSame, Zenon DEF Placed
  <2>4. /\ Queued' = Queued /\ Worked' = Worked /\ Piped' = Piped
        /\ OnceEach(tasks_)' /\ WorkedOnce' /\ PipedOnce'
    BY <1>1, <1>2, Frames, Zenon DEF Placed
  <2>5. ShareOut(activeConnections_, Evented, Held, Queued, Worked, Piped)
    BY <1>1, Zenon DEF Placed, Apart
  <2> QED
    BY <1>6, <2>2, <2>3, <2>4, <2>5, Zenon DEF PlacedIn
<1>9. Processors'
  <2>1. Processing' = Processing
    <3>1. \A j \in IOThreads : io'[j] = "process" <=> io[j] = "process"
      BY <1>2, <1>5, Zenon
    <3> QED
      BY <3>1, ProcessingSame, Zenon
  <2>2. Counted
    BY <1>2, <1>3, <1>4, <2>1, Zenon DEF Counted
  <2> QED
    BY <1>1, <2>2, ProcessorsStep, Zenon
<1>10. \A j \in IOThreads : io'[j] = "unwind" => InPool(hand[j])'
  <2> SUFFICES ASSUME NEW j \in IOThreads, io'[j] = "unwind"
               PROVE  InPool(hand[j])'
    BY Zenon
  <2>1. io[j] \in Holding /\ io[j] # "fresh"
    BY <1>2, <1>5, Zenon DEF Holding
  <2>2. InPool(hand[j]) /\ hand[j] \in Held /\ hand[j] \in Objects
    BY <1>1, <2>1, Places, Zenon DEF Flow, Stages, Held, Types
  <2>3. hand[j] # h
    BY <1>1, <1>3, <2>2, InOnePlace, Zenon
  <2> QED
    BY <1>2, <1>4, <2>2, <2>3, Zenon DEF InPool
<1>11. broken' # "unwound" /\ h \notin activeConnections_'
  BY <1>2, <1>4, Zenon
<1> QED
  BY <1>1, <1>4, <1>6, <1>8, <1>9, <1>10, <1>11, Zenon DEF DamagedInv

LEMMA UnwindStep ==
  ASSUME SetSizes, DamagedInv, broken = "add", NEW i \in IOThreads, Unwind(i)
  PROVE  DamagedInv'
<1>0. PICK o, h : o = hand[i] /\ h = Leftover
  OBVIOUS
<1>1. /\ Types /\ Stock /\ Owned /\ Outputs /\ tasks_ # <<>> /\ h \notin activeConnections_
      /\ PlacedIn(activeConnections_ \cup {h}) /\ Processors
      /\ \A j \in IOThreads : io[j] = "unwind" => InPool(hand[j])
  BY <1>0, Zenon DEF DamagedInv
<1>2. /\ io[i] = "unwind" /\ Close(o) /\ IOGoto(i, "loop") /\ hand' = hand
      /\ UNCHANGED <<configVars, nextIOThread_, pipe, tasks_, workerVars, numActiveProcessors_>>
      /\ broken' = "unwound"
  BY <1>0, Zenon DEF Unwind, taskVars, acceptVars
<1>3. io[i] \in Holding /\ "loop" \notin Holding
  BY <1>2, Zenon DEF Holding
<1>4. Held' = Held \ {o} /\ HeldOnce' /\ o \in Held
  BY <1>0, <1>1, <1>2, <1>3, Release, Zenon DEF PlacedIn, IOGoto
<1>5. h \in Queued
  BY <1>0, <1>1, QueueHead, Zenon DEF PlacedIn, Leftover
<1>6. o \in activeConnections_ /\ o \in Busy /\ o # h
  BY <1>0, <1>1, <1>2, <1>4, <1>5, Zenon DEF PlacedIn, ShareOut, Busy
<1>7. Types'
  <2>1. ConnTypes'
    BY <1>1, <1>2, <1>6, CloseTypes, Zenon
  <2>2. ThreadTypes' /\ QueueTypes'
    BY <1>1, <1>2, SameTypes, GotoTypes, LabelTypes, Zenon
  <2> QED
    BY <2>1, <2>2, TypesPartsNext, Zenon
<1>8. /\ Stock' /\ Owned' /\ Outputs' /\ Busy' = Busy \ {o} /\ Evented' = Evented \ {o}
      /\ activeConnections_' = activeConnections_ \ {o}
  BY <1>1, <1>2, <1>6, <1>7, CloseAlone, Zenon
<1>9. Leftover' = h /\ tasks_' # <<>> /\ h \notin activeConnections_'
  BY <1>0, <1>1, <1>2, <1>8, Zenon DEF Leftover
<1>10. PlacedIn(activeConnections_ \cup {Leftover})'
  <2>1. /\ Queued' = Queued /\ Worked' = Worked /\ Piped' = Piped
        /\ OnceEach(tasks_)' /\ WorkedOnce' /\ PipedOnce'
    BY <1>1, <1>2, Frames, Zenon DEF PlacedIn
  <2>2. ShareOut((activeConnections_ \ {o}) \cup {h}, Evented \ {o}, Held \ {o}, Queued, Worked, Piped)
    BY <1>1, <1>4, <1>6, Zenon DEF PlacedIn, ShareOut
  <2> QED
    BY <1>4, <1>8, <1>9, <2>1, <2>2, Zenon DEF PlacedIn
<1>11. Unwound'
  <2>1. Processing' = Processing
    <3>1. io'[i] = "loop" /\ \A j \in IOThreads : j # i => io'[j] = io[j]
      BY <1>1, <1>2, IoSet, Zenon
    <3>2. \A j \in IOThreads : io'[j] = "process" <=> io[j] = "process"
      BY <1>2, <3>1, Zenon
    <3> QED
      BY <3>2, ProcessingSame, Zenon
  <2>2. /\ Cardinality(Busy) \in Nat /\ Cardinality(Processing) \in Nat
        /\ Cardinality(Busy') = Cardinality(Busy) - 1
    BY <1>1, <1>6, <1>8, Finite, Sizes, Zenon
  <2>3. ASSUME NEW n, NEW b \in Nat, NEW p \in Nat, n = b + p PROVE n = b - 1 + p + 1
    BY <2>3
  <2>4. numActiveProcessors_ = Cardinality(Busy) + Cardinality(Processing)
    BY <1>1, Zenon DEF Processors
  <2>5. numActiveProcessors_ = Cardinality(Busy) - 1 + Cardinality(Processing) + 1
    BY <2>2, <2>3, <2>4, Zenon
  <2> QED
    BY <1>2, <2>1, <2>2, <2>5, Zenon DEF Unwound
<1> QED
  BY <1>2, <1>7, <1>8, <1>9, <1>10, <1>11, Zenon DEF DamagedInv

LEMMA DamagedStutters ==
  ASSUME SetSizes, DamagedInv, UNCHANGED vars
  PROVE  DamagedInv'
<1>1. /\ UNCHANGED <<tc, poolVars, peer, configVars, nextIOThread_, pipe, tasks_, ioVars, workerVars>>
      /\ UNCHANGED <<numActiveProcessors_, broken, io, hand, activeConnections_>>
  BY Zenon DEF vars, poolVars, acceptVars, taskVars, ioVars, clientVars, stopVars
<1>2. Types /\ Types'
  <2>1. Types
    BY Zenon DEF DamagedInv
  <2> QED
    BY <1>1, <2>1, SameTypes, TypesPartsNext, Zenon
<1>3. Known' = Known /\ Busy' = Busy /\ Processing' = Processing
  BY <1>1, Zenon DEF Known, Busy, InPool, Processing
<1>4. Stock' /\ Owned' /\ Outputs'
  <2>1. Stock /\ Owned /\ Outputs
    BY Zenon DEF DamagedInv
  <2>2. Stock'
    BY <1>1, <1>2, <1>3, <2>1, StockSame, Zenon
  <2> QED
    BY <1>1, <1>3, <2>1, <2>2, Zenon DEF Owned, Outputs
<1>5. PlacedIn(activeConnections_ \cup {Leftover})' /\ Leftover' = Leftover
  <2>1. PlacedIn(activeConnections_ \cup {Leftover})
    BY Zenon DEF DamagedInv
  <2>2. /\ Evented' = Evented /\ Held' = Held /\ Queued' = Queued /\ Worked' = Worked
        /\ Piped' = Piped /\ HeldOnce' /\ OnceEach(tasks_)' /\ WorkedOnce' /\ PipedOnce'
    BY <1>1, <2>1, Frames, Zenon DEF PlacedIn
  <2>3. Leftover' = Leftover
    BY <1>1, Zenon DEF Leftover
  <2> QED
    BY <1>1, <2>1, <2>2, <2>3, Zenon DEF PlacedIn
<1>6. /\ broken' = "add" =>
             Processors' /\ \A i \in IOThreads : io'[i] = "unwind" => InPool(hand[i])'
      /\ broken' = "unwound" => Unwound'
  BY <1>1, <1>3, Zenon DEF DamagedInv, Processors, Unwound, InPool
<1> QED
  BY <1>1, <1>2, <1>4, <1>5, <1>6, Zenon DEF DamagedInv

(* No other step throws it.                                                *)
LEMMA OnlyExpireFails ==
  ASSUME Next, ~Damaged, Damaged'
  PROVE  \E i \in IOThreads : ExpireNotifyFails(i)
<1>1. broken' # broken /\ broken' \notin {"worker", "drain"} /\ broken # "add"
  BY Zenon DEF Damaged
<1>2. ~BeginStop /\ ~\E c \in Conns : Client(c)
  BY <1>1, Zenon DEF BeginStop, Client, stopVars
<1>3. ~System
  <2>1. ASSUME NEW i \in IOThreads, NEW o \in Objects PROVE ~ConnectionEvent(i, o)
    BY <1>1, Zenon DEF ConnectionEvent, ReadFrameSize, ReadRequest, SendResult, SeesDisconnect,
                       stopVars
  <2>2. ASSUME NEW i \in IOThreads PROVE ~PipeEvent(i)
    BY <1>1, Zenon DEF PipeEvent, ReceiveStop, ReceiveFresh, ReceiveResult, ReceiveClose, stopVars
  <2>3. ASSUME NEW i \in IOThreads PROVE ~Handler(i)
    BY <1>1, Zenon DEF Handler, Register, Process, AddTask, AddBlocks, ExpireNotify,
                       NothingToDrain, DrainTask, DrainNotify, CreateConnection, FreshNotify,
                       FreshNotifyFails, stopVars
  <2>4. ~ListenEvent /\ ~StopThread
    BY <1>1, Zenon DEF ListenEvent, Accept, DropOnAccept, BeginDrain, StopThread, stopVars
  <2>5. ASSUME NEW w \in Workers PROVE ~WorkerStep(w)
    BY <1>1, Zenon DEF WorkerStep, Take, RunTask, WorkerNotify, stopVars
  <2> QED
    BY <2>1, <2>2, <2>3, <2>4, <2>5, Zenon DEF System
<1>4. Failure
  BY <1>1, <1>2, <1>3, Zenon DEF Next
<1>5. ~CreateThrows /\ ~DrainNotifyFails
  BY <1>1, Zenon DEF CreateThrows, DrainNotifyFails, stopVars
<1>6. ASSUME NEW i \in IOThreads PROVE ~ProcessThrows(i) /\ ~AddRefused(i) /\ ~AddExpires(i)
  BY <1>1, Zenon DEF ProcessThrows, AddRefused, AddExpires, stopVars
<1>7. ASSUME NEW i \in IOThreads, NEW o \in Objects PROVE ~RefusesFrame(i, o)
  BY <1>1, Zenon DEF RefusesFrame, stopVars
<1>8. ASSUME NEW w \in Workers PROVE ~TakeExpired(w) /\ ~RunTaskThrows(w) /\ ~WorkerNotifyFails(w)
  BY <1>1, Zenon DEF TakeExpired, RunTaskThrows, WorkerNotifyFails, stopVars
<1> QED
  BY <1>4, <1>5, <1>6, <1>7, <1>8, Zenon DEF Failure

(* The server's invariant, with or without that exception.                 *)
WholeInv == IF Damaged THEN DamagedInv ELSE ServerInv

LEMMA WholeStep ==
  ASSUME SetSizes, WholeInv, [Next]_vars
  PROVE  WholeInv'
<1>1. CASE ~Damaged /\ ~Damaged'
  BY <1>1, StepInv, Zenon DEF WholeInv
<1>2. CASE ~Damaged /\ Damaged'
  <2>1. ~UNCHANGED vars
    BY <1>2, Zenon DEF vars, stopVars, Damaged
  <2>2. PICK i \in IOThreads : ExpireNotifyFails(i)
    BY <1>2, <2>1, OnlyExpireFails, Zenon
  <2>3. DamagedInv'
    BY <1>2, <2>2, ExpireFails, Zenon DEF WholeInv
  <2> QED
    BY <1>2, <2>3, Zenon DEF WholeInv
<1>3. CASE Damaged
  <2>1. CASE UNCHANGED vars
    <3>1. Damaged'
      BY <1>3, <2>1, Zenon DEF vars, stopVars, Damaged
    <3> QED
      BY <1>3, <2>1, <3>1, DamagedStutters, Zenon DEF WholeInv
  <2>2. CASE Next
    <3>1. PICK i \in IOThreads : broken = "add" /\ Unwind(i)
      BY <1>3, <2>2, Zenon DEF Next, Damaged
    <3>2. Damaged'
      BY <3>1, Zenon DEF Unwind, Damaged
    <3> QED
      BY <1>3, <3>1, <3>2, UnwindStep, Zenon DEF WholeInv
  <2> QED
    BY <2>1, <2>2
<1> QED
  BY <1>1, <1>2, <1>3

(* What OneHolder counts.                                                  *)
LEMMA HoldersCounted ==
  ASSUME SetSizes, WholeInv
  PROVE  OneHolder
<1> DEFINE all == IF Damaged THEN activeConnections_ \cup {Leftover} ELSE activeConnections_
<1>1. PlacedIn(all)
  BY Zenon DEF WholeInv, DamagedInv, ServerInv, Placed, Apart, PlacedIn
<1>2. ASSUME NEW o PROVE o \in all <=> \/ o \in activeConnections_
                                       \/ broken \in {"add", "unwound"} /\ o = Head(tasks_).connection
  BY Zenon DEF Damaged, Leftover
<1> HIDE DEF all
<1> SUFFICES ASSUME NEW o \in Objects
             PROVE  Cardinality(Holders(o)) = IF o \in all THEN 1 ELSE 0
  BY <1>2, Zenon DEF OneHolder
<1>3. IF o \in all THEN \E x : Holders(o) = {x} ELSE Holders(o) = {}
  BY <1>1, HeldByOne, Zenon
<1> QED
  BY <1>3, Zenon DEF SetSizes

LEMMA InvCounters ==
  ASSUME SetSizes, WholeInv
  PROVE  CountersExact
<1>1. Types /\ Stock
  BY Zenon DEF WholeInv, DamagedInv, ServerInv
<1>2. Cardinality(Busy) \in Nat /\ Cardinality(Processing) \in Nat
  BY <1>1, Finite, Zenon DEF SetSizes
<1>3. numActiveProcessors_ = Cardinality(Busy) + Cardinality(Processing)
                               + IF broken = "unwound" THEN 1 ELSE 0
  <2>1. CASE broken = "unwound"
    <3>1. Unwound
      BY <2>1, Zenon DEF WholeInv, DamagedInv, Damaged
    <3> QED
      BY <2>1, <3>1, Zenon DEF Unwound
  <2>2. CASE broken # "unwound"
    <3>1. Processors
      BY <2>2, Zenon DEF WholeInv, DamagedInv, ServerInv, Damaged
    <3>2. ASSUME NEW b \in Nat, NEW p \in Nat PROVE b + p = b + p + 0
      OBVIOUS
    <3> QED
      BY <1>2, <2>2, <3>1, <3>2, Zenon DEF Processors
  <2> QED
    BY <2>1, <2>2
<1> QED
  BY <1>1, <1>3, Zenon DEF Stock, CountersExact, Busy, InPool, Processing

LEMMA InvReplies == WholeInv => OwnReply
  BY Zenon DEF WholeInv, DamagedInv, ServerInv, Flow, Outputs, OwnReply

-----------------------------------------------------------------------------
INSTANCE FiniteSetTheorems

LEMMA SetSizesHold == SetSizes
<1>1. Cardinality({}) = 0
  BY FS_EmptySet, Zenon
<1>2. ASSUME NEW x PROVE Cardinality({x}) = 1
  BY FS_Singleton, Zenon
<1>3. ASSUME NEW a \in Int, NEW b \in Int PROVE IsFiniteSet(a .. b)
  BY FS_Interval, Zenon
<1>4. ASSUME NEW S, IsFiniteSet(S) PROVE Cardinality(S) \in Nat
  BY <1>4, FS_CardinalityType, Zenon
<1>5. ASSUME NEW S, NEW T, IsFiniteSet(S), T \subseteq S
      PROVE  /\ IsFiniteSet(T) /\ Cardinality(T) <= Cardinality(S)
             /\ Cardinality(T) = Cardinality(S) => T = S
  BY <1>5, FS_Subset, Zenon
<1>6. ASSUME NEW S, NEW x, IsFiniteSet(S)
      PROVE  /\ x \in S => Cardinality(S \ {x}) = Cardinality(S) - 1 /\ Cardinality(S) > 0
             /\ x \notin S => Cardinality(S \cup {x}) = Cardinality(S) + 1
  <2>1. x \in S => Cardinality(S \ {x}) = Cardinality(S) - 1
    BY <1>6, FS_RemoveElement, Zenon
  <2>2. x \notin S => Cardinality(S \cup {x}) = Cardinality(S) + 1
    BY <1>6, FS_AddElement, Zenon
  <2>3. x \in S => Cardinality(S) # 0
    BY <1>6, FS_EmptySet, Zenon
  <2>4. x \in S => Cardinality(S) > 0
    BY <1>4, <1>6, <2>3, Positive, Zenon
  <2> QED
    BY <2>1, <2>2, <2>4, Zenon
<1> QED
  BY <1>1, <1>2, <1>3, <1>4, <1>5, <1>6, Zenon DEF SetSizes

(* The server's invariant: every active TConnection is in exactly one of   *)
(* an event, a handler, the task queue, a worker or a notification pipe,   *)
(* in the state that place calls for; every counted object is active,      *)
(* stacked or lost; and a processor is counted for each call under way.    *)
(* Once a forceClose() in add() has thrown, the oldest task is besides     *)
(* that of a connection which is closed, and when the exception has been   *)
(* caught one processor too many is counted.                               *)
THEOREM ServerInvariant == Spec => []WholeInv
<1>1. Init => WholeInv
  <2>1. Init => ServerInv
    BY SetSizesHold, InitInv, Zenon
  <2>2. Init => ~Damaged
    BY Zenon DEF Init, Damaged
  <2> QED
    BY <2>1, <2>2, Zenon DEF WholeInv
<1>2. WholeInv /\ [Next]_vars => WholeInv'
  BY SetSizesHold, WholeStep, Zenon
<1> QED
  BY <1>1, <1>2, PTL DEF Spec

(* A TConnection is handled by one thread at a time: no two of libevent's  *)
(* registrations, the handlers, the task queue, the workers and the        *)
(* notification pipes refer to it, and none does once it is returned,      *)
(* whichever of close(), forceClose(), a refused task or a failed          *)
(* notification ended it; but for the one whose task stays queued when     *)
(* the notification of forceClose() fails in add().                        *)
THEOREM ObjectsHaveOneHolder == Spec => []OneHolder
<1>1. WholeInv => OneHolder
  BY SetSizesHold, HoldersCounted, Zenon
<1> QED
  BY <1>1, ServerInvariant, PTL

(* numActiveProcessors_ and numTConnections_, which serverOverloaded()     *)
(* compares with the limits, are the number of calls under way and of      *)
(* connection objects at all times; one processor more is counted after    *)
(* the exception of a forceClose() in add() was caught.                    *)
THEOREM ServerCountersExact == Spec => []CountersExact
<1>1. WholeInv => CountersExact
  BY SetSizesHold, InvCounters, Zenon
<1> QED
  BY <1>1, ServerInvariant, PTL

(* What transition() sends on a connection is the result of that           *)
(* connection's client, though objects and their buffers are used again.   *)
THEOREM ResultsAreOwn == Spec => []OwnReply
  BY InvReplies, ServerInvariant, PTL
=============================================================================
