---------------------- MODULE NonblockingServerProofs ----------------------
(***************************************************************************)
(* Safety of TNonblockingServer for any number of clients, IO threads and  *)
(* workers and any limits: a connection object is in one pair of hands,    *)
(* the server's counters are exact, and a client is sent the result of its *)
(* own request.                                                            *)
(***************************************************************************)
EXTENDS NonblockingServer, TLAPS

-----------------------------------------------------------------------------
(* The types of the state.                                                 *)

IOLabels == {"off", "loop", "process", "drain", "create", "done"} \cup Holding
Tasks == [connection : Objects, socket : Conns]
Connection == [appState_ : {"INIT", "READ_FRAME_SIZE", "READ_REQUEST", "WAIT_TASK",
                            "SEND_RESULT", "CLOSE_CONNECTION"},
               socketState_ : {"RECV_FRAMING", "RECV", "SEND"},
               eventFlags_ : {"none", "read", "write"},
               ioThread_ : IOThreads \cup {None},
               tSocket_ : Conns \cup {None}, output : Conns \cup {None}]

Types ==
    /\ pendingTaskCountMax_ \in Nat
    /\ tc \in [Objects -> Connection]
    /\ activeConnections_ \subseteq Objects /\ lost \subseteq Objects
    /\ connectionStack_ \in Seq(Objects)
    /\ nextIOThread_ \in IOThreads
    /\ pipe \in [IOThreads -> Seq(Objects \cup {None})]
    /\ tasks_ \in Seq(Tasks)
    /\ io \in [IOThreads -> IOLabels] /\ hand \in [IOThreads -> Objects \cup {None}]
    /\ worker \in [Workers -> {"idle", "run", "notify"}]
    /\ job \in [Workers -> Tasks \cup {None}]
    /\ DOMAIN peer = Conns

-----------------------------------------------------------------------------
(* Where an active connection is.                                          *)

(* The objects in a pipe or on the stack, and those the tasks are for.     *)
Members(s) == {s[k] : k \in DOMAIN s}
Once(s) == \A k, l \in DOMAIN s : s[k] = s[l] /\ s[k] # None => k = l
Connections(s) == {s[k].connection : k \in DOMAIN s}
OnceEach(s) == \A k, l \in DOMAIN s : s[k].connection = s[l].connection => k = l

Evented == {o \in Objects : tc[o].eventFlags_ # "none"}
Held == {hand[i] : i \in {j \in IOThreads : io[j] \in Holding}}
Queued == Connections(tasks_)
Worked == {job[w].connection : w \in {v \in Workers : worker[v] # "idle"}}
Piped == {o \in Objects : \E i \in IOThreads : o \in Members(pipe[i])}

HeldOnce == \A i, j \in IOThreads :
    io[i] \in Holding /\ io[j] \in Holding /\ hand[i] = hand[j] => i = j
WorkedOnce == \A v, w \in Workers :
    worker[v] # "idle" /\ worker[w] # "idle" /\ job[v].connection = job[w].connection => v = w
PipedOnce ==
    /\ \A i \in IOThreads : Once(pipe[i])
    /\ \A i, j \in IOThreads : \A o \in Objects :
          o \in Members(pipe[i]) /\ o \in Members(pipe[j]) => i = j

(* The five kinds of places share out the active connections.              *)
ShareOut(all, e, h, q, w, p) ==
    /\ all = e \cup h \cup q \cup w \cup p
    /\ e \cap (h \cup q \cup w \cup p) = {} /\ h \cap (q \cup w \cup p) = {}
    /\ q \cap (w \cup p) = {} /\ w \cap p = {}
Apart == ShareOut(activeConnections_, Evented, Held, Queued, Worked, Piped)

Placed == Apart /\ HeldOnce /\ OnceEach(tasks_) /\ WorkedOnce /\ PipedOnce

-----------------------------------------------------------------------------
(* What is known of a connection in each place.                            *)

(* Its request is with the pool, or is being given up.                     *)
InPool(o) == tc[o].appState_ \in {"WAIT_TASK", "CLOSE_CONNECTION"}

Known == {c \in Conns : peer[c] \notin {"away", "backlog"}}

(* It has an IO thread and a client.                                       *)
Owned ==
    \A o \in activeConnections_ : tc[o].ioThread_ \in IOThreads /\ tc[o].tSocket_ \in Known

(* Its state tells whether it is with the pool.                            *)
Stages ==
    /\ \A o \in Evented : ~InPool(o)
    /\ \A o \in Queued \cup Worked : InPool(o)
    /\ \A i \in IOThreads : io[i] \in Holding => (InPool(hand[i]) <=> io[i] # "fresh")

(* A processor called inline keeps its IO thread from the next event.      *)
Inline ==
    \A i \in IOThreads : io[i] = "process" =>
        hand[i] \in Evented /\ tc[hand[i]].ioThread_ = i /\ tc[hand[i]].output = None

(* The steps of a handler.                                                 *)
Labels ==
    /\ \A i \in IOThreads : io[i] = "expire" => mutex_ = i /\ tasks_ # <<>>
    /\ \A w \in Workers : worker[w] # "idle" => job[w] \in Tasks
    /\ \A i \in IOThreads : io[i] \in {"drain", "drained", "create", "fresh"} => i = 0
    /\ io[0] \in {"drain", "drained", "create"} => incoming \in Conns \ Known

(* A task is for the client of its connection, and a result for no other.  *)
TaskResults ==
    /\ \A k \in DOMAIN tasks_ : tasks_[k].socket = tc[tasks_[k].connection].tSocket_
    /\ \A w \in Workers : worker[w] # "idle" => job[w].socket = tc[job[w].connection].tSocket_
Outputs ==
    \A o \in activeConnections_ :
        /\ tc[o].appState_ = "WAIT_TASK" => tc[o].output \in {None, tc[o].tSocket_}
        /\ tc[o].appState_ = "SEND_RESULT" => tc[o].output = tc[o].tSocket_

Flow == Owned /\ Stages /\ Inline /\ Labels /\ TaskResults /\ Outputs

(* The objects that exist, each in one place, and their number.            *)
Stacked == Members(connectionStack_)
Stock ==
    /\ Once(connectionStack_)
    /\ activeConnections_ \cap (Stacked \cup lost) = {} /\ Stacked \cap lost = {}
    /\ numTConnections_ = Cardinality(Allocated)
    /\ numTConnections_ = Cardinality(activeConnections_) + Len(connectionStack_)
                            + Cardinality(lost)
    /\ numTConnections_ <= Cardinality(Known)

Busy == {o \in activeConnections_ : InPool(o)}
Processing == {i \in IOThreads : io[i] = "process"}
Processors == numActiveProcessors_ = Cardinality(Busy) + Cardinality(Processing)

ServerInv == Types /\ Placed /\ Flow /\ Stock /\ Processors

-----------------------------------------------------------------------------
(* Sequences in which nothing occurs twice.                                *)

LEMMA Fixed ==
  /\ 0 \in IOThreads /\ None \notin IOThreads /\ None \notin Objects /\ None \notin Conns
  BY ConstantsAssumption DEF IOThreads

(* The sum of three counters as one of them is moved to another, and the   *)
(* bound on it as the bound grows.                                         *)
SumOf(n, a, s, l) == n = a + s + l

LEMMA SumMoves ==
  ASSUME NEW a \in Nat, NEW s \in Nat, NEW l \in Nat, NEW n, SumOf(n, a, s, l)
  PROVE  /\ SumOf(n - 1, a - 1, s, l) /\ SumOf(n, a - 1, s + 1, l)
         /\ SumOf(n, a + 1, s - 1, l) /\ SumOf(n + 1, a + 1, s, l)
         /\ SumOf(n, a, s - 1, l + 1) /\ n \in Nat
  BY DEF SumOf

LEMMA BoundGrows ==
  ASSUME NEW n \in Nat, NEW k \in Nat, n <= k
  PROVE  /\ n <= k + 1 /\ n + 1 <= k + 1
         /\ \A m \in Nat : k <= m => n <= m /\ n - 1 <= m
  OBVIOUS

LEMMA Strictly ==
  ASSUME NEW a \in Nat, NEW k \in Nat, NEW c \in Nat, NEW o \in Nat,
         a <= k, k <= c, k # c, c <= o
  PROVE  a # o
  OBVIOUS

LEMMA Zeros == 0 = 0 + 0 + 0 /\ 0 = 0 + 0 /\ 0 <= 0
  OBVIOUS

LEMMA Positive ==
  ASSUME NEW n \in Nat, n # 0
  PROVE  n > 0
  OBVIOUS

PairOf(n, b, p) == n = b + p

LEMMA PairMoves ==
  ASSUME NEW b \in Nat, NEW p \in Nat, NEW n, PairOf(n, b, p)
  PROVE  /\ PairOf(n + 1, b + 1, p) /\ PairOf(n + 1, b, p + 1)
         /\ b > 0 => PairOf(IF n > 0 THEN n - 1 ELSE 0, b - 1, p)
         /\ p > 0 => PairOf(IF n > 0 THEN n - 1 ELSE 0, b, p - 1)
  BY DEF PairOf

LEMMA Threads == 0 \in Int /\ NumIOThreads - 1 \in Int
  BY ConstantsAssumption

LEMMA SequenceSize ==
  ASSUME NEW S, NEW s \in Seq(S)
  PROVE  /\ Members(s) \subseteq S /\ Len(s) \in Nat
         /\ \A x \in S : Len(Append(s, x)) = Len(s) + 1
  BY DEF Members

LEMMA Appended ==
  ASSUME NEW S, NEW s \in Seq(S), NEW x \in S
  PROVE  /\ Append(s, x) \in Seq(S)
         /\ DOMAIN Append(s, x) = DOMAIN s \cup {Len(s) + 1} /\ Len(s) + 1 \notin DOMAIN s
         /\ \A k \in DOMAIN s : Append(s, x)[k] = s[k]
         /\ Append(s, x)[Len(s) + 1] = x
  OBVIOUS

LEMMA Beheaded ==
  ASSUME NEW S, NEW s \in Seq(S), s # <<>>
  PROVE  /\ Tail(s) \in Seq(S) /\ Head(s) \in S /\ Head(s) = s[1] /\ 1 \in DOMAIN s
         /\ \A k \in DOMAIN Tail(s) : k + 1 \in DOMAIN s /\ k + 1 # 1 /\ Tail(s)[k] = s[k + 1]
         /\ \A k \in DOMAIN s : k # 1 => /\ k - 1 \in DOMAIN Tail(s)
                                         /\ Tail(s)[k - 1] = s[k]
         /\ \A k, l \in DOMAIN Tail(s) : k + 1 = l + 1 => k = l
<1>1. Len(s) \in Nat /\ Len(s) # 0 /\ DOMAIN s = 1..Len(s)
  OBVIOUS
<1>2. Tail(s) \in Seq(S) /\ Len(Tail(s)) = Len(s) - 1 /\ DOMAIN Tail(s) = 1..(Len(s) - 1)
  BY <1>1
<1>3. \A k \in 1..(Len(s) - 1) : Tail(s)[k] = s[k + 1]
  BY <1>1
<1> QED
  BY <1>1, <1>2, <1>3

LEMMA MembersAppend ==
  ASSUME NEW S, NEW s \in Seq(S), NEW x \in S, Once(s), x = None \/ x \notin Members(s)
  PROVE  Members(Append(s, x)) = Members(s) \cup {x} /\ Once(Append(s, x))
<1> DEFINE n == Len(s) + 1
<1> DEFINE a == Append(s, x)
<1>1. /\ DOMAIN a = DOMAIN s \cup {n} /\ n \notin DOMAIN s
      /\ \A k \in DOMAIN s : a[k] = s[k]
      /\ a[n] = x
  BY Appended
<1> HIDE DEF n, a
<1>2. Members(a) = Members(s) \cup {x}
  BY <1>1 DEF Members
<1>3. Once(a)
  BY <1>1 DEF Members, Once
<1> QED
  BY <1>2, <1>3 DEF a

LEMMA MembersTail ==
  ASSUME NEW S, NEW s \in Seq(S), s # <<>>, Once(s)
  PROVE  /\ Head(s) \in Members(s) /\ Once(Tail(s))
         /\ \A x : x # None => (x \in Members(Tail(s)) <=> x \in Members(s) /\ x # Head(s))
<1> DEFINE a == Tail(s)
<1>1. /\ Head(s) = s[1] /\ 1 \in DOMAIN s
      /\ \A k \in DOMAIN a : k + 1 \in DOMAIN s /\ k + 1 # 1 /\ a[k] = s[k + 1]
      /\ \A k \in DOMAIN s : k # 1 => k - 1 \in DOMAIN a /\ a[k - 1] = s[k]
      /\ \A k, l \in DOMAIN a : k + 1 = l + 1 => k = l
  BY Beheaded
<1> HIDE DEF a
<1>2. Once(a)
  BY <1>1 DEF Once
<1>3. ASSUME NEW x, x # None PROVE x \in Members(a) <=> x \in Members(s) /\ x # Head(s)
  BY <1>1, <1>3 DEF Members, Once
<1> QED
  BY <1>1, <1>2, <1>3 DEF a, Members

LEMMA ConnectionsAppend ==
  ASSUME NEW S, NEW s \in Seq(S), NEW t \in S, OnceEach(s), t.connection \notin Connections(s)
  PROVE  /\ Connections(Append(s, t)) = Connections(s) \cup {t.connection}
         /\ OnceEach(Append(s, t))
<1> DEFINE n == Len(s) + 1
<1> DEFINE a == Append(s, t)
<1>1. /\ DOMAIN a = DOMAIN s \cup {n} /\ n \notin DOMAIN s
      /\ \A k \in DOMAIN s : a[k] = s[k]
      /\ a[n] = t
  BY Appended
<1> HIDE DEF n, a
<1>2. Connections(a) = Connections(s) \cup {t.connection}
  BY <1>1 DEF Connections
<1>3. OnceEach(a)
  BY <1>1 DEF Connections, OnceEach
<1> QED
  BY <1>2, <1>3 DEF a

LEMMA ConnectionsTail ==
  ASSUME NEW S, NEW s \in Seq(S), s # <<>>, OnceEach(s)
  PROVE  /\ Head(s).connection \in Connections(s) /\ OnceEach(Tail(s))
         /\ Connections(Tail(s)) = Connections(s) \ {Head(s).connection}
<1> DEFINE a == Tail(s)
<1>1. /\ Head(s) = s[1] /\ 1 \in DOMAIN s
      /\ \A k \in DOMAIN a : k + 1 \in DOMAIN s /\ k + 1 # 1 /\ a[k] = s[k + 1]
      /\ \A k \in DOMAIN s : k # 1 => k - 1 \in DOMAIN a /\ a[k - 1] = s[k]
      /\ \A k, l \in DOMAIN a : k + 1 = l + 1 => k = l
  BY Beheaded
<1> HIDE DEF a
<1>2. OnceEach(a)
  BY <1>1 DEF OnceEach
<1>3. Connections(a) = Connections(s) \ {Head(s).connection}
  BY <1>1 DEF Connections, OnceEach
<1> QED
  BY <1>1, <1>2, <1>3 DEF a, Connections

LEMMA StackPop ==
  ASSUME NEW s \in Seq(Objects), s # <<>>, Once(s)
  PROVE  LET r == SubSeq(s, 1, Len(s) - 1) IN
         /\ r \in Seq(Objects) /\ Len(r) = Len(s) - 1 /\ Once(r)
         /\ s[Len(s)] \in Members(s) /\ s[Len(s)] \in Objects
         /\ Members(r) = Members(s) \ {s[Len(s)]}
<1> DEFINE r == SubSeq(s, 1, Len(s) - 1)
<1>1. Len(s) \in Nat /\ Len(s) # 0 /\ DOMAIN s = 1..Len(s) /\ \A k \in 1..Len(s) : s[k] \in Objects
  OBVIOUS
<1>2. /\ r \in Seq(Objects) /\ Len(r) = Len(s) - 1 /\ DOMAIN r = 1..(Len(s) - 1)
      /\ \A k \in 1..(Len(s) - 1) : r[k] = s[k]
  BY <1>1
<1> HIDE DEF r
<1>3. /\ DOMAIN s = DOMAIN r \cup {Len(s)} /\ Len(s) \notin DOMAIN r
      /\ \A k \in DOMAIN r : r[k] = s[k]
  BY <1>1, <1>2
<1>4. \A k \in DOMAIN s : s[k] # None
  BY <1>1, Fixed, Zenon
<1>5. Once(r)
  BY <1>3, Zenon DEF Once
<1>6. ASSUME NEW x PROVE x \in Members(r) <=> x \in Members(s) /\ x # s[Len(s)]
  BY <1>3, <1>4, Zenon DEF Members, Once
<1>7. s[Len(s)] \in Members(s) /\ s[Len(s)] \in Objects
  BY <1>1 DEF Members
<1> QED
  BY <1>2, <1>5, <1>6, <1>7 DEF r

-----------------------------------------------------------------------------
(* How the places change.                                                  *)

LEMMA Moves ==
  ASSUME NEW a, NEW e, NEW h, NEW q, NEW w, NEW p, ShareOut(a, e, h, q, w, p), NEW o
  PROVE  /\ o \in e => ShareOut(a, e \ {o}, h \cup {o}, q, w, p)
         /\ o \in h => ShareOut(a, e, h \ {o}, q \cup {o}, w, p)
         /\ o \in h => ShareOut(a, e, h \ {o}, q, w, p \cup {o})
         /\ o \in q => ShareOut(a, e, h \cup {o}, q \ {o}, w, p)
         /\ o \in q => ShareOut(a, e, h, q \ {o}, w \cup {o}, p)
         /\ o \in q => ShareOut(a, e, h, q \ {o}, w, p \cup {o})
         /\ o \in w => ShareOut(a, e, h, q, w \ {o}, p \cup {o})
         /\ o \in p => ShareOut(a, e \cup {o}, h, q, w, p \ {o})
  BY DEF ShareOut

LEMMA Comes ==
  ASSUME NEW a, NEW e, NEW h, NEW q, NEW w, NEW p, ShareOut(a, e, h, q, w, p), NEW o,
         o \notin e, o \notin h, o \notin q, o \notin w, o \notin p
  PROVE  /\ ShareOut(a \cup {o}, e \cup {o}, h, q, w, p)
         /\ ShareOut(a \cup {o}, e, h \cup {o}, q, w, p)
  BY DEF ShareOut

LEMMA HeldSame ==
  ASSUME \A i \in IOThreads : /\ io[i] \in Holding <=> io'[i] \in Holding
                              /\ io[i] \in Holding => hand'[i] = hand[i]
  PROVE  Held' = Held /\ (HeldOnce => HeldOnce')
  BY DEF Held, HeldOnce

LEMMA Release ==
  ASSUME Types, HeldOnce, NEW i \in IOThreads, NEW l, l \notin Holding, io[i] \in Holding,
         io' = [io EXCEPT ![i] = l], hand' = hand
  PROVE  Held' = Held \ {hand[i]} /\ HeldOnce' /\ hand[i] \in Held
<1>1. /\ \A j \in IOThreads : io'[j] = IF j = i THEN l ELSE io[j]
      /\ hand' = hand
  BY DEF Types
<1> QED
  BY <1>1 DEF Held, HeldOnce

LEMMA Grasp ==
  ASSUME Types, HeldOnce, NEW i \in IOThreads, NEW l \in Holding, io[i] \notin Holding,
         io' = [io EXCEPT ![i] = l], NEW o \in Objects, o \notin Held,
         hand' = [hand EXCEPT ![i] = o]
  PROVE  Held' = Held \cup {o} /\ HeldOnce'
<1>1. /\ \A j \in IOThreads : io'[j] = IF j = i THEN l ELSE io[j]
      /\ \A j \in IOThreads : hand'[j] = IF j = i THEN o ELSE hand[j]
  BY DEF Types
<1> QED
  BY <1>1 DEF Held, HeldOnce

LEMMA WorkedSame ==
  ASSUME \A w \in Workers : /\ worker[w] # "idle" <=> worker'[w] # "idle"
                            /\ worker[w] # "idle" => job'[w] = job[w]
  PROVE  Worked' = Worked /\ (WorkedOnce => WorkedOnce')
  BY DEF Worked, WorkedOnce

LEMMA TakesJob ==
  ASSUME Types, WorkedOnce, NEW w \in Workers, worker[w] = "idle", NEW l, l # "idle",
         worker' = [worker EXCEPT ![w] = l], NEW t, job' = [job EXCEPT ![w] = t],
         t.connection \notin Worked
  PROVE  Worked' = Worked \cup {t.connection} /\ WorkedOnce'
<1>1. /\ \A v \in Workers : worker'[v] = IF v = w THEN l ELSE worker[v]
      /\ \A v \in Workers : job'[v] = IF v = w THEN t ELSE job[v]
  BY DEF Types
<1> QED
  BY <1>1 DEF Worked, WorkedOnce

LEMMA DropsJob ==
  ASSUME Types, WorkedOnce, NEW w \in Workers, worker[w] # "idle",
         worker' = [worker EXCEPT ![w] = "idle"], NEW t, job' = [job EXCEPT ![w] = t]
  PROVE  /\ Worked' = Worked \ {job[w].connection} /\ WorkedOnce'
         /\ job[w].connection \in Worked
<1>1. /\ \A v \in Workers : worker'[v] = IF v = w THEN "idle" ELSE worker[v]
      /\ \A v \in Workers : job'[v] = IF v = w THEN t ELSE job[v]
  BY DEF Types
<1> QED
  BY <1>1 DEF Worked, WorkedOnce

LEMMA PipePut ==
  ASSUME Types, PipedOnce, NEW i \in IOThreads, NEW o \in Objects \cup {None}, o \notin Piped,
         Put(i, o)
  PROVE  /\ Piped' = Piped \cup ({o} \ {None}) /\ PipedOnce'
         /\ pipe' \in [IOThreads -> Seq(Objects \cup {None})]
<1>1. /\ pipe[i] \in Seq(Objects \cup {None}) /\ Once(pipe[i])
      /\ o = None \/ o \notin Members(pipe[i])
  BY DEF Types, PipedOnce, Piped
<1>2. /\ pipe' \in [IOThreads -> Seq(Objects \cup {None})]
      /\ \A j \in IOThreads : pipe'[j] = IF j = i THEN Append(pipe[i], o) ELSE pipe[j]
  BY <1>1 DEF Put, Types
<1>3. Members(Append(pipe[i], o)) = Members(pipe[i]) \cup {o} /\ Once(Append(pipe[i], o))
  BY <1>1, MembersAppend, Zenon
<1>4. \A j \in IOThreads : /\ Once(pipe'[j])
                           /\ \A x \in Objects : x \in Members(pipe'[j])
                                 <=> x \in Members(pipe[j]) \/ (j = i /\ x = o)
  BY <1>2, <1>3, Zenon DEF PipedOnce
<1>5. PipedOnce'
  <2>1. \A j \in IOThreads : o \in Objects => o \notin Members(pipe[j])
    BY Zenon DEF Piped
  <2> QED
    BY <1>4, <2>1 DEF PipedOnce
<1>6. Piped' = Piped \cup ({o} \ {None})
  BY <1>4, Fixed, Zenon DEF Piped
<1> QED
  BY <1>2, <1>5, <1>6

LEMMA PipePop ==
  ASSUME Types, PipedOnce, NEW i \in IOThreads, pipe[i] # <<>>, Pop(i)
  PROVE  /\ Piped' = Piped \ {Next1(i)} /\ PipedOnce'
         /\ pipe' \in [IOThreads -> Seq(Objects \cup {None})]
         /\ Next1(i) \in Objects \cup {None} /\ (Next1(i) # None => Next1(i) \in Piped)
<1>1. pipe[i] \in Seq(Objects \cup {None}) /\ Once(pipe[i])
  BY DEF Types, PipedOnce
<1>2. Tail(pipe[i]) \in Seq(Objects \cup {None}) /\ Next1(i) \in Objects \cup {None}
  BY <1>1, Beheaded, Zenon DEF Next1
<1>3. /\ pipe' \in [IOThreads -> Seq(Objects \cup {None})]
      /\ \A j \in IOThreads : pipe'[j] = IF j = i THEN Tail(pipe[i]) ELSE pipe[j]
  BY <1>2 DEF Pop, Types
<1>4. /\ Once(Tail(pipe[i])) /\ Next1(i) \in Members(pipe[i])
      /\ \A x : x # None => (x \in Members(Tail(pipe[i])) <=> x \in Members(pipe[i]) /\ x # Next1(i))
  BY <1>1, MembersTail, Zenon DEF Next1
<1>5. \A j \in IOThreads : /\ Once(pipe'[j])
                           /\ \A x \in Objects : x \in Members(pipe'[j])
                                 <=> x \in Members(pipe[j]) /\ (j = i => x # Next1(i))
  BY <1>3, <1>4, Fixed, Zenon DEF PipedOnce
<1>6. PipedOnce'
  BY <1>5, Zenon DEF PipedOnce
<1>7. ASSUME NEW x \in Objects PROVE x \in Piped' <=> x \in Piped /\ x # Next1(i)
  BY <1>4, <1>5, Zenon DEF Piped, PipedOnce
<1>8. Piped' = Piped \ {Next1(i)}
  BY <1>7, Zenon DEF Piped
<1> QED
  BY <1>2, <1>3, <1>4, <1>6, <1>8, Zenon DEF Piped

-----------------------------------------------------------------------------
(* What the steps do to the fields of a connection.                        *)

Closed(conn) == [conn EXCEPT !.eventFlags_ = "none", !.ioThread_ = None]

LEMMA ReadingFields ==
  ASSUME NEW c \in Connection
  PROVE  /\ Reading(c) \in Connection /\ Reading(c).appState_ = "READ_FRAME_SIZE"
         /\ Reading(c).eventFlags_ = "read" /\ Reading(c).ioThread_ = c.ioThread_
         /\ Reading(c).tSocket_ = c.tSocket_ /\ Reading(c).output = c.output
  BY Zenon DEF Connection, Reading

LEMMA FramedFields ==
  ASSUME NEW c \in Connection
  PROVE  /\ Framed(c) \in Connection /\ Framed(c).appState_ = "READ_REQUEST"
         /\ Framed(c).eventFlags_ = c.eventFlags_ /\ Framed(c).ioThread_ = c.ioThread_
         /\ Framed(c).tSocket_ = c.tSocket_ /\ Framed(c).output = c.output
  BY Zenon DEF Connection, Framed

LEMMA EmptiedFields ==
  ASSUME NEW c \in Connection
  PROVE  /\ Emptied(c) \in Connection /\ Emptied(c).appState_ = c.appState_
         /\ Emptied(c).eventFlags_ = c.eventFlags_ /\ Emptied(c).ioThread_ = c.ioThread_
         /\ Emptied(c).tSocket_ = c.tSocket_ /\ Emptied(c).output = None
  BY DEF Connection, Emptied

LEMMA WaitingFields ==
  ASSUME NEW c \in Connection
  PROVE  /\ Waiting(c) \in Connection /\ Waiting(c).appState_ = "WAIT_TASK"
         /\ Waiting(c).eventFlags_ = "none" /\ Waiting(c).ioThread_ = c.ioThread_
         /\ Waiting(c).tSocket_ = c.tSocket_ /\ Waiting(c).output = c.output
  BY Zenon DEF Connection, Waiting

LEMMA ForcedFields ==
  ASSUME NEW c \in Connection
  PROVE  /\ Forced(c) \in Connection /\ Forced(c).appState_ = "CLOSE_CONNECTION"
         /\ Forced(c).eventFlags_ = c.eventFlags_ /\ Forced(c).ioThread_ = c.ioThread_
         /\ Forced(c).tSocket_ = c.tSocket_ /\ Forced(c).output = c.output
  BY DEF Connection, Forced

LEMMA ClosedFields ==
  ASSUME NEW c \in Connection
  PROVE  Closed(c) \in Connection /\ Closed(c).eventFlags_ = "none"
  BY Zenon DEF Connection, Closed

LEMMA OutputFields ==
  ASSUME NEW c \in Connection, NEW result \in Conns \cup {None}
  PROVE  LET r == [c EXCEPT !.output = result] IN
         /\ r \in Connection /\ r.appState_ = c.appState_ /\ r.eventFlags_ = c.eventFlags_
         /\ r.ioThread_ = c.ioThread_ /\ r.tSocket_ = c.tSocket_ /\ r.output = result
  BY DEF Connection

(* A connection answers only when there is a result.                       *)
LEMMA AnsweringFields ==
  ASSUME NEW c \in Connection
  PROVE  /\ Answering(c) \in Connection /\ Answering(c).eventFlags_ # "none"
         /\ Answering(c).appState_ = IF c.output = None THEN "READ_FRAME_SIZE" ELSE "SEND_RESULT"
         /\ Answering(c).ioThread_ = c.ioThread_
         /\ Answering(c).tSocket_ = c.tSocket_ /\ Answering(c).output = c.output
<1>1. CASE c.output = None
  BY <1>1, ReadingFields DEF Answering
<1>2. CASE c.output # None
  BY <1>2, Zenon DEF Answering, Connection
<1> QED
  BY <1>1, <1>2

LEMMA FreshFields ==
  ASSUME Types, NEW o \in Objects, NEW c \in Conns
  PROVE  /\ Fresh(o, c) \in Connection /\ Fresh(o, c).appState_ = "INIT"
         /\ Fresh(o, c).eventFlags_ = "none" /\ Fresh(o, c).ioThread_ = nextIOThread_
         /\ Fresh(o, c).tSocket_ = c
<1>1. tc[o].output \in Conns \cup {None} /\ nextIOThread_ \in IOThreads
  BY DEF Types, Connection
<1> QED
  BY <1>1, Zenon DEF Fresh, Blank, Connection

(* A step that rewrites one connection.                                    *)
LEMMA Touch ==
  ASSUME Types, NEW o \in Objects, NEW r \in Connection, tc' = [tc EXCEPT ![o] = r]
  PROVE  /\ tc' \in [Objects -> Connection]
         /\ tc'[o] = r /\ \A p \in Objects \ {o} : tc'[p] = tc[p]
         /\ r.eventFlags_ = "none" => Evented' = Evented \ {o}
         /\ r.eventFlags_ # "none" => Evented' = Evented \cup {o}
<1>1. /\ tc' \in [Objects -> Connection]
      /\ tc'[o] = r /\ \A p \in Objects \ {o} : tc'[p] = tc[p]
  BY DEF Types
<1> QED
  BY <1>1, SMTT(30) DEF Evented

LEMMA CloseEffect ==
  ASSUME Types, NEW o \in Objects, tc[o].tSocket_ \in Known, Close(o)
  PROVE  /\ tc' \in [Objects -> Connection] /\ \A p \in Objects \ {o} : tc'[p] = tc[p]
         /\ Evented' = Evented \ {o} /\ activeConnections_' = activeConnections_ \ {o}
         /\ connectionStack_' \in Seq(Objects) /\ lost' = lost
         /\ DOMAIN peer' = Conns /\ Known' = Known
<1>1. tc[o] \in Connection
  BY DEF Types
<1>2. tc' = [tc EXCEPT ![o] = Closed(tc[o])]
  BY Zenon DEF Close, Closed, Types
<1>3. /\ tc' \in [Objects -> Connection] /\ \A p \in Objects \ {o} : tc'[p] = tc[p]
      /\ Evented' = Evented \ {o}
  BY <1>1, <1>2, ClosedFields, Touch, Zenon
<1>4. connectionStack_' \in Seq(Objects)
  BY DEF Close, Types
<1>5. /\ DOMAIN peer' = Conns
      /\ \A c \in Conns : peer'[c] = IF c = tc[o].tSocket_ THEN "closed" ELSE peer[c]
  BY DEF Close, Types, Known
<1>6. Known' = Known
  BY <1>5 DEF Known
<1> QED
  BY <1>3, <1>4, <1>5, <1>6, Zenon DEF Close

LEMMA PeerSet ==
  ASSUME Types, NEW c \in Conns, NEW v, v \notin {"away", "backlog"},
         peer' = [peer EXCEPT ![c] = v]
  PROVE  DOMAIN peer' = Conns /\ Known' = Known \cup {c}
<1>1. DOMAIN peer' = Conns /\ \A d \in Conns : peer'[d] = IF d = c THEN v ELSE peer[d]
  BY DEF Types
<1> QED
  BY <1>1, Zenon DEF Known

LEMMA ServedPeer ==
  ASSUME Types, NEW c \in Conns, Served(c) \/ Forsaken(c)
  PROVE  DOMAIN peer' = Conns /\ Known' = Known
<1>1. /\ DOMAIN peer' = Conns
      /\ \A d \in Conns : \/ peer'[d] = peer[d]
                          \/ peer[d] = "waiting" /\ peer'[d] \in {"connected", "forsaken"}
  BY DEF Types, Served, Forsaken
<1> QED
  BY <1>1, Zenon DEF Known

LEMMA SamePeer ==
  ASSUME peer' = peer
  PROVE  Known' = Known /\ (DOMAIN peer = Conns => DOMAIN peer' = Conns)
  BY Zenon DEF Known

LEMMA IoSet ==
  ASSUME Types, NEW i \in IOThreads, NEW l, IOGoto(i, l)
  PROVE  io'[i] = l /\ \A j \in IOThreads : j # i => io'[j] = io[j]
  BY DEF Types, IOGoto

(* The holder of each place, and that nobody else has the connection.      *)
LEMMA Places ==
  ASSUME Placed
  PROVE  /\ Evented \subseteq activeConnections_ /\ Queued \subseteq activeConnections_
         /\ \A i \in IOThreads : io[i] \in Holding => hand[i] \in activeConnections_
         /\ \A w \in Workers : worker[w] # "idle" => job[w].connection \in activeConnections_
         /\ Piped \subseteq activeConnections_
<1>1. /\ \A i \in IOThreads : io[i] \in Holding => hand[i] \in Held
      /\ \A w \in Workers : worker[w] # "idle" => job[w].connection \in Worked
  BY Zenon DEF Held, Worked
<1>2. activeConnections_ = Evented \cup Held \cup Queued \cup Worked \cup Piped
  BY Zenon DEF Placed, Apart, ShareOut
<1> QED
  BY <1>1, <1>2, Zenon

LEMMA InOnePlace ==
  ASSUME Placed, NEW o
  PROVE  /\ o \in Evented => o \notin Held \cup Queued \cup Worked \cup Piped
         /\ o \in Held => o \notin Evented \cup Queued \cup Worked \cup Piped
         /\ o \in Queued => o \notin Evented \cup Held \cup Worked \cup Piped
         /\ o \in Worked => o \notin Evented \cup Held \cup Queued \cup Piped
         /\ o \in Piped => o \notin Evented \cup Held \cup Queued \cup Worked
         /\ (o \in Evented \cup Held \cup Queued \cup Worked \cup Piped) <=> o \in activeConnections_
  BY DEF Placed, Apart, ShareOut

(* A connection is not with an inline call when it has no event, or when   *)
(* its IO thread is somewhere else.                                        *)
LEMMA NotInline ==
  ASSUME Inline, NEW o, o \notin Evented \/ tc[o].ioThread_ \in {i \in IOThreads : io[i] # "process"}
  PROVE  \A j \in IOThreads : io[j] = "process" => hand[j] # o
  BY Zenon DEF Inline

(* Who keeps a connection does not change its client or its IO thread.     *)
Carries ==
    \A o \in activeConnections_ \cap activeConnections_' :
        tc'[o].ioThread_ = tc[o].ioThread_ /\ tc'[o].tSocket_ = tc[o].tSocket_

LEMMA StayOwned ==
  ASSUME Owned, UNCHANGED <<tc, activeConnections_>>, Known \subseteq Known'
  PROVE  Owned' /\ Carries
  BY Zenon DEF Owned, Carries

LEMMA RewriteOwned ==
  ASSUME Types, Owned, activeConnections_' = activeConnections_, Known \subseteq Known',
         NEW o \in Objects, \A p \in Objects \ {o} : tc'[p] = tc[p],
         tc'[o].ioThread_ = tc[o].ioThread_, tc'[o].tSocket_ = tc[o].tSocket_
  PROVE  Owned' /\ Carries
<1>1. activeConnections_ \subseteq Objects
  BY Zenon DEF Types
<1>2. \A p \in activeConnections_ :
        tc'[p].ioThread_ = tc[p].ioThread_ /\ tc'[p].tSocket_ = tc[p].tSocket_
  BY <1>1, Zenon
<1> QED
  BY <1>2, Zenon DEF Owned, Carries

LEMMA CloseOwned ==
  ASSUME Types, Owned, NEW o \in Objects, activeConnections_' = activeConnections_ \ {o},
         \A p \in Objects \ {o} : tc'[p] = tc[p], Known \subseteq Known'
  PROVE  Owned' /\ Carries
<1>1. activeConnections_ \subseteq Objects
  BY Zenon DEF Types
<1> QED
  BY <1>1, Zenon DEF Owned, Carries

(* What a step does to the tasks is of no account to whose they are.       *)
LEMMA TaskResultsKept ==
  ASSUME TaskResults, Placed, Placed', Carries,
         \A k \in DOMAIN tasks_' :
             \/ \E l \in DOMAIN tasks_ : tasks_'[k] = tasks_[l]
             \/ \E o \in activeConnections_ : tasks_'[k] = Task(o),
         \A w \in Workers : worker'[w] # "idle" =>
             \/ worker[w] # "idle" /\ job'[w] = job[w]
             \/ \E l \in DOMAIN tasks_ : job'[w] = tasks_[l]
  PROVE  TaskResults'
<1>1. ASSUME NEW k \in DOMAIN tasks_'
      PROVE  tasks_'[k].connection \in activeConnections_'
  BY Zenon DEF Placed, Apart, ShareOut, Queued, Connections
<1>2. ASSUME NEW w \in Workers, worker'[w] # "idle"
      PROVE  job'[w].connection \in activeConnections_'
  BY <1>2, Zenon DEF Placed, Apart, ShareOut, Worked
<1>3. ASSUME NEW l \in DOMAIN tasks_, tasks_[l].connection \in activeConnections_'
      PROVE  tasks_[l].socket = tc'[tasks_[l].connection].tSocket_
  <2>1. tasks_[l].connection \in activeConnections_
    BY Zenon DEF Placed, Apart, ShareOut, Queued, Connections
  <2> QED
    BY <1>3, <2>1, Zenon DEF Carries, TaskResults
<1>4. ASSUME NEW k \in DOMAIN tasks_'
      PROVE  tasks_'[k].socket = tc'[tasks_'[k].connection].tSocket_
  <2>1. CASE \E l \in DOMAIN tasks_ : tasks_'[k] = tasks_[l]
    BY <1>1, <1>3, <2>1, Zenon
  <2>2. CASE \E o \in activeConnections_ : tasks_'[k] = Task(o)
    <3> PICK o \in activeConnections_ : tasks_'[k] = Task(o)
      BY <2>2
    <3>1. tasks_'[k].connection = o /\ tasks_'[k].socket = tc[o].tSocket_
      BY DEF Task
    <3> QED
      BY <1>1, <3>1, Zenon DEF Carries
  <2> QED
    BY <2>1, <2>2, Zenon
<1>5. ASSUME NEW w \in Workers, worker'[w] # "idle"
      PROVE  job'[w].socket = tc'[job'[w].connection].tSocket_
  <2>1. CASE \E l \in DOMAIN tasks_ : job'[w] = tasks_[l]
    BY <1>2, <1>3, <1>5, <2>1, Zenon
  <2>2. CASE worker[w] # "idle" /\ job'[w] = job[w]
    <3>1. job[w].connection \in activeConnections_
      BY <2>2, Places, Zenon
    <3>2. job[w].socket = tc[job[w].connection].tSocket_
      BY <2>2, Zenon DEF TaskResults
    <3>3. job[w].connection \in activeConnections_'
      BY <1>2, <1>5, <2>2, Zenon
    <3>4. tc'[job[w].connection].tSocket_ = tc[job[w].connection].tSocket_
      BY <3>1, <3>3, Zenon DEF Carries
    <3> QED
      BY <2>2, <3>2, <3>4, Zenon
  <2> QED
    BY <1>5, <2>1, <2>2, Zenon
<1> QED
  BY <1>4, <1>5, Zenon DEF TaskResults

(* An inline call goes on when a step leaves its connection alone.         *)
LEMMA InlineKept ==
  ASSUME Types, Inline, NEW o \in Objects, \A p \in Objects \ {o} : tc'[p] = tc[p],
         Evented \ {o} \subseteq Evented',
         \A j \in IOThreads : io'[j] = "process" =>
             io[j] = "process" /\ hand'[j] = hand[j] /\ hand[j] # o
  PROVE  Inline'
<1> SUFFICES ASSUME NEW j \in IOThreads, io'[j] = "process"
             PROVE  /\ hand'[j] \in Evented' /\ tc'[hand'[j]].ioThread_ = j
                    /\ tc'[hand'[j]].output = None
  BY Zenon DEF Inline
<1>1. io[j] = "process" /\ hand'[j] = hand[j] /\ hand[j] # o
  BY Zenon
<1>2. hand[j] \in Evented /\ tc[hand[j]].ioThread_ = j /\ tc[hand[j]].output = None
  BY <1>1, Zenon DEF Inline
<1>3. hand[j] \in Objects /\ tc'[hand[j]] = tc[hand[j]]
  BY <1>1, <1>2, Zenon DEF Evented
<1> QED
  BY <1>1, <1>2, <1>3, Zenon

LEMMA InlineStays ==
  ASSUME Inline, UNCHANGED tc,
         \A j \in IOThreads : io'[j] = "process" => io[j] = "process" /\ hand'[j] = hand[j]
  PROVE  Inline'
<1>1. Evented' = Evented
  BY Zenon DEF Evented
<1> QED
  BY <1>1, Zenon DEF Inline

(* The rest of a step that closes connection o, which no thread keeps.     *)
LEMMA CloseFlow ==
  ASSUME Types, Placed, Flow, NEW o \in activeConnections_, Close(o), Placed',
         UNCHANGED <<hand, tasks_, mutex_, incoming>>,
         \A j \in IOThreads : io'[j] = io[j] \/ io'[j] = "loop",
         \A j \in IOThreads : io'[j] = "process" => hand[j] # o,
         \A w \in Workers : worker'[w] # "idle" => worker'[w] = worker[w] /\ job'[w] = job[w]
  PROVE  Flow'
<1>1. o \in Objects /\ activeConnections_ \subseteq Objects /\ 0 \in IOThreads
  BY Fixed, Zenon DEF Types
<1>2. /\ \A p \in Objects \ {o} : tc'[p] = tc[p]
      /\ Evented' = Evented \ {o} /\ activeConnections_' = activeConnections_ \ {o}
      /\ Known' = Known
  <2>1. tc[o].tSocket_ \in Known
    BY Zenon DEF Flow, Owned
  <2> QED
    BY <1>1, <2>1, CloseEffect, Zenon
<1>3. Owned' /\ Carries
  BY <1>1, <1>2, CloseOwned, Zenon DEF Flow
<1>4. TaskResults'
  <2>1. \A k \in DOMAIN tasks_' : \E l \in DOMAIN tasks_ : tasks_'[k] = tasks_[l]
    BY Zenon
  <2>2. \A w \in Workers : worker'[w] # "idle" => worker[w] # "idle" /\ job'[w] = job[w]
    BY Zenon
  <2> QED
    BY <1>3, <2>1, <2>2, TaskResultsKept, Zenon DEF Flow
<1>5. Inline'
  <2>1. \A j \in IOThreads : io'[j] = "process" =>
             io[j] = "process" /\ hand'[j] = hand[j] /\ hand[j] # o
    BY Zenon
  <2>2. Evented \ {o} \subseteq Evented'
    BY <1>2, Zenon
  <2> QED
    BY <1>1, <1>2, <2>1, <2>2, InlineKept, Zenon DEF Flow
<1>6. Outputs'
  BY <1>1, <1>2, Zenon DEF Flow, Outputs
<1>7. Labels'
  BY <1>1, <1>2, Zenon DEF Flow, Labels
<1>8. Stages'
  <2>1. ASSUME NEW p \in Evented' PROVE ~InPool(p)'
    BY <1>2, Zenon DEF Flow, Stages, InPool, Evented
  <2>2. ASSUME NEW p \in Queued' \cup Worked' PROVE InPool(p)'
    <3>1. p \in activeConnections_'
      BY Zenon DEF Placed, Apart, ShareOut
    <3>2. p \in Queued \cup Worked
      BY Zenon DEF Queued, Worked
    <3> QED
      BY <1>1, <1>2, <3>1, <3>2, Zenon DEF Flow, Stages, InPool
  <2>3. ASSUME NEW i \in IOThreads, io'[i] \in Holding
        PROVE  InPool(hand[i])' <=> io'[i] # "fresh"
    <3>1. io[i] \in Holding /\ io'[i] = io[i]
      BY <2>3, Zenon DEF Holding
    <3>2. hand[i] \in activeConnections_'
      BY <2>3, Zenon DEF Placed, Apart, ShareOut, Held
    <3> QED
      BY <1>1, <1>2, <3>1, <3>2, Zenon DEF Flow, Stages, InPool
  <2> QED
    BY <2>1, <2>2, <2>3, Zenon DEF Stages
<1> QED
  BY <1>3, <1>4, <1>5, <1>6, <1>7, <1>8, Zenon DEF Flow

-----------------------------------------------------------------------------
(* How the number of processors follows the connections.                   *)

Counted ==
    \/ Busy' = Busy /\ Processing' = Processing /\ UNCHANGED numActiveProcessors_
    \/ /\ numActiveProcessors_' = numActiveProcessors_ + 1
       /\ \/ /\ \E o \in Objects \ Busy : Busy' = Busy \cup {o}
             /\ Processing' = Processing
          \/ /\ \E i \in IOThreads \ Processing : Processing' = Processing \cup {i}
             /\ Busy' = Busy
    \/ /\ numActiveProcessors_' = Decremented
       /\ \/ (\E o \in Busy : Busy' = Busy \ {o}) /\ Processing' = Processing
          \/ (\E i \in Processing : Processing' = Processing \ {i}) /\ Busy' = Busy

(* The inline calls change only where a label says so.                     *)
LEMMA ProcessingSame ==
  ASSUME \A j \in IOThreads : io'[j] = "process" <=> io[j] = "process"
  PROVE  Processing' = Processing
  BY Zenon DEF Processing

LEMMA BusyClose ==
  ASSUME Types, NEW o \in Objects, activeConnections_' = activeConnections_ \ {o},
         \A p \in Objects \ {o} : tc'[p] = tc[p]
  PROVE  Busy' = Busy \ {o}
<1>1. activeConnections_ \subseteq Objects
  BY Zenon DEF Types
<1> QED
  BY <1>1, Zenon DEF Busy, InPool

LEMMA BusyRewrite ==
  ASSUME Types, NEW o \in activeConnections_, activeConnections_' = activeConnections_,
         \A p \in Objects \ {o} : tc'[p] = tc[p]
  PROVE  Busy' = IF InPool(o)' THEN Busy \cup {o} ELSE Busy \ {o}
<1>1. activeConnections_ \subseteq Objects
  BY Zenon DEF Types
<1>2. ASSUME NEW p PROVE p \in Busy' <=> IF p = o THEN InPool(o)' ELSE p \in Busy
  BY <1>1, Zenon DEF Busy, InPool
<1> QED
  BY <1>2, Zenon

(* What a step does not touch.                                             *)
LEMMA Frames ==
  /\ UNCHANGED tc => Evented' = Evented
  /\ UNCHANGED tasks_ => Queued' = Queued /\ (OnceEach(tasks_) => OnceEach(tasks_)')
  /\ UNCHANGED workerVars => Worked' = Worked /\ (WorkedOnce => WorkedOnce')
  /\ UNCHANGED ioVars => Held' = Held /\ (HeldOnce => HeldOnce')
  /\ UNCHANGED pipe => Piped' = Piped /\ (PipedOnce => PipedOnce')
<1>1. UNCHANGED tc => Evented' = Evented
  BY Zenon DEF Evented
<1>2. UNCHANGED tasks_ => Queued' = Queued /\ (OnceEach(tasks_) => OnceEach(tasks_)')
  BY Zenon DEF Queued, Connections, OnceEach
<1>3. UNCHANGED workerVars => Worked' = Worked /\ (WorkedOnce => WorkedOnce')
  BY Zenon DEF Worked, WorkedOnce, workerVars
<1>4. UNCHANGED ioVars => Held' = Held /\ (HeldOnce => HeldOnce')
  BY Zenon DEF Held, HeldOnce, ioVars
<1>5. UNCHANGED pipe => Piped' = Piped /\ (PipedOnce => PipedOnce')
  BY Zenon DEF Piped, PipedOnce
<1> QED
  BY <1>1, <1>2, <1>3, <1>4, <1>5, Zenon

-----------------------------------------------------------------------------
(* Steps that close a connection.                                          *)

LEMMA CloseApart ==
  ASSUME Apart, NEW o, activeConnections_' = activeConnections_ \ {o},
         Evented' = Evented \ {o}, Held' = Held \ {o}, Queued' = Queued \ {o},
         Worked' = Worked \ {o}, Piped' = Piped \ {o}
  PROVE  Apart'
  BY Zenon DEF Apart, ShareOut

LEMMA EventCloses ==
  ASSUME Types, Placed, Flow, NEW i \in IOThreads, NEW o \in Objects,
         SeesDisconnect(i, o) \/ RefusesFrame(i, o)
  PROVE  Placed' /\ Flow' /\ Counted
<1>1. /\ io[i] = "loop" /\ tc[o].ioThread_ = i /\ tc[o].eventFlags_ # "none" /\ Close(o)
      /\ UNCHANGED <<incoming, numActiveProcessors_, pipe, tasks_, mutex_, ioVars, workerVars>>
  BY Zenon DEF SeesDisconnect, RefusesFrame, taskVars, acceptVars
<1>2. o \in Evented /\ o \in activeConnections_ /\ tc[o].tSocket_ \in Known
  BY <1>1, Places, Zenon DEF Evented, Flow, Owned
<1>3. /\ \A p \in Objects \ {o} : tc'[p] = tc[p]
      /\ Evented' = Evented \ {o} /\ activeConnections_' = activeConnections_ \ {o}
  BY <1>1, <1>2, CloseEffect, Zenon
<1>4. o \notin Held /\ o \notin Queued /\ o \notin Worked /\ o \notin Piped /\ ~InPool(o)
  BY <1>2, Zenon DEF Placed, Apart, ShareOut, Flow, Stages
<1>5. Placed'
  <2>1. /\ Held' = Held /\ Queued' = Queued /\ Worked' = Worked /\ Piped' = Piped
        /\ HeldOnce' /\ OnceEach(tasks_)' /\ WorkedOnce' /\ PipedOnce'
    BY <1>1, Frames, Zenon DEF Placed
  <2>2. Apart'
    BY <1>3, <1>4, <2>1, CloseApart, Zenon DEF Placed
  <2> QED
    BY <2>1, <2>2, Zenon DEF Placed
<1>6. Flow'
  <2>1. /\ \A j \in IOThreads : io'[j] = io[j] \/ io'[j] = "loop"
        /\ \A w \in Workers : worker'[w] # "idle" => worker'[w] = worker[w] /\ job'[w] = job[w]
        /\ UNCHANGED <<hand, tasks_, mutex_, incoming>>
    BY <1>1, Zenon DEF ioVars, workerVars
  <2>2. \A j \in IOThreads : io'[j] = "process" => hand[j] # o
    BY <1>1, NotInline, Zenon DEF Flow, ioVars
  <2> QED
    BY <1>1, <1>2, <1>5, <2>1, <2>2, CloseFlow, Zenon
<1>7. Counted
  <2>1. Busy' = Busy /\ Processing' = Processing
    BY <1>1, <1>3, <1>4, BusyClose, ProcessingSame, Zenon DEF Busy, ioVars
  <2> QED
    BY <1>1, <2>1, Zenon DEF Counted
<1> QED
  BY <1>5, <1>6, <1>7

(* The rest of the steps that close a connection, given where it was.      *)
LEMMA Closes ==
  ASSUME Types, Placed, Flow, NEW o \in activeConnections_, Close(o), hand' = hand,
         Held' = Held \ {o}, Worked' = Worked \ {o}, Piped' = Piped \ {o}, o \notin Queued,
         HeldOnce', WorkedOnce', PipedOnce', UNCHANGED <<tasks_, mutex_, incoming>>,
         \A j \in IOThreads : io'[j] = io[j] \/ io'[j] = "loop",
         \A j \in IOThreads : io'[j] = "process" => hand[j] # o,
         \A w \in Workers : worker'[w] # "idle" => worker'[w] = worker[w] /\ job'[w] = job[w]
  PROVE  Placed' /\ Flow' /\ Busy' = Busy \ {o}
<1>1. o \in Objects /\ tc[o].tSocket_ \in Known
  BY Zenon DEF Types, Flow, Owned
<1>2. /\ \A p \in Objects \ {o} : tc'[p] = tc[p]
      /\ Evented' = Evented \ {o} /\ activeConnections_' = activeConnections_ \ {o}
  BY <1>1, CloseEffect, Zenon
<1>3. Queued' = Queued /\ OnceEach(tasks_)'
  BY Frames, Zenon DEF Placed
<1>4. Apart'
  BY <1>2, <1>3, CloseApart, Zenon DEF Placed
<1>5. Placed'
  BY <1>3, <1>4, Zenon DEF Placed
<1>6. Flow'
  BY <1>5, CloseFlow, Zenon
<1>7. Busy' = Busy \ {o}
  BY <1>1, <1>2, BusyClose, Zenon
<1> QED
  BY <1>5, <1>6, <1>7

LEMMA InlineCloses ==
  ASSUME Types, Placed, Flow, NEW i \in IOThreads, ProcessThrows(i)
  PROVE  Placed' /\ Flow' /\ Counted
<1> DEFINE o == hand[i]
<1>1. /\ io[i] = "process" /\ Close(o) /\ IOGoto(i, "loop")
      /\ UNCHANGED <<incoming, hand, pipe, tasks_, mutex_, workerVars>>
      /\ numActiveProcessors_' = Decremented
  BY Zenon DEF ProcessThrows, taskVars, acceptVars
<1>2. o \in Evented /\ o \in activeConnections_ /\ tc[o].ioThread_ = i
  BY <1>1, Places, Zenon DEF Flow, Inline
<1>3. o \notin Held /\ o \notin Queued /\ o \notin Worked /\ o \notin Piped /\ ~InPool(o)
  BY <1>2, Zenon DEF Placed, Apart, ShareOut, Flow, Stages
<1>4. io'[i] = "loop" /\ \A j \in IOThreads : j # i => io'[j] = io[j]
  BY <1>1, IoSet, Zenon
<1> HIDE DEF o
<1>5. Held' = Held /\ HeldOnce'
  <2>1. \A j \in IOThreads : /\ io[j] \in Holding <=> io'[j] \in Holding
                             /\ io[j] \in Holding => hand'[j] = hand[j]
    BY <1>1, <1>4, Zenon DEF Holding
  <2> QED
    BY <2>1, HeldSame, Zenon DEF Placed
<1>6. Worked' = Worked /\ Piped' = Piped /\ WorkedOnce' /\ PipedOnce'
  BY <1>1, Frames, Zenon DEF Placed
<1>7. \A j \in IOThreads : io'[j] = "process" => hand[j] # o
  BY <1>2, <1>4, Zenon DEF Flow, Inline
<1>8. /\ \A j \in IOThreads : io'[j] = io[j] \/ io'[j] = "loop"
      /\ \A w \in Workers : worker'[w] # "idle" => worker'[w] = worker[w] /\ job'[w] = job[w]
  BY <1>1, <1>4, Zenon DEF workerVars
<1>9. Held' = Held \ {o} /\ Worked' = Worked \ {o} /\ Piped' = Piped \ {o}
  BY <1>3, <1>5, <1>6, Zenon
<1>10. Placed' /\ Flow' /\ Busy' = Busy \ {o}
  BY <1>1, <1>2, <1>3, <1>5, <1>6, <1>7, <1>8, <1>9, Closes, Zenon
<1>11. Counted
  <2>1. Processing' = Processing \ {i} /\ i \in Processing
    BY <1>1, <1>4, Zenon DEF Processing
  <2>2. Busy' = Busy
    BY <1>3, <1>10, Zenon DEF Busy
  <2> QED
    BY <1>1, <2>1, <2>2, Zenon DEF Counted
<1> QED
  BY <1>10, <1>11

LEMMA HandlerCloses ==
  ASSUME Types, Placed, Flow, NEW i \in IOThreads, AddRefused(i) \/ (i = 0 /\ FreshNotifyFails)
  PROVE  Placed' /\ Flow' /\ Counted
<1> DEFINE o == hand[i]
<1>1. /\ io[i] \in Holding /\ Close(o) /\ IOGoto(i, "loop")
      /\ UNCHANGED <<incoming, hand, pipe, tasks_, mutex_, workerVars>>
  BY Zenon DEF AddRefused, FreshNotifyFails, taskVars, acceptVars, Holding
<1>2. "loop" \notin Holding /\ "process" \notin Holding
  BY Zenon DEF Holding
<1>3. Held' = Held \ {o} /\ HeldOnce' /\ o \in Held
  BY <1>1, <1>2, Release, Zenon DEF Placed, IOGoto
<1>4. /\ o \in activeConnections_
      /\ o \notin Evented /\ o \notin Queued /\ o \notin Worked /\ o \notin Piped
  BY <1>3, Zenon DEF Placed, Apart, ShareOut
<1>5. io'[i] = "loop" /\ \A j \in IOThreads : j # i => io'[j] = io[j]
  BY <1>1, IoSet, Zenon
<1> HIDE DEF o
<1>6. Worked' = Worked /\ Piped' = Piped /\ WorkedOnce' /\ PipedOnce'
  BY <1>1, Frames, Zenon DEF Placed
<1>7. \A j \in IOThreads : io'[j] = "process" => hand[j] # o
  BY <1>4, <1>5, NotInline, Zenon DEF Flow
<1>8. /\ \A j \in IOThreads : io'[j] = io[j] \/ io'[j] = "loop"
      /\ \A w \in Workers : worker'[w] # "idle" => worker'[w] = worker[w] /\ job'[w] = job[w]
  BY <1>1, <1>5, Zenon DEF workerVars
<1>9. Worked' = Worked \ {o} /\ Piped' = Piped \ {o}
  BY <1>4, <1>6, Zenon
<1>10. Placed' /\ Flow' /\ Busy' = Busy \ {o}
  BY <1>1, <1>3, <1>4, <1>6, <1>7, <1>8, <1>9, Closes, Zenon
<1>11. Processing' = Processing
  BY <1>1, <1>2, <1>5, ProcessingSame, Zenon
<1>12. CASE AddRefused(i)
  <2>1. io[i] = "add" /\ numActiveProcessors_' = Decremented
    BY <1>12, Zenon DEF AddRefused
  <2>2. o \in Busy
    BY <1>1, <1>4, <2>1, Zenon DEF Flow, Stages, Busy, o
  <2> QED
    BY <1>10, <1>11, <2>1, <2>2, Zenon DEF Counted
<1>13. CASE i = 0 /\ FreshNotifyFails
  <2>1. io[i] = "fresh" /\ UNCHANGED numActiveProcessors_
    BY <1>13, Zenon DEF FreshNotifyFails
  <2>2. o \notin Busy
    BY <1>1, <1>4, <2>1, Zenon DEF Flow, Stages, Busy, o
  <2>3. Busy' = Busy
    BY <1>10, <2>2, Zenon
  <2> QED
    BY <1>10, <1>11, <2>1, <2>3, Zenon DEF Counted
<1> QED
  BY <1>10, <1>12, <1>13

LEMMA WorkerCloses ==
  ASSUME Types, Placed, Flow, NEW w \in Workers, WorkerNotifyFails(w)
  PROVE  Placed' /\ Flow' /\ Counted
<1> DEFINE o == job[w].connection
<1>1. /\ worker[w] # "idle" /\ Close(o) /\ numActiveProcessors_' = Decremented
      /\ UNCHANGED <<incoming, ioVars, pipe, tasks_, mutex_>>
      /\ worker' = [worker EXCEPT ![w] = "idle"] /\ job' = [job EXCEPT ![w] = None]
  BY Zenon DEF WorkerNotifyFails, taskVars, acceptVars
<1>2. Worked' = Worked \ {o} /\ WorkedOnce' /\ o \in Worked
  BY <1>1, DropsJob, Zenon DEF Placed
<1>3. /\ o \in activeConnections_
      /\ o \notin Evented /\ o \notin Held /\ o \notin Queued /\ o \notin Piped
  BY <1>2, Zenon DEF Placed, Apart, ShareOut
<1>4. \A v \in Workers : worker'[v] # "idle" => worker'[v] = worker[v] /\ job'[v] = job[v]
  BY <1>1, Zenon DEF Types
<1> HIDE DEF o
<1>5. Held' = Held /\ Piped' = Piped /\ HeldOnce' /\ PipedOnce'
  BY <1>1, Frames, Zenon DEF Placed
<1>6. \A j \in IOThreads : io'[j] = "process" => hand[j] # o
  BY <1>1, <1>3, NotInline, Zenon DEF Flow, ioVars
<1>7. (\A j \in IOThreads : io'[j] = io[j] \/ io'[j] = "loop") /\ hand' = hand
  BY <1>1, Zenon DEF ioVars
<1>8. Held' = Held \ {o} /\ Piped' = Piped \ {o}
  BY <1>3, <1>5, Zenon
<1>9. Placed' /\ Flow' /\ Busy' = Busy \ {o}
  BY <1>1, <1>2, <1>3, <1>4, <1>5, <1>6, <1>7, <1>8, Closes, Zenon
<1>10. Counted
  <2>1. Processing' = Processing
    BY <1>1, ProcessingSame, Zenon DEF ioVars
  <2>2. o \in Busy
    BY <1>2, <1>3, Zenon DEF Flow, Stages, Busy
  <2> QED
    BY <1>1, <1>9, <2>1, <2>2, Zenon DEF Counted
<1> QED
  BY <1>9, <1>10

LEMMA PipeCloses ==
  ASSUME Types, Placed, Flow, NEW i \in IOThreads, ReceiveClose(i)
  PROVE  Placed' /\ Flow' /\ Counted
<1> DEFINE o == Next1(i)
<1>1. /\ pipe[i] # <<>> /\ o # None /\ tc[o].appState_ = "CLOSE_CONNECTION" /\ Pop(i)
      /\ Close(o) /\ numActiveProcessors_' = Decremented
      /\ UNCHANGED <<incoming, ioVars, workerVars, tasks_, mutex_>>
  BY Zenon DEF ReceiveClose, Got, taskVars, acceptVars
<1>2. Piped' = Piped \ {o} /\ PipedOnce' /\ o \in Piped
  BY <1>1, PipePop, Zenon DEF Placed
<1> HIDE DEF o
<1>3. /\ o \in activeConnections_
      /\ o \notin Evented /\ o \notin Held /\ o \notin Queued /\ o \notin Worked
  BY <1>2, Zenon DEF Placed, Apart, ShareOut
<1>4. Held' = Held /\ Worked' = Worked /\ HeldOnce' /\ WorkedOnce'
  BY <1>1, Frames, Zenon DEF Placed
<1>5. \A j \in IOThreads : io'[j] = "process" => hand[j] # o
  BY <1>1, <1>3, NotInline, Zenon DEF Flow, ioVars
<1>6. /\ (\A j \in IOThreads : io'[j] = io[j] \/ io'[j] = "loop") /\ hand' = hand
      /\ \A w \in Workers : worker'[w] # "idle" => worker'[w] = worker[w] /\ job'[w] = job[w]
  BY <1>1, Zenon DEF ioVars, workerVars
<1>7. Held' = Held \ {o} /\ Worked' = Worked \ {o}
  BY <1>3, <1>4, Zenon
<1>8. Placed' /\ Flow' /\ Busy' = Busy \ {o}
  BY <1>1, <1>2, <1>3, <1>4, <1>5, <1>6, <1>7, Closes, Zenon
<1>9. Counted
  <2>1. Processing' = Processing
    BY <1>1, ProcessingSame, Zenon DEF ioVars
  <2>2. o \in Busy
    BY <1>1, <1>3, Zenon DEF InPool, Busy
  <2> QED
    BY <1>1, <1>8, <2>1, <2>2, Zenon DEF Counted
<1> QED
  BY <1>8, <1>9

-----------------------------------------------------------------------------
(* Steps that leave the connections as they are, and may pass one on.      *)

(* The rest of such a step, given where the connection goes.               *)
LEMMA Passes ==
  ASSUME Types, Placed, Flow, UNCHANGED <<tc, activeConnections_>>, Placed', Known \subseteq Known',
         \A j \in IOThreads : io'[j] = "process" => io[j] = "process" /\ hand'[j] = hand[j],
         \A o \in Queued' \cup Worked' : InPool(o),
         \A j \in IOThreads : io'[j] \in Holding => (InPool(hand'[j]) <=> io'[j] # "fresh"),
         \A k \in DOMAIN tasks_' :
             \/ \E l \in DOMAIN tasks_ : tasks_'[k] = tasks_[l]
             \/ \E o \in activeConnections_ : tasks_'[k] = Task(o),
         \A w \in Workers : worker'[w] # "idle" =>
             \/ worker[w] # "idle" /\ job'[w] = job[w]
             \/ \E l \in DOMAIN tasks_ : job'[w] = tasks_[l],
         Labels'
  PROVE  Flow' /\ Busy' = Busy
<1>1. Owned' /\ Carries
  BY StayOwned, Zenon DEF Flow
<1>2. TaskResults'
  BY <1>1, TaskResultsKept, Zenon DEF Flow
<1>3. Inline'
  BY InlineStays, Zenon DEF Flow
<1>4. Outputs'
  BY Zenon DEF Flow, Outputs
<1>5. Stages'
  <2>1. \A o \in Evented' : ~InPool(o)'
    BY Zenon DEF Flow, Stages, InPool, Evented
  <2>2. \A o \in Queued' \cup Worked' : InPool(o)'
    BY Zenon DEF InPool
  <2>3. \A j \in IOThreads : io'[j] \in Holding => (InPool(hand[j])' <=> io'[j] # "fresh")
    BY Zenon DEF InPool
  <2> QED
    BY <2>1, <2>2, <2>3, Zenon DEF Stages
<1>6. Busy' = Busy
  BY Zenon DEF Busy, InPool
<1> QED
  BY <1>1, <1>2, <1>3, <1>4, <1>5, <1>6, Zenon DEF Flow

LEMMA QuietFlow ==
  ASSUME Types, Placed, Flow, Known \subseteq Known', Labels', Piped' = Piped, PipedOnce',
         UNCHANGED <<tc, activeConnections_, tasks_, workerVars, hand, numActiveProcessors_>>,
         \A j \in IOThreads : /\ io'[j] \in Holding <=> io[j] \in Holding
                              /\ io'[j] = "fresh" <=> io[j] = "fresh"
                              /\ io'[j] = "process" <=> io[j] = "process"
  PROVE  Placed' /\ Flow' /\ Counted
<1>1. /\ Evented' = Evented /\ Queued' = Queued /\ Worked' = Worked
      /\ OnceEach(tasks_)' /\ WorkedOnce'
  BY Frames, Zenon DEF Placed
<1>2. Held' = Held /\ HeldOnce'
  <2>1. \A j \in IOThreads : /\ io[j] \in Holding <=> io'[j] \in Holding
                             /\ io[j] \in Holding => hand'[j] = hand[j]
    BY Zenon
  <2> QED
    BY <2>1, HeldSame, Zenon DEF Placed
<1>3. Placed'
  <2>1. Apart'
    BY <1>1, <1>2, Zenon DEF Placed, Apart, ShareOut
  <2> QED
    BY <1>1, <1>2, <2>1, Zenon DEF Placed
<1>4. Flow' /\ Busy' = Busy
  <2>1. \A j \in IOThreads : io'[j] = "process" => io[j] = "process" /\ hand'[j] = hand[j]
    BY Zenon
  <2>2. \A o \in Queued' \cup Worked' : InPool(o)
    BY <1>1, Zenon DEF Flow, Stages
  <2>3. \A j \in IOThreads : io'[j] \in Holding => (InPool(hand'[j]) <=> io'[j] # "fresh")
    BY Zenon DEF Flow, Stages
  <2>4. \A k \in DOMAIN tasks_' : \E l \in DOMAIN tasks_ : tasks_'[k] = tasks_[l]
    BY Zenon
  <2>5. \A w \in Workers : worker'[w] # "idle" => worker[w] # "idle" /\ job'[w] = job[w]
    BY Zenon DEF workerVars
  <2> QED
    BY <1>3, <2>1, <2>2, <2>3, <2>4, <2>5, Passes, Zenon
<1>5. Processing' = Processing
  BY ProcessingSame, Zenon
<1> QED
  BY <1>3, <1>4, <1>5, Zenon DEF Counted

QuietVars == <<tc, activeConnections_, tasks_, mutex_, workerVars, hand, numActiveProcessors_>>

(* A change of label that is of no account, and its effect on the labels.  *)
LEMMA QuietLabel ==
  ASSUME Types, Placed, Flow, NEW i \in IOThreads, NEW l, IOGoto(i, l), UNCHANGED QuietVars,
         \/ io[i] \notin Holding /\ io[i] # "process" /\ l \in {"loop", "drain", "create", "done"}
         \/ io[i] \in Holding /\ io[i] # "fresh" /\ l \in {"blocked", "stuck"},
         l \in {"drain", "create"} => i = 0 /\ incoming' \in Conns \ Known',
         i # 0 => incoming' = incoming /\ Known' = Known,
         Known \subseteq Known', Piped' = Piped, PipedOnce'
  PROVE  Placed' /\ Flow' /\ Counted
<1>1. io'[i] = l /\ \A j \in IOThreads : j # i => io'[j] = io[j]
  BY IoSet, Zenon
<1>2. UNCHANGED <<tc, activeConnections_, tasks_, workerVars, hand, numActiveProcessors_>>
  BY Zenon DEF QuietVars
<1>3. \A j \in IOThreads : /\ io'[j] \in Holding <=> io[j] \in Holding
                           /\ io'[j] = "fresh" <=> io[j] = "fresh"
                           /\ io'[j] = "process" <=> io[j] = "process"
  <2>1. l # "fresh" /\ l # "process" /\ (l \in Holding <=> l \in {"blocked", "stuck"})
    BY Zenon DEF Holding
  <2>2. io[i] # "fresh" /\ io[i] # "process" /\ (io[i] \in Holding <=> l \in Holding)
    BY <2>1, Zenon DEF Holding
  <2> QED
    BY <1>1, <2>1, <2>2, Zenon
<1>4. Labels'
  <2>1. 0 \in IOThreads /\ mutex_' = mutex_ /\ tasks_' = tasks_ /\ worker' = worker /\ job' = job
    BY Fixed, Zenon DEF QuietVars, workerVars
  <2>2. \A j \in IOThreads : io'[j] = "expire" => mutex_' = j /\ tasks_' # <<>>
    BY <1>1, <2>1, Zenon DEF Flow, Labels
  <2>3. \A j \in IOThreads : io'[j] \in {"drain", "drained", "create", "fresh"} => j = 0
    BY <1>1, <2>1, Zenon DEF Flow, Labels
  <2>4. io'[0] \in {"drain", "drained", "create"} => incoming' \in Conns \ Known'
    BY <1>1, <2>1, Zenon DEF Flow, Labels
  <2> QED
    BY <2>1, <2>2, <2>3, <2>4, Zenon DEF Flow, Labels
<1> QED
  BY <1>2, <1>3, <1>4, QuietFlow, Zenon

(* Likewise for a step in which no IO thread goes on.                      *)
LEMMA QuietStep ==
  ASSUME Types, Placed, Flow, UNCHANGED <<QuietVars, io, incoming>>, Known \subseteq Known',
         io[0] \in {"drain", "drained", "create"} => Known' = Known, Piped' = Piped, PipedOnce'
  PROVE  Placed' /\ Flow' /\ Counted
<1>1. /\ UNCHANGED <<tc, activeConnections_, tasks_, workerVars, hand, numActiveProcessors_>>
      /\ mutex_' = mutex_ /\ worker' = worker /\ job' = job /\ io' = io /\ incoming' = incoming
  BY Zenon DEF QuietVars, workerVars
<1>2. Labels'
  BY <1>1, Zenon DEF Flow, Labels
<1> QED
  BY <1>1, <1>2, QuietFlow, Zenon

LEMMA AcceptSteps ==
  ASSUME Types, Placed, Flow, NEW c \in Conns, Accept(c) \/ DropOnAccept(c) \/ BeginDrain(c)
  PROVE  Placed' /\ Flow' /\ Counted
<1>1. io[0] = "loop" /\ c \in Conns \ Known /\ 0 \in IOThreads /\ io[0] \notin Holding
  BY Fixed, Zenon DEF Accept, DropOnAccept, BeginDrain, Known, Holding
<1>2. UNCHANGED <<QuietVars, pipe>>
  BY Zenon DEF Accept, DropOnAccept, BeginDrain, QuietVars, poolVars, taskVars, ioVars
<1>3. Piped' = Piped /\ PipedOnce'
  BY <1>2, Frames, Zenon DEF Placed
<1>4. CASE Accept(c) \/ BeginDrain(c)
  <2>1. PICK l \in {"drain", "create"} : IOGoto(0, l)
    BY <1>4, Zenon DEF Accept, BeginDrain
  <2>2. incoming' = c /\ peer' = peer
    BY <1>4, Zenon DEF Accept, BeginDrain, clientVars
  <2>3. Known' = Known
    BY <2>2, SamePeer, Zenon
  <2>4. UNCHANGED QuietVars /\ io[0] # "process" /\ l \in {"loop", "drain", "create", "done"}
    BY <1>1, <1>2, Zenon
  <2>5. incoming' \in Conns \ Known' /\ Known \subseteq Known'
    BY <1>1, <2>2, <2>3, Zenon
  <2> QED
    BY <1>1, <1>3, <2>1, <2>4, <2>5, QuietLabel, ZenonT(30)
<1>5. CASE DropOnAccept(c)
  <2>1. UNCHANGED <<QuietVars, io, incoming>> /\ peer' = [peer EXCEPT ![c] = "closed"]
    BY <1>2, <1>5, Zenon DEF DropOnAccept, ioVars
  <2>2. Known \subseteq Known'
    BY <2>1, PeerSet, Zenon
  <2>3. io[0] \notin {"drain", "drained", "create"}
    BY <1>1, Zenon
  <2> QED
    BY <1>3, <2>1, <2>2, <2>3, QuietStep, Zenon
<1> QED
  BY <1>4, <1>5

LEMMA GiveUpSteps ==
  ASSUME Types, Placed, Flow, NothingToDrain \/ CreateThrows
  PROVE  Placed' /\ Flow' /\ Counted
<1>1. /\ io[0] \in {"drain", "create"} /\ IOGoto(0, "loop") /\ UNCHANGED <<QuietVars, pipe>>
      /\ peer' = [peer EXCEPT ![incoming] = "closed"]
  BY Zenon DEF NothingToDrain, CreateThrows, QuietVars, poolVars, taskVars
<1>2. Piped' = Piped /\ PipedOnce'
  BY <1>1, Frames, Zenon DEF Placed
<1>3. incoming \in Conns
  BY <1>1, Zenon DEF Flow, Labels
<1>4. Known \subseteq Known'
  BY <1>1, <1>3, PeerSet, Zenon
<1>5. io[0] \notin Holding /\ io[0] # "process" /\ 0 \in IOThreads
  BY <1>1, Fixed, Zenon DEF Holding
<1> QED
  BY <1>1, <1>2, <1>4, <1>5, QuietLabel, Zenon

LEMMA LoopSteps ==
  ASSUME Types, Placed, Flow, NEW i \in IOThreads, Register(i) \/ ReceiveStop(i) \/ AddBlocks(i)
  PROVE  Placed' /\ Flow' /\ Counted
<1>1. UNCHANGED <<QuietVars, incoming, peer>>
  BY Zenon DEF Register, ReceiveStop, AddBlocks, QuietVars, poolVars, taskVars, acceptVars,
               clientVars
<1>2. Known' = Known
  BY <1>1, SamePeer, Zenon
<1>3. PICK l : /\ IOGoto(i, l)
               /\ \/ /\ io[i] \notin Holding /\ io[i] # "process"
                     /\ l \in {"loop", "drain", "create", "done"}
                  \/ io[i] \in Holding /\ io[i] # "fresh" /\ l = "blocked"
               /\ l \notin {"drain", "create"}
  <2>1. CASE Register(i)
    <3>1. IOGoto(i, "loop") /\ io[i] = "off"
      BY <2>1, Zenon DEF Register
    <3>2. io[i] \notin Holding /\ io[i] # "process"
      BY <3>1, Zenon DEF Holding
    <3> QED
      BY <3>1, <3>2
  <2>2. CASE ReceiveStop(i)
    <3>1. IOGoto(i, "done") /\ io[i] = "loop"
      BY <2>2, Zenon DEF ReceiveStop, Got
    <3>2. io[i] \notin Holding /\ io[i] # "process"
      BY <3>1, Zenon DEF Holding
    <3> QED
      BY <3>1, <3>2
  <2>3. CASE AddBlocks(i)
    <3>1. IOGoto(i, "blocked") /\ io[i] \in {"add", "woken"}
      BY <2>3, Zenon DEF AddBlocks
    <3>2. io[i] \in Holding /\ io[i] # "fresh"
      BY <3>1, Zenon DEF Holding
    <3> QED
      BY <3>1, <3>2
  <2> QED
    BY <2>1, <2>2, <2>3
<1>4. Piped' = Piped /\ PipedOnce'
  <2>1. CASE Register(i) \/ AddBlocks(i)
    <3>1. UNCHANGED pipe
      BY <2>1, Zenon DEF Register, AddBlocks
    <3> QED
      BY <3>1, Frames, Zenon DEF Placed
  <2>2. CASE ReceiveStop(i)
    <3>1. pipe[i] # <<>> /\ Next1(i) = None /\ Pop(i)
      BY <2>2, Zenon DEF ReceiveStop, Got
    <3>2. Piped' = Piped \ {None} /\ PipedOnce'
      BY <3>1, PipePop, Zenon DEF Placed
    <3>3. None \notin Piped
      BY Fixed, Zenon DEF Piped
    <3> QED
      BY <3>2, <3>3, Zenon
  <2> QED
    BY <2>1, <2>2
<1> QED
  BY <1>1, <1>2, <1>3, <1>4, QuietLabel, Zenon

LEMMA DrainFailsStep ==
  ASSUME Types, Placed, Flow, DrainNotifyFails
  PROVE  Placed' /\ Flow' /\ Counted
<1>1. /\ io[0] = "drained" /\ IOGoto(0, "stuck") /\ UNCHANGED <<QuietVars, pipe, peer>>
  BY Zenon DEF DrainNotifyFails, QuietVars, poolVars, taskVars, clientVars
<1>2. Piped' = Piped /\ PipedOnce'
  BY <1>1, Frames, Zenon DEF Placed
<1>3. Known' = Known
  BY <1>1, SamePeer, Zenon
<1>4. io[0] \in Holding /\ io[0] # "fresh" /\ 0 \in IOThreads
  BY <1>1, Fixed, Zenon DEF Holding
<1> QED
  BY <1>1, <1>2, <1>3, <1>4, QuietLabel, Zenon

LEMMA OutsideSteps ==
  ASSUME Types, Placed, Flow,
         BeginStop \/ StopThread \/ (\E c \in Conns : Client(c)) \/ UNCHANGED vars
  PROVE  Placed' /\ Flow' /\ Counted
<1>1. UNCHANGED <<QuietVars, io, incoming>>
  BY Zenon DEF BeginStop, StopThread, Client, vars, QuietVars, poolVars, taskVars, acceptVars,
               ioVars
<1>2. Known' = Known
  <2>1. CASE \E c \in Conns : Client(c)
    <3> PICK c \in Conns : Client(c)
      BY <2>1
    <3>1. \A d \in Conns : \/ peer'[d] = peer[d]
                           \/ peer[d] = "away" /\ peer'[d] = "backlog"
                           \/ /\ peer[d] \in {"connected", "requested", "waiting", "forsaken"}
                              /\ peer'[d] \in {"requested", "hungup", "left"}
      BY Zenon DEF Client, Types
    <3> QED
      BY <3>1, Zenon DEF Known
  <2>2. CASE BeginStop \/ StopThread \/ UNCHANGED vars
    <3>1. peer' = peer
      BY <2>2, Zenon DEF BeginStop, StopThread, vars, clientVars
    <3> QED
      BY <3>1, SamePeer, Zenon
  <2> QED
    BY <2>1, <2>2
<1>3. Piped' = Piped /\ PipedOnce'
  <2>1. CASE UNCHANGED pipe
    BY <2>1, Frames, Zenon DEF Placed
  <2>2. CASE ~UNCHANGED pipe
    <3>1. stopPc \in IOThreads /\ Put(stopPc, None)
      BY <2>2, Zenon DEF BeginStop, StopThread, Client, vars
    <3>2. None \notin Piped
      BY Fixed, Zenon DEF Piped
    <3>3. Piped' = Piped \cup ({None} \ {None}) /\ PipedOnce'
      BY <3>1, <3>2, PipePut, Zenon DEF Placed
    <3> QED
      BY <3>3, Zenon
  <2> QED
    BY <2>1, <2>2
<1> QED
  BY <1>1, <1>2, <1>3, QuietStep, Zenon

LEMMA LabelsStep ==
  ASSUME Labels, Known' = Known, incoming' = incoming,
         \A j \in IOThreads : \/ io'[j] = io[j]
                              \/ io'[j] \notin {"drain", "drained", "create", "fresh"}
                              \/ j = 0 /\ io[j] \in {"drain", "drained", "create"},
         \A j \in IOThreads : io'[j] = "expire" => mutex_' = j /\ tasks_' # <<>>,
         \A w \in Workers : worker'[w] # "idle" => job'[w] \in Tasks
  PROVE  Labels'
<1>1. 0 \in IOThreads
  BY Fixed, Zenon
<1>2. \A j \in IOThreads : io'[j] \in {"drain", "drained", "create", "fresh"} => j = 0
  BY Zenon DEF Labels
<1>3. io'[0] \in {"drain", "drained", "create"} => incoming' \in Conns \ Known'
  BY <1>1, Zenon DEF Labels
<1> QED
  BY <1>2, <1>3, Zenon DEF Labels

(* With the mutex free no thread is about to expire a task.                *)
LEMMA NoneExpires ==
  ASSUME Labels, mutex_ = None
  PROVE  \A j \in IOThreads : io[j] # "expire"
  BY Fixed, Zenon DEF Labels

LEMMA TaskType ==
  ASSUME Types, Owned, NEW o \in activeConnections_
  PROVE  Task(o) \in Tasks /\ Task(o).connection = o /\ Task(o).socket = tc[o].tSocket_
<1>1. o \in Objects /\ tc[o].tSocket_ \in Conns
  BY Zenon DEF Types, Owned, Known
<1> QED
  BY <1>1 DEF Task, Tasks

(* The queue of the pool.                                                  *)
LEMMA QueueAdd ==
  ASSUME Types, Owned, NEW s \in Seq(Tasks), OnceEach(s),
         NEW o \in activeConnections_, o \notin Connections(s), tasks_' = Append(s, Task(o))
  PROVE  /\ Queued' = Connections(s) \cup {o} /\ OnceEach(tasks_)' /\ tasks_' \in Seq(Tasks)
         /\ \A k \in DOMAIN tasks_' :
               (\E l \in DOMAIN s : tasks_'[k] = s[l]) \/ tasks_'[k] = Task(o)
<1> DEFINE t == Task(o)
<1>1. t \in Tasks /\ t.connection = o
  BY TaskType, Zenon
<1> HIDE DEF t
<1>2. Connections(Append(s, t)) = Connections(s) \cup {o} /\ OnceEach(Append(s, t))
  <2>1. t.connection \notin Connections(s)
    BY <1>1, Zenon
  <2> QED
    BY <1>1, <2>1, ConnectionsAppend, Zenon
<1>3. /\ Append(s, t) \in Seq(Tasks) /\ DOMAIN Append(s, t) = DOMAIN s \cup {Len(s) + 1}
      /\ \A k \in DOMAIN s : Append(s, t)[k] = s[k]
      /\ Append(s, t)[Len(s) + 1] = t
  BY <1>1, Appended
<1>4. tasks_' = Append(s, t)
  BY DEF t
<1>5. \A k \in DOMAIN tasks_' : (\E l \in DOMAIN s : tasks_'[k] = s[l]) \/ tasks_'[k] = t
  BY <1>3, <1>4, Zenon
<1>6. Queued' = Connections(tasks_') /\ (OnceEach(tasks_)' <=> OnceEach(tasks_'))
  BY Zenon DEF Queued
<1> QED
  BY <1>2, <1>3, <1>4, <1>5, <1>6, Zenon DEF t

LEMMA QueueHead ==
  ASSUME Types, OnceEach(tasks_), tasks_ # <<>>
  PROVE  /\ Head(tasks_) \in Tasks /\ Head(tasks_).connection \in Objects
         /\ Head(tasks_).connection \in Queued
         /\ Tail(tasks_) \in Seq(Tasks) /\ OnceEach(Tail(tasks_))
         /\ Connections(Tail(tasks_)) = Queued \ {Head(tasks_).connection}
         /\ \E l \in DOMAIN tasks_ : Head(tasks_) = tasks_[l]
         /\ \A k \in DOMAIN Tail(tasks_) : \E l \in DOMAIN tasks_ : Tail(tasks_)[k] = tasks_[l]
<1>1. tasks_ \in Seq(Tasks)
  BY Zenon DEF Types
<1>2. /\ Tail(tasks_) \in Seq(Tasks) /\ Head(tasks_) \in Tasks
      /\ \E l \in DOMAIN tasks_ : Head(tasks_) = tasks_[l]
      /\ \A k \in DOMAIN Tail(tasks_) : \E l \in DOMAIN tasks_ : Tail(tasks_)[k] = tasks_[l]
  <2>1. /\ Tail(tasks_) \in Seq(Tasks) /\ Head(tasks_) \in Tasks
        /\ Head(tasks_) = tasks_[1] /\ 1 \in DOMAIN tasks_
        /\ \A k \in DOMAIN Tail(tasks_) :
              k + 1 \in DOMAIN tasks_ /\ k + 1 # 1 /\ Tail(tasks_)[k] = tasks_[k + 1]
    BY <1>1, Beheaded
  <2> QED
    BY <2>1, Zenon
<1>3. Head(tasks_).connection \in Objects
  BY <1>2, Zenon DEF Tasks
<1>4. /\ Head(tasks_).connection \in Connections(tasks_) /\ OnceEach(Tail(tasks_))
      /\ Connections(Tail(tasks_)) = Connections(tasks_) \ {Head(tasks_).connection}
  BY <1>1, ConnectionsTail, Zenon
<1> QED
  BY <1>2, <1>3, <1>4, Zenon DEF Queued

LEMMA AddTaskStep ==
  ASSUME Types, Placed, Flow, NEW i \in IOThreads, AddTask(i)
  PROVE  Placed' /\ Flow' /\ Counted
<1> DEFINE o == hand[i]
<1>1. /\ io[i] \in {"add", "woken"} /\ mutex_ = None /\ tasks_' = Append(tasks_, Task(o))
      /\ IOGoto(i, "loop") /\ mutex_' = mutex_
      /\ UNCHANGED <<tc, activeConnections_, numActiveProcessors_, incoming, hand, pipe,
                     workerVars, peer>>
  BY Zenon DEF AddTask, poolVars, acceptVars, clientVars
<1>2. io[i] \in Holding /\ "loop" \notin Holding /\ io[i] # "fresh" /\ io[i] # "process"
  BY <1>1, Zenon DEF Holding
<1>3. Held' = Held \ {o} /\ HeldOnce' /\ o \in Held
  BY <1>1, <1>2, Release, Zenon DEF Placed, IOGoto
<1>4. /\ o \in activeConnections_
      /\ o \notin Evented /\ o \notin Queued /\ o \notin Worked /\ o \notin Piped
  BY <1>3, Zenon DEF Placed, Apart, ShareOut
<1>5. io'[i] = "loop" /\ \A j \in IOThreads : j # i => io'[j] = io[j]
  BY <1>1, IoSet, Zenon
<1>6. InPool(o)
  BY <1>2, Zenon DEF Flow, Stages
<1> HIDE DEF o
<1>7. tasks_ \in Seq(Tasks) /\ OnceEach(tasks_) /\ o \notin Connections(tasks_) /\ Owned
  BY <1>4, Zenon DEF Flow, Types, Placed, Queued
<1>8. /\ Queued' = Queued \cup {o} /\ OnceEach(tasks_)'
      /\ \A k \in DOMAIN tasks_' :
            (\E l \in DOMAIN tasks_ : tasks_'[k] = tasks_[l]) \/ tasks_'[k] = Task(o)
  BY <1>1, <1>4, <1>7, QueueAdd, Zenon DEF Queued
<1>9. /\ Evented' = Evented /\ Worked' = Worked /\ Piped' = Piped /\ WorkedOnce' /\ PipedOnce'
  BY <1>1, Frames, Zenon DEF Placed
<1>10. Placed'
  <2>1. ShareOut(activeConnections_, Evented, Held \ {o}, Queued \cup {o}, Worked, Piped)
    BY <1>3, Moves, Zenon DEF Placed, Apart
  <2>2. Apart'
    BY <1>1, <1>3, <1>8, <1>9, <2>1, Zenon DEF Apart
  <2> QED
    BY <1>3, <1>8, <1>9, <2>2, Zenon DEF Placed
<1>11. Known' = Known
  BY <1>1, SamePeer, Zenon
<1>12. Labels'
  <2>1. \A j \in IOThreads : io'[j] # "expire"
    BY <1>1, <1>5, NoneExpires, Zenon DEF Flow
  <2>2. \A w \in Workers : worker'[w] # "idle" => job'[w] \in Tasks
    BY <1>1, Zenon DEF Flow, Labels, workerVars
  <2>3. \A j \in IOThreads : io'[j] = io[j]
                             \/ io'[j] \notin {"drain", "drained", "create", "fresh"}
    BY <1>5, Zenon
  <2> QED
    BY <1>1, <1>11, <2>1, <2>2, <2>3, LabelsStep, Zenon DEF Flow
<1>13. Flow' /\ Busy' = Busy
  <2>1. \A j \in IOThreads : io'[j] = "process" => io[j] = "process" /\ hand'[j] = hand[j]
    BY <1>1, <1>5, Zenon
  <2>2. \A p \in Queued' \cup Worked' : InPool(p)
    BY <1>6, <1>8, <1>9, Zenon DEF Flow, Stages
  <2>3. \A j \in IOThreads : io'[j] \in Holding => (InPool(hand'[j]) <=> io'[j] # "fresh")
    BY <1>1, <1>2, <1>5, Zenon DEF Flow, Stages
  <2>4. \A k \in DOMAIN tasks_' : \/ \E l \in DOMAIN tasks_ : tasks_'[k] = tasks_[l]
                                  \/ \E p \in activeConnections_ : tasks_'[k] = Task(p)
    BY <1>4, <1>8, Zenon
  <2>5. \A w \in Workers : worker'[w] # "idle" => worker[w] # "idle" /\ job'[w] = job[w]
    BY <1>1, Zenon DEF workerVars
  <2> QED
    BY <1>1, <1>10, <1>11, <1>12, <2>1, <2>2, <2>3, <2>4, <2>5, Passes, Zenon
<1>14. Processing' = Processing
  BY <1>2, <1>5, ProcessingSame, Zenon
<1> QED
  BY <1>1, <1>10, <1>13, <1>14, Zenon DEF Counted

LEMMA Wakes ==
  ASSUME Types, WakeAdder
  PROVE  \A j \in IOThreads : io'[j] = io[j] \/ (io[j] = "blocked" /\ io'[j] = "woken")
<1>1. CASE UNCHANGED io
  BY <1>1, Zenon
<1>2. CASE \E i \in IOThreads : io[i] = "blocked" /\ IOGoto(i, "woken")
  BY <1>2, IoSet, Zenon
<1> QED
  BY <1>1, <1>2, Zenon DEF WakeAdder

LEMMA TakeStep ==
  ASSUME Types, Placed, Flow, NEW w \in Workers, Take(w)
  PROVE  Placed' /\ Flow' /\ Counted
<1> DEFINE t == Head(tasks_)
<1> DEFINE o == t.connection
<1>1. /\ worker[w] = "idle" /\ mutex_ = None /\ tasks_ # <<>> /\ tasks_' = Tail(tasks_)
      /\ job' = [job EXCEPT ![w] = t] /\ worker' = [worker EXCEPT ![w] = "run"] /\ WakeAdder
      /\ UNCHANGED <<tc, activeConnections_, numActiveProcessors_, incoming, hand, pipe, peer>>
  BY Zenon DEF Take, poolVars, acceptVars, clientVars
<1>2. /\ t \in Tasks /\ o \in Queued /\ OnceEach(Tail(tasks_))
      /\ Connections(Tail(tasks_)) = Queued \ {o}
      /\ \E l \in DOMAIN tasks_ : t = tasks_[l]
      /\ \A k \in DOMAIN Tail(tasks_) : \E l \in DOMAIN tasks_ : Tail(tasks_)[k] = tasks_[l]
  BY <1>1, QueueHead, Zenon DEF Placed
<1> HIDE DEF t
<1>3. o \notin Worked /\ InPool(o)
  BY <1>2, InOnePlace, Zenon DEF Flow, Stages
<1>4. Worked' = Worked \cup {o} /\ WorkedOnce'
  BY <1>1, <1>3, TakesJob, Zenon DEF Placed
<1>5. Queued' = Queued \ {o} /\ OnceEach(tasks_)'
  BY <1>1, <1>2, Zenon DEF Queued
<1>6. \A j \in IOThreads : io'[j] = io[j] \/ (io[j] = "blocked" /\ io'[j] = "woken")
  BY <1>1, Wakes, Zenon
<1>7. "blocked" \in Holding /\ "woken" \in Holding
  BY Zenon DEF Holding
<1>8. Held' = Held /\ HeldOnce'
  <2>1. \A j \in IOThreads : /\ io[j] \in Holding <=> io'[j] \in Holding
                             /\ io[j] \in Holding => hand'[j] = hand[j]
    BY <1>1, <1>6, <1>7, Zenon
  <2> QED
    BY <2>1, HeldSame, Zenon DEF Placed
<1>9. Evented' = Evented /\ Piped' = Piped /\ PipedOnce'
  BY <1>1, Frames, Zenon DEF Placed
<1> HIDE DEF o
<1>10. Placed'
  <2>1. ShareOut(activeConnections_, Evented, Held, Queued \ {o}, Worked \cup {o}, Piped)
    BY <1>2, Moves, Zenon DEF Placed, Apart
  <2>2. Apart'
    BY <1>1, <1>4, <1>5, <1>8, <1>9, <2>1, Zenon DEF Apart
  <2> QED
    BY <1>4, <1>5, <1>8, <1>9, <2>2, Zenon DEF Placed
<1>11. Known' = Known
  BY <1>1, SamePeer, Zenon
<1>12. \A v \in Workers : worker'[v] # "idle" => \/ worker[v] # "idle" /\ job'[v] = job[v]
                                                 \/ job'[v] = t
  BY <1>1, Zenon DEF Types
<1>13. Labels'
  <2>1. \A j \in IOThreads : io'[j] # "expire"
    BY <1>1, <1>6, NoneExpires, Zenon DEF Flow
  <2>2. \A v \in Workers : worker'[v] # "idle" => job'[v] \in Tasks
    BY <1>2, <1>12, Zenon DEF Flow, Labels
  <2>3. \A j \in IOThreads : io'[j] = io[j]
                             \/ io'[j] \notin {"drain", "drained", "create", "fresh"}
    BY <1>6, Zenon
  <2> QED
    BY <1>1, <1>11, <2>1, <2>2, <2>3, LabelsStep, Zenon DEF Flow
<1>14. Flow' /\ Busy' = Busy
  <2>1. \A j \in IOThreads : io'[j] = "process" => io[j] = "process" /\ hand'[j] = hand[j]
    BY <1>1, <1>6, Zenon
  <2>2. \A p \in Queued' \cup Worked' : InPool(p)
    BY <1>3, <1>4, <1>5, Zenon DEF Flow, Stages
  <2>3. \A j \in IOThreads : io'[j] \in Holding => (InPool(hand'[j]) <=> io'[j] # "fresh")
    BY <1>1, <1>6, <1>7, Zenon DEF Flow, Stages
  <2>4. \A k \in DOMAIN tasks_' : \E l \in DOMAIN tasks_ : tasks_'[k] = tasks_[l]
    BY <1>1, <1>2, Zenon
  <2>5. \A v \in Workers : worker'[v] # "idle" => \/ worker[v] # "idle" /\ job'[v] = job[v]
                                                  \/ \E l \in DOMAIN tasks_ : job'[v] = tasks_[l]
    BY <1>2, <1>12, Zenon
  <2> QED
    BY <1>1, <1>10, <1>11, <1>13, <2>1, <2>2, <2>3, <2>4, <2>5, Passes, Zenon
<1>15. Processing' = Processing
  BY <1>6, ProcessingSame, Zenon
<1> QED
  BY <1>1, <1>10, <1>14, <1>15, Zenon DEF Counted

LEMMA ExpireNotifyStep ==
  ASSUME Types, Placed, Flow, NEW i \in IOThreads, ExpireNotify(i)
  PROVE  Placed' /\ Flow' /\ Counted
<1> DEFINE o == Head(tasks_).connection
<1> DEFINE h == hand[i]
<1> DEFINE s == Tail(tasks_)
<1>1. /\ io[i] = "expire" /\ Put(tc[o].ioThread_, o) /\ tasks_' = Append(s, Task(h))
      /\ IOGoto(i, "loop")
      /\ UNCHANGED <<tc, activeConnections_, numActiveProcessors_, incoming, hand, workerVars,
                     peer>>
  BY Zenon DEF ExpireNotify, poolVars, acceptVars, clientVars
<1>2. io[i] \in Holding /\ "loop" \notin Holding
  BY <1>1, Zenon DEF Holding
<1>3. tasks_ # <<>> /\ mutex_ = i
  BY <1>1, Zenon DEF Flow, Labels
<1>4. Held' = Held \ {h} /\ HeldOnce' /\ h \in Held
  BY <1>1, <1>2, Release, Zenon DEF Placed, IOGoto
<1>5. /\ o \in Queued /\ o \in Objects /\ OnceEach(s) /\ s \in Seq(Tasks)
      /\ Connections(s) = Queued \ {o}
      /\ \A k \in DOMAIN s : \E l \in DOMAIN tasks_ : s[k] = tasks_[l]
  BY <1>3, QueueHead, Zenon DEF Placed
<1>6. io'[i] = "loop" /\ \A j \in IOThreads : j # i => io'[j] = io[j]
  BY <1>1, IoSet, Zenon
<1>7. InPool(h)
  BY <1>1, <1>2, Zenon DEF Flow, Stages
<1> HIDE DEF o, h, s
<1>8. h \notin Queued /\ h \in activeConnections_ /\ o \in activeConnections_ /\ o \notin Piped
  BY <1>4, <1>5, InOnePlace, Zenon
<1>9. /\ Queued' = (Queued \ {o}) \cup {h} /\ OnceEach(tasks_)'
      /\ \A k \in DOMAIN tasks_' : (\E l \in DOMAIN s : tasks_'[k] = s[l]) \/ tasks_'[k] = Task(h)
  <2>1. h \notin Connections(s) /\ Owned
    BY <1>5, <1>8, Zenon DEF Flow
  <2>2. /\ Queued' = Connections(s) \cup {h} /\ OnceEach(tasks_)'
        /\ \A k \in DOMAIN tasks_' :
              (\E l \in DOMAIN s : tasks_'[k] = s[l]) \/ tasks_'[k] = Task(h)
    BY <1>1, <1>5, <1>8, <2>1, QueueAdd, Zenon
  <2> QED
    BY <1>5, <2>2, Zenon
<1>10. Piped' = Piped \cup {o} /\ PipedOnce'
  <2>1. tc[o].ioThread_ \in IOThreads
    BY <1>8, Zenon DEF Flow, Owned
  <2>2. Piped' = Piped \cup ({o} \ {None}) /\ PipedOnce'
    BY <1>1, <1>5, <1>8, <2>1, PipePut, Zenon DEF Placed
  <2> QED
    BY <1>5, <2>2, Fixed, Zenon
<1>11. Evented' = Evented /\ Worked' = Worked /\ WorkedOnce'
  BY <1>1, Frames, Zenon DEF Placed
<1>12. Placed'
  <2>1. ShareOut(activeConnections_, Evented, Held, Queued \ {o}, Worked, Piped \cup {o})
    BY <1>5, Moves, Zenon DEF Placed, Apart
  <2>2. ShareOut(activeConnections_, Evented, Held \ {h}, (Queued \ {o}) \cup {h}, Worked,
                 Piped \cup {o})
    BY <1>4, <2>1, Moves, Zenon
  <2>3. Apart'
    BY <1>1, <1>4, <1>9, <1>10, <1>11, <2>2, Zenon DEF Apart
  <2> QED
    BY <1>4, <1>9, <1>10, <1>11, <2>3, Zenon DEF Placed
<1>13. Known' = Known
  BY <1>1, SamePeer, Zenon
<1>14. Labels'
  <2>1. \A j \in IOThreads : io'[j] # "expire"
    BY <1>3, <1>6, Zenon DEF Flow, Labels
  <2>2. \A w \in Workers : worker'[w] # "idle" => job'[w] \in Tasks
    BY <1>1, Zenon DEF Flow, Labels, workerVars
  <2>3. \A j \in IOThreads : io'[j] = io[j]
                             \/ io'[j] \notin {"drain", "drained", "create", "fresh"}
    BY <1>6, Zenon
  <2> QED
    BY <1>1, <1>13, <2>1, <2>2, <2>3, LabelsStep, Zenon DEF Flow
<1>15. Flow' /\ Busy' = Busy
  <2>1. \A j \in IOThreads : io'[j] = "process" => io[j] = "process" /\ hand'[j] = hand[j]
    BY <1>1, <1>6, Zenon
  <2>2. \A p \in Queued' \cup Worked' : InPool(p)
    BY <1>7, <1>9, <1>11, Zenon DEF Flow, Stages
  <2>3. \A j \in IOThreads : io'[j] \in Holding => (InPool(hand'[j]) <=> io'[j] # "fresh")
    BY <1>1, <1>2, <1>6, Zenon DEF Flow, Stages
  <2>4. \A k \in DOMAIN tasks_' : \/ \E l \in DOMAIN tasks_ : tasks_'[k] = tasks_[l]
                                  \/ \E p \in activeConnections_ : tasks_'[k] = Task(p)
    BY <1>5, <1>8, <1>9, Zenon
  <2>5. \A w \in Workers : worker'[w] # "idle" => worker[w] # "idle" /\ job'[w] = job[w]
    BY <1>1, Zenon DEF workerVars
  <2> QED
    BY <1>1, <1>12, <1>13, <1>14, <2>1, <2>2, <2>3, <2>4, <2>5, Passes, Zenon
<1>16. Processing' = Processing
  BY <1>1, <1>6, ProcessingSame, Zenon
<1> QED
  BY <1>1, <1>12, <1>15, <1>16, Zenon DEF Counted

LEMMA WorkerNotifyStep ==
  ASSUME Types, Placed, Flow, NEW w \in Workers, WorkerNotify(w)
  PROVE  Placed' /\ Flow' /\ Counted
<1> DEFINE o == job[w].connection
<1>1. /\ worker[w] # "idle" /\ Put(tc[o].ioThread_, o)
      /\ worker' = [worker EXCEPT ![w] = "idle"] /\ job' = [job EXCEPT ![w] = None]
      /\ UNCHANGED <<tc, activeConnections_, numActiveProcessors_, incoming, ioVars, tasks_,
                     mutex_, peer>>
  BY Zenon DEF WorkerNotify, poolVars, acceptVars, clientVars, taskVars
<1>2. Worked' = Worked \ {o} /\ WorkedOnce' /\ o \in Worked
  BY <1>1, DropsJob, Zenon DEF Placed
<1> HIDE DEF o
<1>3. o \in activeConnections_ /\ o \in Objects /\ o \notin Piped
  BY <1>2, InOnePlace, Zenon DEF Types
<1>4. Piped' = Piped \cup {o} /\ PipedOnce'
  <2>1. tc[o].ioThread_ \in IOThreads
    BY <1>3, Zenon DEF Flow, Owned
  <2>2. Piped' = Piped \cup ({o} \ {None}) /\ PipedOnce'
    BY <1>1, <1>3, <2>1, PipePut, Zenon DEF Placed
  <2> QED
    BY <1>3, <2>2, Fixed, Zenon
<1>5. /\ Evented' = Evented /\ Held' = Held /\ Queued' = Queued
      /\ HeldOnce' /\ OnceEach(tasks_)'
  BY <1>1, Frames, Zenon DEF Placed
<1>6. Placed'
  <2>1. ShareOut(activeConnections_, Evented, Held, Queued, Worked \ {o}, Piped \cup {o})
    BY <1>2, Moves, Zenon DEF Placed, Apart
  <2>2. Apart'
    BY <1>1, <1>2, <1>4, <1>5, <2>1, Zenon DEF Apart
  <2> QED
    BY <1>2, <1>4, <1>5, <2>2, Zenon DEF Placed
<1>7. Known' = Known
  BY <1>1, SamePeer, Zenon
<1>8. \A v \in Workers : worker'[v] # "idle" => worker[v] # "idle" /\ job'[v] = job[v]
  BY <1>1, Zenon DEF Types
<1>9. io' = io /\ hand' = hand
  BY <1>1, Zenon DEF ioVars
<1>10. Labels'
  <2>1. \A v \in Workers : worker'[v] # "idle" => job'[v] \in Tasks
    BY <1>8, Zenon DEF Flow, Labels
  <2>2. \A j \in IOThreads : io'[j] = "expire" => mutex_' = j /\ tasks_' # <<>>
    BY <1>1, <1>9, Zenon DEF Flow, Labels
  <2> QED
    BY <1>1, <1>7, <1>9, <2>1, <2>2, LabelsStep, Zenon DEF Flow
<1>11. Flow' /\ Busy' = Busy
  <2>1. \A j \in IOThreads : io'[j] = "process" => io[j] = "process" /\ hand'[j] = hand[j]
    BY <1>9, Zenon
  <2>2. \A p \in Queued' \cup Worked' : InPool(p)
    BY <1>2, <1>5, Zenon DEF Flow, Stages
  <2>3. \A j \in IOThreads : io'[j] \in Holding => (InPool(hand'[j]) <=> io'[j] # "fresh")
    BY <1>9, Zenon DEF Flow, Stages
  <2>4. \A k \in DOMAIN tasks_' : \E l \in DOMAIN tasks_ : tasks_'[k] = tasks_[l]
    BY <1>1, Zenon
  <2> QED
    BY <1>1, <1>6, <1>7, <1>8, <1>10, <2>1, <2>2, <2>3, <2>4, Passes, Zenon
<1>12. Processing' = Processing
  BY <1>9, ProcessingSame, Zenon
<1> QED
  BY <1>1, <1>6, <1>11, <1>12, Zenon DEF Counted

LEMMA HandlerNotifyStep ==
  ASSUME Types, Placed, Flow, DrainNotify \/ FreshNotify
  PROVE  Placed' /\ Flow' /\ Counted
<1> DEFINE o == hand[0]
<1>1. /\ io[0] \in {"drained", "fresh"} /\ Put(tc[o].ioThread_, o)
      /\ UNCHANGED <<tc, activeConnections_, numActiveProcessors_, incoming, hand, tasks_,
                     mutex_, workerVars, peer>>
  BY Zenon DEF DrainNotify, FreshNotify, poolVars, acceptVars, clientVars, taskVars
<1>2. PICK l \in {"create", "loop"} : IOGoto(0, l) /\ (l = "create" => io[0] = "drained")
  BY DEF DrainNotify, FreshNotify
<1>3. io[0] \in Holding /\ l \notin Holding /\ 0 \in IOThreads
  BY <1>1, Fixed, Zenon DEF Holding
<1>4. Held' = Held \ {o} /\ HeldOnce' /\ o \in Held
  BY <1>1, <1>2, <1>3, Release, Zenon DEF Placed, IOGoto
<1>5. io'[0] = l /\ \A j \in IOThreads : j # 0 => io'[j] = io[j]
  BY <1>2, <1>3, IoSet, Zenon
<1> HIDE DEF o
<1>6. o \in activeConnections_ /\ o \in Objects /\ o \notin Piped
  BY <1>4, InOnePlace, Zenon DEF Types
<1>7. Piped' = Piped \cup {o} /\ PipedOnce'
  <2>1. tc[o].ioThread_ \in IOThreads
    BY <1>6, Zenon DEF Flow, Owned
  <2>2. Piped' = Piped \cup ({o} \ {None}) /\ PipedOnce'
    BY <1>1, <1>6, <2>1, PipePut, Zenon DEF Placed
  <2> QED
    BY <1>6, <2>2, Fixed, Zenon
<1>8. /\ Evented' = Evented /\ Queued' = Queued /\ Worked' = Worked
      /\ OnceEach(tasks_)' /\ WorkedOnce'
  BY <1>1, Frames, Zenon DEF Placed
<1>9. Placed'
  <2>1. ShareOut(activeConnections_, Evented, Held \ {o}, Queued, Worked, Piped \cup {o})
    BY <1>4, Moves, Zenon DEF Placed, Apart
  <2>2. Apart'
    BY <1>1, <1>4, <1>7, <1>8, <2>1, Zenon DEF Apart
  <2> QED
    BY <1>4, <1>7, <1>8, <2>2, Zenon DEF Placed
<1>10. Known' = Known
  BY <1>1, SamePeer, Zenon
<1>11. Labels'
  <2>1. \A j \in IOThreads : io'[j] = "expire" => mutex_' = j /\ tasks_' # <<>>
    BY <1>1, <1>2, <1>5, Zenon DEF Flow, Labels
  <2>2. \A w \in Workers : worker'[w] # "idle" => job'[w] \in Tasks
    BY <1>1, Zenon DEF Flow, Labels, workerVars
  <2>3. \A j \in IOThreads : \/ io'[j] = io[j]
                             \/ io'[j] \notin {"drain", "drained", "create", "fresh"}
                             \/ j = 0 /\ io[j] \in {"drain", "drained", "create"}
    BY <1>2, <1>5
  <2> QED
    BY <1>1, <1>10, <2>1, <2>2, <2>3, LabelsStep, Zenon DEF Flow
<1>12. Flow' /\ Busy' = Busy
  <2>1. \A j \in IOThreads : io'[j] = "process" => io[j] = "process" /\ hand'[j] = hand[j]
    BY <1>1, <1>2, <1>5, Zenon
  <2>2. \A p \in Queued' \cup Worked' : InPool(p)
    BY <1>8, Zenon DEF Flow, Stages
  <2>3. \A j \in IOThreads : io'[j] \in Holding => (InPool(hand'[j]) <=> io'[j] # "fresh")
    BY <1>1, <1>3, <1>5, Zenon DEF Flow, Stages
  <2>4. \A k \in DOMAIN tasks_' : \E l2 \in DOMAIN tasks_ : tasks_'[k] = tasks_[l2]
    BY <1>1, Zenon
  <2>5. \A w \in Workers : worker'[w] # "idle" => worker[w] # "idle" /\ job'[w] = job[w]
    BY <1>1, Zenon DEF workerVars
  <2> QED
    BY <1>1, <1>9, <1>10, <1>11, <2>1, <2>2, <2>3, <2>4, <2>5, Passes, Zenon
<1>13. Processing' = Processing
  <2>1. \A j \in IOThreads : io'[j] = "process" <=> io[j] = "process"
    BY <1>1, <1>2, <1>5, Zenon
  <2> QED
    BY <2>1, ProcessingSame, Zenon
<1> QED
  BY <1>1, <1>9, <1>12, <1>13, Zenon DEF Counted

-----------------------------------------------------------------------------
(* Steps that change one connection.                                       *)

(* Only connection o changes, and keeps its client and its IO thread.      *)
Alters(o) ==
    /\ activeConnections_' = activeConnections_ /\ \A p \in Objects \ {o} : tc'[p] = tc[p]
    /\ tc'[o].ioThread_ = tc[o].ioThread_ /\ tc'[o].tSocket_ = tc[o].tSocket_

(* What it holds then, and whether its place agrees with its state.        *)
Fits(o) ==
    /\ tc'[o].appState_ = "WAIT_TASK" => tc'[o].output \in {None, tc[o].tSocket_}
    /\ tc'[o].appState_ = "SEND_RESULT" => tc'[o].output = tc[o].tSocket_
    /\ \A p \in Evented' : p \in Evented \ {o} \/ (p = o /\ ~InPool(o)')
    /\ \A p \in Queued' \cup Worked' : p \in (Queued \cup Worked) \ {o} \/ (p = o /\ InPool(o)')
    /\ \A j \in IOThreads : io'[j] \in Holding =>
          \/ /\ io[j] \in Holding /\ hand'[j] = hand[j] /\ hand[j] # o
             /\ io'[j] = "fresh" <=> io[j] = "fresh"
          \/ hand'[j] = o /\ InPool(o)' /\ io'[j] # "fresh"

(* There are no new tasks.                                                 *)
OldTasks ==
    /\ \A k \in DOMAIN tasks_' : \E l \in DOMAIN tasks_ : tasks_'[k] = tasks_[l]
    /\ \A w \in Workers : worker'[w] # "idle" =>
          \/ worker[w] # "idle" /\ job'[w] = job[w]
          \/ \E l \in DOMAIN tasks_ : job'[w] = tasks_[l]

LEMMA Rewrites ==
  ASSUME Types, Placed, Flow, NEW o \in activeConnections_, Placed', Inline', Labels',
         Known' = Known, Alters(o), Fits(o), OldTasks
  PROVE  Flow'
<1>1. activeConnections_ \subseteq Objects /\ o \in Objects
  BY Zenon DEF Types
<1>2. Owned' /\ Carries
  BY <1>1, RewriteOwned, Zenon DEF Flow, Alters
<1>3. TaskResults'
  BY <1>2, TaskResultsKept, Zenon DEF Flow, OldTasks
<1>4. Outputs'
  <2>1. ASSUME NEW p \in activeConnections_
        PROVE  /\ tc'[p].appState_ = "WAIT_TASK" => tc'[p].output \in {None, tc'[p].tSocket_}
               /\ tc'[p].appState_ = "SEND_RESULT" => tc'[p].output = tc'[p].tSocket_
    <3>1. CASE p = o
      BY <3>1, Zenon DEF Alters, Fits
    <3>2. CASE p # o
      BY <1>1, <3>2, Zenon DEF Flow, Outputs, Alters
    <3> QED
      BY <3>1, <3>2
  <2> QED
    BY <2>1, Zenon DEF Outputs, Alters
<1>5. Stages'
  <2>1. ASSUME NEW p, p \in activeConnections_, p # o PROVE InPool(p)' <=> InPool(p)
    BY <1>1, <2>1, Zenon DEF InPool, Alters
  <2>2. \A p \in Evented' : ~InPool(p)'
    BY <2>1, Places, Zenon DEF Flow, Stages, Fits
  <2>3. ASSUME NEW p \in Queued' \cup Worked' PROVE InPool(p)'
    <3>1. CASE p \in (Queued \cup Worked) \ {o}
      <4>1. p \in activeConnections_
        BY <3>1, InOnePlace, Zenon
      <4> QED
        BY <2>1, <3>1, <4>1, Zenon DEF Flow, Stages
    <3> QED
      BY <3>1, Zenon DEF Fits
  <2>4. ASSUME NEW j \in IOThreads, io'[j] \in Holding
        PROVE  InPool(hand[j])' <=> io'[j] # "fresh"
    <3>1. CASE /\ io[j] \in Holding /\ hand'[j] = hand[j] /\ hand[j] # o
               /\ io'[j] = "fresh" <=> io[j] = "fresh"
      <4>1. hand[j] \in activeConnections_
        BY <3>1, Places, Zenon
      <4>2. tc'[hand'[j]] = tc[hand[j]]
        BY <1>1, <3>1, <4>1, Zenon DEF Alters
      <4> QED
        BY <3>1, <4>2, Zenon DEF Flow, Stages, InPool
    <3>2. CASE hand'[j] = o /\ InPool(o)' /\ io'[j] # "fresh"
      BY <3>2, Zenon DEF InPool
    <3> QED
      BY <2>4, <3>1, <3>2, Zenon DEF Fits
  <2> QED
    BY <2>2, <2>3, <2>4, Zenon DEF Stages
<1> QED
  BY <1>2, <1>3, <1>4, <1>5, Zenon DEF Flow

LEMMA SameThreads ==
  ASSUME Flow, UNCHANGED <<ioVars, tasks_, mutex_, incoming>>, Known' = Known,
         \A w \in Workers : worker'[w] # "idle" => worker[w] # "idle" /\ job'[w] = job[w]
  PROVE  Labels' /\ Processing' = Processing /\ OldTasks
<1>1. io' = io /\ hand' = hand
  BY Zenon DEF ioVars
<1>2. Labels'
  <2>1. \A w \in Workers : worker'[w] # "idle" => job'[w] \in Tasks
    BY Zenon DEF Flow, Labels
  <2>2. \A j \in IOThreads : io'[j] = "expire" => mutex_' = j /\ tasks_' # <<>>
    BY <1>1, Zenon DEF Flow, Labels
  <2> QED
    BY <1>1, <2>1, <2>2, LabelsStep, Zenon DEF Flow
<1>3. Processing' = Processing
  BY <1>1, ProcessingSame, Zenon
<1> QED
  BY <1>2, <1>3, Zenon DEF OldTasks

LEMMA EventStep ==
  ASSUME Types, Placed, Flow, NEW i \in IOThreads, NEW o \in Objects,
         ReadFrameSize(i, o) \/ SendResult(i, o)
  PROVE  Placed' /\ Flow' /\ Counted
<1>1. /\ io[i] = "loop" /\ tc[o].ioThread_ = i /\ tc[o].eventFlags_ # "none"
      /\ UNCHANGED <<activeConnections_, numActiveProcessors_, incoming, pipe, tasks_, mutex_,
                     ioVars, workerVars>>
  BY Zenon DEF ReadFrameSize, SendResult, poolVars, acceptVars, taskVars
<1>2. o \in Evented /\ tc[o] \in Connection
  BY <1>1, Zenon DEF Evented, Types
<1>3. /\ o \in activeConnections_ /\ ~InPool(o) /\ tc[o].tSocket_ \in Conns
      /\ o \notin Held \cup Queued \cup Worked \cup Piped
  BY <1>2, InOnePlace, Zenon DEF Flow, Stages, Owned, Known
<1>4. PICK r \in Connection : /\ tc' = [tc EXCEPT ![o] = r] /\ r.eventFlags_ # "none"
                              /\ r.appState_ \in {"READ_FRAME_SIZE", "READ_REQUEST"}
                              /\ r.ioThread_ = tc[o].ioThread_ /\ r.tSocket_ = tc[o].tSocket_
  <2>1. CASE ReadFrameSize(i, o)
    <3>1. tc' = [tc EXCEPT ![o] = Framed(tc[o])]
      BY <2>1, Zenon DEF ReadFrameSize
    <3> QED
      BY <1>1, <1>2, <3>1, FramedFields, Zenon
  <2>2. CASE SendResult(i, o)
    <3>1. tc' = [tc EXCEPT ![o] = Reading(tc[o])]
      BY <2>2, Zenon DEF SendResult
    <3> QED
      BY <1>1, <1>2, <3>1, ReadingFields, Zenon
  <2> QED
    BY <2>1, <2>2
<1>5. Known' = Known
  BY <1>3, SamePeer, ServedPeer, ZenonT(30) DEF ReadFrameSize, SendResult, clientVars
<1>6. tc'[o] = r /\ (\A p \in Objects \ {o} : tc'[p] = tc[p]) /\ Evented' = Evented \cup {o}
  BY <1>4, Touch, Zenon
<1>7. ~InPool(o)' /\ tc'[o].appState_ \notin {"WAIT_TASK", "SEND_RESULT"}
  BY <1>4, <1>6, Zenon DEF InPool
<1>8. Placed'
  <2>1. /\ Held' = Held /\ Queued' = Queued /\ Worked' = Worked /\ Piped' = Piped
        /\ HeldOnce' /\ OnceEach(tasks_)' /\ WorkedOnce' /\ PipedOnce'
    BY <1>1, Frames, Zenon DEF Placed
  <2>2. Evented' = Evented
    BY <1>2, <1>6, Zenon
  <2>3. Apart'
    BY <1>1, <2>1, <2>2, Zenon DEF Placed, Apart
  <2> QED
    BY <2>1, <2>3, Zenon DEF Placed
<1>9. io' = io /\ hand' = hand /\ worker' = worker /\ job' = job
  BY <1>1, Zenon DEF ioVars, workerVars
<1>10. Inline'
  <2>1. \A j \in IOThreads : io'[j] = "process" =>
             io[j] = "process" /\ hand'[j] = hand[j] /\ hand[j] # o
    BY <1>1, <1>9, NotInline, Zenon DEF Flow
  <2> QED
    BY <1>6, <2>1, InlineKept, Zenon DEF Flow
<1>11. Labels' /\ Processing' = Processing /\ OldTasks
  BY <1>1, <1>5, <1>9, SameThreads, Zenon
<1>12. Flow'
  <2>1. \A p \in Evented' : p \in Evented \ {o} \/ (p = o /\ ~InPool(o)')
    BY <1>6, <1>7, Zenon
  <2>2. Queued' = Queued /\ Worked' = Worked
    BY <1>1, Frames, Zenon
  <2>3. \A p \in Queued' \cup Worked' : p \in (Queued \cup Worked) \ {o}
    BY <1>3, <2>2, Zenon
  <2>4. \A j \in IOThreads : io'[j] \in Holding =>
             /\ io[j] \in Holding /\ hand'[j] = hand[j] /\ hand[j] # o
             /\ io'[j] = "fresh" <=> io[j] = "fresh"
    BY <1>3, <1>9, Zenon DEF Held
  <2>5. Alters(o)
    BY <1>1, <1>4, <1>6, Zenon DEF Alters
  <2>6. Fits(o)
    BY <1>7, <2>1, <2>3, <2>4, Zenon DEF Fits
  <2> QED
    BY <1>3, <1>5, <1>8, <1>10, <1>11, <2>5, <2>6, Rewrites, Zenon
<1>13. Busy' = Busy
  BY <1>1, <1>3, <1>6, <1>7, BusyRewrite, Zenon DEF Busy
<1> QED
  BY <1>1, <1>8, <1>11, <1>12, <1>13, Zenon DEF Counted

LEMMA ReadRequestStep ==
  ASSUME Types, Placed, Flow, NEW i \in IOThreads, NEW o \in Objects, ReadRequest(i, o)
  PROVE  Placed' /\ Flow' /\ Counted
<1>1. /\ io[i] = "loop" /\ tc[o].ioThread_ = i /\ tc[o].eventFlags_ # "none"
      /\ tc[o].appState_ = "READ_REQUEST" /\ hand' = [hand EXCEPT ![i] = o]
      /\ numActiveProcessors_' = numActiveProcessors_ + 1
      /\ UNCHANGED <<activeConnections_, incoming, pipe, tasks_, mutex_, workerVars>>
  BY Zenon DEF ReadRequest, poolVars, acceptVars, taskVars
<1>2. o \in Evented /\ tc[o] \in Connection
  BY <1>1, Zenon DEF Evented, Types
<1>3. /\ o \in activeConnections_ /\ ~InPool(o) /\ tc[o].tSocket_ \in Known
      /\ o \notin Held /\ o \notin Queued /\ o \notin Worked /\ o \notin Piped
  BY <1>2, InOnePlace, Zenon DEF Flow, Stages, Owned
<1>4. Known' = Known
  <2>1. PICK v \in {"hungup", "waiting"} : peer' = [peer EXCEPT ![tc[o].tSocket_] = v]
    BY Zenon DEF ReadRequest
  <2>2. tc[o].tSocket_ \in Conns /\ v \notin {"away", "backlog"}
    BY <1>3, Zenon DEF Known
  <2> QED
    <3>1. Known' = Known \cup {tc[o].tSocket_}
      BY <2>1, <2>2, PeerSet, Zenon
    <3> QED
      BY <1>3, <3>1, Zenon
<1>5. /\ Queued' = Queued /\ Worked' = Worked /\ Piped' = Piped
      /\ OnceEach(tasks_)' /\ WorkedOnce' /\ PipedOnce'
  BY <1>1, Frames, Zenon DEF Placed
<1>6. /\ hand'[i] = o /\ \A j \in IOThreads : j # i => hand'[j] = hand[j]
  BY <1>1, Zenon DEF Types
<1>7. OldTasks /\ \A w \in Workers : worker'[w] # "idle" => job'[w] \in Tasks
  BY <1>1, Zenon DEF workerVars, Flow, Labels, OldTasks
<1>8. \A p \in Queued' \cup Worked' : p \in (Queued \cup Worked) \ {o}
  BY <1>3, <1>5, Zenon
<1>9. \A j \in IOThreads : io[j] = "process" => hand[j] # o
  BY <1>1, NotInline, Zenon DEF Flow
<1>10. \A j \in IOThreads : io[j] \in Holding => hand[j] # o
  BY <1>3, Zenon DEF Held
<1>11. CASE /\ IOGoto(i, "add") /\ tc' = [tc EXCEPT ![o] = Waiting(Emptied(tc[o]))]
  <2>1. io'[i] = "add" /\ \A j \in IOThreads : j # i => io'[j] = io[j]
    BY <1>11, IoSet, Zenon
  <2>2. "add" \in Holding /\ io[i] \notin Holding /\ io[i] # "process" /\ "add" # "fresh"
    BY <1>1, Zenon DEF Holding
  <2>3. PICK r \in Connection : /\ tc' = [tc EXCEPT ![o] = r] /\ r.eventFlags_ = "none"
                                /\ r.appState_ = "WAIT_TASK" /\ r.output = None
                                /\ r.ioThread_ = tc[o].ioThread_ /\ r.tSocket_ = tc[o].tSocket_
    <3> DEFINE e == Emptied(tc[o])
    <3>1. /\ e \in Connection /\ e.output = None
          /\ e.ioThread_ = tc[o].ioThread_ /\ e.tSocket_ = tc[o].tSocket_
      BY <1>2, EmptiedFields, Zenon
    <3>2. tc' = [tc EXCEPT ![o] = Waiting(e)]
      BY <1>11, Zenon
    <3> HIDE DEF e
    <3>3. /\ Waiting(e) \in Connection /\ Waiting(e).appState_ = "WAIT_TASK"
          /\ Waiting(e).eventFlags_ = "none" /\ Waiting(e).ioThread_ = tc[o].ioThread_
          /\ Waiting(e).tSocket_ = tc[o].tSocket_ /\ Waiting(e).output = None
      BY <3>1, WaitingFields, Zenon
    <3> QED
      BY <3>2, <3>3, Zenon
  <2>4. tc'[o] = r /\ (\A p \in Objects \ {o} : tc'[p] = tc[p]) /\ Evented' = Evented \ {o}
    BY <2>3, Touch, Zenon
  <2>5. InPool(o)' /\ tc'[o].appState_ # "SEND_RESULT" /\ tc'[o].output = None
    BY <2>3, <2>4, Zenon DEF InPool
  <2>6. Held' = Held \cup {o} /\ HeldOnce'
    BY <1>1, <1>3, <1>11, <2>2, Grasp, Zenon DEF Placed, IOGoto
  <2>7. Placed'
    <3>1. ShareOut(activeConnections_, Evented \ {o}, Held \cup {o}, Queued, Worked, Piped)
      BY <1>2, Moves, Zenon DEF Placed, Apart
    <3>2. Apart'
      BY <1>1, <1>5, <2>4, <2>6, <3>1, Zenon DEF Apart
    <3> QED
      BY <1>5, <2>6, <3>2, Zenon DEF Placed
  <2>8. Labels'
    <3>1. \A j \in IOThreads : io'[j] = "expire" => mutex_' = j /\ tasks_' # <<>>
      BY <1>1, <2>1, Zenon DEF Flow, Labels
    <3>2. \A j \in IOThreads : io'[j] = io[j]
                               \/ io'[j] \notin {"drain", "drained", "create", "fresh"}
      BY <2>1, Zenon
    <3> QED
      BY <1>1, <1>4, <1>7, <3>1, <3>2, LabelsStep, Zenon DEF Flow
  <2>9. Inline'
    <3>1. \A j \in IOThreads : io'[j] = "process" =>
               io[j] = "process" /\ hand'[j] = hand[j] /\ hand[j] # o
      BY <1>6, <1>9, <2>1, Zenon
    <3> QED
      BY <2>4, <3>1, InlineKept, Zenon DEF Flow
  <2>10. Flow'
    <3>1. \A p \in Evented' : p \in Evented \ {o}
      BY <2>4, Zenon
    <3>2. \A j \in IOThreads : io'[j] \in Holding =>
             \/ /\ io[j] \in Holding /\ hand'[j] = hand[j] /\ hand[j] # o
                /\ io'[j] = "fresh" <=> io[j] = "fresh"
             \/ hand'[j] = o /\ InPool(o)' /\ io'[j] # "fresh"
      BY <1>6, <1>10, <2>1, <2>2, <2>5, Zenon
    <3>3. Alters(o)
      BY <1>1, <2>3, <2>4, Zenon DEF Alters
    <3>4. Fits(o)
      BY <1>8, <2>5, <3>1, <3>2, Zenon DEF Fits
    <3> QED
      BY <1>3, <1>4, <1>7, <2>7, <2>8, <2>9, <3>3, <3>4, Rewrites, Zenon
  <2>11. Counted
    <3>1. Busy' = Busy \cup {o} /\ o \notin Busy
      BY <1>1, <1>3, <2>4, <2>5, BusyRewrite, Zenon DEF Busy
    <3>2. Processing' = Processing
      BY <2>1, <2>2, ProcessingSame, Zenon
    <3> QED
      BY <1>1, <3>1, <3>2, Zenon DEF Counted
  <2> QED
    BY <2>7, <2>10, <2>11
<1>12. CASE /\ IOGoto(i, "process") /\ tc' = [tc EXCEPT ![o] = Emptied(tc[o])]
  <2>1. io'[i] = "process" /\ \A j \in IOThreads : j # i => io'[j] = io[j]
    BY <1>12, IoSet, Zenon
  <2>2. "process" \notin Holding /\ io[i] \notin Holding
    BY <1>1, Zenon DEF Holding
  <2>3. PICK r \in Connection : /\ tc' = [tc EXCEPT ![o] = r] /\ r.eventFlags_ # "none"
                                /\ r.appState_ = "READ_REQUEST" /\ r.output = None
                                /\ r.ioThread_ = tc[o].ioThread_ /\ r.tSocket_ = tc[o].tSocket_
    <3> DEFINE e == Emptied(tc[o])
    <3>1. /\ e \in Connection /\ e.output = None /\ e.appState_ = tc[o].appState_
          /\ e.ioThread_ = tc[o].ioThread_ /\ e.tSocket_ = tc[o].tSocket_
          /\ e.eventFlags_ = tc[o].eventFlags_
      BY <1>2, EmptiedFields, Zenon
    <3>2. tc' = [tc EXCEPT ![o] = e]
      BY <1>12, Zenon
    <3> HIDE DEF e
    <3> QED
      BY <1>1, <3>1, <3>2, Zenon
  <2>4. tc'[o] = r /\ (\A p \in Objects \ {o} : tc'[p] = tc[p]) /\ Evented' = Evented \cup {o}
    BY <2>3, Touch, Zenon
  <2>5. ~InPool(o)' /\ tc'[o].appState_ \notin {"WAIT_TASK", "SEND_RESULT"}
    BY <2>3, <2>4, Zenon DEF InPool
  <2>6. Held' = Held /\ HeldOnce'
    <3>1. \A j \in IOThreads : /\ io[j] \in Holding <=> io'[j] \in Holding
                               /\ io[j] \in Holding => hand'[j] = hand[j]
      BY <1>6, <2>1, <2>2, Zenon
    <3> QED
      BY <3>1, HeldSame, Zenon DEF Placed
  <2>7. Placed'
    <3>1. Evented' = Evented
      BY <1>2, <2>4, Zenon
    <3>2. Apart'
      BY <1>1, <1>5, <2>6, <3>1, Zenon DEF Apart, Placed
    <3> QED
      BY <1>5, <2>6, <3>2, Zenon DEF Placed
  <2>8. Labels'
    <3>1. \A j \in IOThreads : io'[j] = "expire" => mutex_' = j /\ tasks_' # <<>>
      BY <1>1, <2>1, Zenon DEF Flow, Labels
    <3>2. \A j \in IOThreads : io'[j] = io[j]
                               \/ io'[j] \notin {"drain", "drained", "create", "fresh"}
      BY <2>1, Zenon
    <3> QED
      BY <1>1, <1>4, <1>7, <3>1, <3>2, LabelsStep, Zenon DEF Flow
  <2>9. Inline'
    <3>1. ASSUME NEW j \in IOThreads, io'[j] = "process", j # i
          PROVE  /\ hand'[j] \in Evented' /\ tc'[hand'[j]].ioThread_ = j
                 /\ tc'[hand'[j]].output = None
      <4>1. io[j] = "process" /\ hand'[j] = hand[j] /\ hand[j] # o
        BY <1>6, <1>9, <2>1, <3>1, Zenon
      <4>2. hand[j] \in Evented /\ tc[hand[j]].ioThread_ = j /\ tc[hand[j]].output = None
        BY <4>1, Zenon DEF Flow, Inline
      <4>3. tc'[hand[j]] = tc[hand[j]]
        BY <2>4, <4>1, <4>2, Zenon DEF Evented
      <4> QED
        BY <2>4, <4>1, <4>2, <4>3, Zenon
    <3>2. hand'[i] \in Evented' /\ tc'[hand'[i]].ioThread_ = i /\ tc'[hand'[i]].output = None
      <4>1. o \in Evented' /\ tc'[o].ioThread_ = i /\ tc'[o].output = None
        BY <1>1, <2>3, <2>4, Zenon
      <4> QED
        BY <1>6, <4>1, Zenon
    <3> QED
      BY <3>1, <3>2, Zenon DEF Inline
  <2>10. Flow'
    <3>1. \A p \in Evented' : p \in Evented \ {o} \/ (p = o /\ ~InPool(o)')
      BY <2>4, <2>5, Zenon
    <3>2. \A j \in IOThreads : io'[j] \in Holding =>
             /\ io[j] \in Holding /\ hand'[j] = hand[j] /\ hand[j] # o
             /\ io'[j] = "fresh" <=> io[j] = "fresh"
      BY <1>6, <1>10, <2>1, <2>2, Zenon
    <3>3. Alters(o)
      BY <1>1, <2>3, <2>4, Zenon DEF Alters
    <3>4. Fits(o)
      BY <1>8, <2>5, <3>1, <3>2, Zenon DEF Fits
    <3> QED
      BY <1>3, <1>4, <1>7, <2>7, <2>8, <2>9, <3>3, <3>4, Rewrites, Zenon
  <2>11. Counted
    <3>1. Busy' = Busy
      BY <1>1, <1>3, <2>4, <2>5, BusyRewrite, Zenon DEF Busy
    <3>2. Processing' = Processing \cup {i} /\ i \notin Processing
      BY <1>1, <2>1, Zenon DEF Processing
    <3> QED
      BY <1>1, <3>1, <3>2, Zenon DEF Counted
  <2> QED
    BY <2>7, <2>10, <2>11
<1> QED
  BY <1>11, <1>12, Zenon DEF ReadRequest

LEMMA ProcessStep ==
  ASSUME Types, Placed, Flow, NEW i \in IOThreads, Process(i)
  PROVE  Placed' /\ Flow' /\ Counted
<1>0. PICK o : o = hand[i]
  OBVIOUS
<1>1. /\ io[i] = "process" /\ IOGoto(i, "loop") /\ numActiveProcessors_' = Decremented
      /\ UNCHANGED <<activeConnections_, incoming, hand, pipe, tasks_, mutex_, workerVars>>
  BY Zenon DEF Process, poolVars, acceptVars, taskVars
<1>2. o \in Evented /\ tc[o].ioThread_ = i /\ tc[o].output = None
  BY <1>0, <1>1, Zenon DEF Flow, Inline
<1>3. PICK result \in {tc[o].output, tc[o].tSocket_} :
        /\ tc' = [tc EXCEPT ![o] = Answering([tc[o] EXCEPT !.output = result])]
        /\ IF result = None THEN Served(tc[o].tSocket_) ELSE UNCHANGED peer
  BY <1>0, Zenon DEF Process
<1>4. io'[i] = "loop" /\ \A j \in IOThreads : j # i => io'[j] = io[j]
  BY <1>1, IoSet, Zenon
<1>5. \A j \in IOThreads : io[j] = "process" /\ j # i => hand[j] # o
  BY <1>2, Zenon DEF Flow, Inline
<1>6. /\ o \in Objects /\ o \in activeConnections_ /\ ~InPool(o) /\ tc[o].tSocket_ \in Conns
      /\ tc[o] \in Connection
      /\ o \notin Held /\ o \notin Queued /\ o \notin Worked /\ o \notin Piped
  BY <1>2, InOnePlace, Zenon DEF Flow, Stages, Owned, Known, Types, Evented
<1>7. Known' = Known
  BY <1>3, <1>6, SamePeer, ServedPeer, ZenonT(30)
<1>8. PICK r \in Connection :
        /\ tc' = [tc EXCEPT ![o] = r] /\ r.eventFlags_ # "none"
        /\ \/ r.appState_ = "READ_FRAME_SIZE"
           \/ r.appState_ = "SEND_RESULT" /\ r.output = tc[o].tSocket_
        /\ r.ioThread_ = tc[o].ioThread_ /\ r.tSocket_ = tc[o].tSocket_
  <2> DEFINE x == [tc[o] EXCEPT !.output = result]
  <2>1. result \in Conns \cup {None}
    BY <1>2, <1>6, Zenon
  <2>2. /\ x \in Connection /\ x.output = result
        /\ x.ioThread_ = tc[o].ioThread_ /\ x.tSocket_ = tc[o].tSocket_
    BY <1>6, <2>1, OutputFields, Zenon
  <2>3. tc' = [tc EXCEPT ![o] = Answering(x)]
    BY <1>3, Zenon
  <2> HIDE DEF x
  <2>4. /\ Answering(x) \in Connection /\ Answering(x).eventFlags_ # "none"
        /\ Answering(x).appState_ = IF result = None THEN "READ_FRAME_SIZE" ELSE "SEND_RESULT"
        /\ Answering(x).ioThread_ = tc[o].ioThread_
        /\ Answering(x).tSocket_ = tc[o].tSocket_ /\ Answering(x).output = result
    BY <2>2, AnsweringFields, Zenon
  <2> QED
    BY <1>2, <2>3, <2>4, Zenon
<1>9. tc'[o] = r /\ (\A p \in Objects \ {o} : tc'[p] = tc[p]) /\ Evented' = Evented \cup {o}
  BY <1>6, <1>8, Touch, Zenon
<1>10. ~InPool(o)' /\ tc'[o].appState_ # "WAIT_TASK"
  BY <1>8, <1>9, Zenon DEF InPool
<1>11. Held' = Held /\ HeldOnce'
  <2>1. \A j \in IOThreads : /\ io[j] \in Holding <=> io'[j] \in Holding
                             /\ io[j] \in Holding => hand'[j] = hand[j]
    BY <1>1, <1>4, Zenon DEF Holding
  <2> QED
    BY <2>1, HeldSame, Zenon DEF Placed
<1>12. /\ Queued' = Queued /\ Worked' = Worked /\ Piped' = Piped
       /\ OnceEach(tasks_)' /\ WorkedOnce' /\ PipedOnce'
  BY <1>1, Frames, Zenon DEF Placed
<1>13. Placed'
  <2>1. Evented' = Evented
    BY <1>2, <1>9, Zenon
  <2>2. Apart'
    BY <1>1, <1>11, <1>12, <2>1, Zenon DEF Apart, Placed
  <2> QED
    BY <1>11, <1>12, <2>2, Zenon DEF Placed
<1>14. Labels' /\ OldTasks
  <2>1. \A j \in IOThreads : io'[j] = "expire" => mutex_' = j /\ tasks_' # <<>>
    BY <1>1, <1>4, Zenon DEF Flow, Labels
  <2>2. \A j \in IOThreads : io'[j] = io[j]
                             \/ io'[j] \notin {"drain", "drained", "create", "fresh"}
    BY <1>4, Zenon
  <2>3. OldTasks /\ \A w \in Workers : worker'[w] # "idle" => job'[w] \in Tasks
    BY <1>1, Zenon DEF workerVars, Flow, Labels, OldTasks
  <2> QED
    BY <1>1, <1>7, <2>1, <2>2, <2>3, LabelsStep, Zenon DEF Flow
<1>15. Inline'
  <2>1. \A j \in IOThreads : io'[j] = "process" =>
             io[j] = "process" /\ hand'[j] = hand[j] /\ hand[j] # o
    BY <1>1, <1>4, <1>5, Zenon
  <2> QED
    BY <1>6, <1>9, <2>1, InlineKept, Zenon DEF Flow
<1>16. Flow'
  <2>1. Alters(o)
    BY <1>1, <1>8, <1>9, Zenon DEF Alters
  <2>2. \A p \in Evented' : p \in Evented \ {o} \/ (p = o /\ ~InPool(o)')
    BY <1>9, <1>10, Zenon
  <2>3. \A p \in Queued' \cup Worked' : p \in (Queued \cup Worked) \ {o}
    BY <1>6, <1>12, Zenon
  <2>4. \A j \in IOThreads : io'[j] \in Holding =>
             /\ io[j] \in Holding /\ hand'[j] = hand[j] /\ hand[j] # o
             /\ io'[j] = "fresh" <=> io[j] = "fresh"
    BY <1>1, <1>4, <1>6, Zenon DEF Held, Holding
  <2>5. tc'[o].appState_ = "SEND_RESULT" => tc'[o].output = tc[o].tSocket_
    BY <1>8, <1>9, Zenon
  <2>6. Fits(o)
    BY <1>10, <2>2, <2>3, <2>4, <2>5, Zenon DEF Fits
  <2> QED
    BY <1>6, <1>7, <1>13, <1>14, <1>15, <2>1, <2>6, Rewrites, Zenon
<1>17. Counted
  <2>1. Busy' = Busy
    BY <1>1, <1>6, <1>9, <1>10, BusyRewrite, Zenon DEF Busy
  <2>2. Processing' = Processing \ {i} /\ i \in Processing
    BY <1>1, <1>4, Zenon DEF Processing
  <2> QED
    BY <1>1, <2>1, <2>2, Zenon DEF Counted
<1> QED
  BY <1>13, <1>16, <1>17

LEMMA RunTaskStep ==
  ASSUME Types, Placed, Flow, NEW w \in Workers, RunTask(w) \/ RunTaskThrows(w)
  PROVE  Placed' /\ Flow' /\ Counted
<1>0. PICK o : o = job[w].connection
  BY Zenon
<1>1. /\ worker[w] = "run" /\ worker' = [worker EXCEPT ![w] = "notify"]
      /\ UNCHANGED <<activeConnections_, numActiveProcessors_, incoming, ioVars, pipe, tasks_,
                     mutex_, job>>
  BY Zenon DEF RunTask, RunTaskThrows, poolVars, acceptVars, taskVars
<1>2. PICK result : \/ result = job[w].socket /\ tc' = [tc EXCEPT ![o].output = result]
                    \/ result = tc[o].output /\ tc' = tc
  BY <1>0, Zenon DEF RunTask, RunTaskThrows
<1>3. o \in Worked /\ job[w].socket = tc[o].tSocket_
  BY <1>0, <1>1, Zenon DEF Worked, Flow, TaskResults
<1>4. /\ o \in Objects /\ o \in activeConnections_ /\ InPool(o) /\ tc[o].tSocket_ \in Conns
      /\ tc[o] \in Connection /\ o \notin Evented /\ o \notin Held
  BY <1>3, InOnePlace, Zenon DEF Flow, Stages, Owned, Known, Types
<1>5. Known' = Known
  <2>1. peer' = peer \/ Served(tc[o].tSocket_) \/ Forsaken(tc[o].tSocket_)
    BY <1>3, Zenon DEF RunTask, RunTaskThrows
  <2> QED
    BY <1>4, <2>1, SamePeer, ServedPeer, Zenon
<1>6. PICK r \in Connection :
        /\ tc' = [tc EXCEPT ![o] = r] /\ r.eventFlags_ = tc[o].eventFlags_
        /\ r.appState_ = tc[o].appState_ /\ r.output = result
        /\ r.ioThread_ = tc[o].ioThread_ /\ r.tSocket_ = tc[o].tSocket_
  <2> DEFINE x == [tc[o] EXCEPT !.output = result]
  <2>1. result \in Conns \cup {None}
    <3>1. tc[o].output \in Conns \cup {None}
      BY <1>4, Zenon DEF Connection
    <3> QED
      BY <1>2, <1>3, <1>4, <3>1, Zenon
  <2>2. /\ x \in Connection /\ x.appState_ = tc[o].appState_ /\ x.eventFlags_ = tc[o].eventFlags_
        /\ x.ioThread_ = tc[o].ioThread_ /\ x.tSocket_ = tc[o].tSocket_ /\ x.output = result
    BY <1>4, <2>1, OutputFields, Zenon
  <2>3. tc' = [tc EXCEPT ![o] = x]
    <3>1. CASE tc' = [tc EXCEPT ![o].output = result]
      BY <3>1 DEF Types
    <3>2. CASE result = tc[o].output /\ tc' = tc
      <4>1. x = tc[o]
        BY <1>4, <3>2 DEF Connection
      <4>2. tc \in [Objects -> Connection]
        BY Zenon DEF Types
      <4> HIDE DEF x
      <4> QED
        BY <1>4, <3>2, <4>1, <4>2
    <3> QED
      BY <1>2, <3>1, <3>2
  <2> HIDE DEF x
  <2> QED
    BY <2>2, <2>3, Zenon
<1>7. tc'[o] = r /\ (\A p \in Objects \ {o} : tc'[p] = tc[p]) /\ Evented' = Evented
  <2>1. /\ tc'[o] = r /\ \A p \in Objects \ {o} : tc'[p] = tc[p]
        /\ r.eventFlags_ = "none" => Evented' = Evented \ {o}
        /\ r.eventFlags_ # "none" => Evented' = Evented \cup {o}
    BY <1>4, <1>6, Touch, Zenon
  <2>2. r.eventFlags_ = "none" <=> o \notin Evented
    BY <1>4, <1>6, Zenon DEF Evented
  <2> QED
    BY <2>1, <2>2, Zenon
<1>8. InPool(o)' /\ tc'[o].appState_ # "SEND_RESULT"
  BY <1>4, <1>6, <1>7, Zenon DEF InPool
<1>9. \A v \in Workers : /\ worker[v] # "idle" <=> worker'[v] # "idle"
                         /\ worker[v] # "idle" => job'[v] = job[v]
  BY <1>1, Zenon DEF Types
<1>10. Worked' = Worked /\ WorkedOnce'
  BY <1>9, WorkedSame, Zenon DEF Placed
<1>11. /\ Held' = Held /\ Queued' = Queued /\ Piped' = Piped
       /\ HeldOnce' /\ OnceEach(tasks_)' /\ PipedOnce'
  BY <1>1, Frames, Zenon DEF Placed
<1>12. Placed'
  <2>1. Apart'
    BY <1>1, <1>7, <1>10, <1>11, Zenon DEF Apart, Placed
  <2> QED
    BY <1>10, <1>11, <2>1, Zenon DEF Placed
<1>13. Labels' /\ Processing' = Processing /\ OldTasks
  BY <1>1, <1>5, <1>9, SameThreads, Zenon
<1>14. io' = io /\ hand' = hand
  BY <1>1, Zenon DEF ioVars
<1>15. Inline'
  <2>1. \A j \in IOThreads : io'[j] = "process" =>
             io[j] = "process" /\ hand'[j] = hand[j] /\ hand[j] # o
    BY <1>4, <1>14, NotInline, Zenon DEF Flow
  <2> QED
    BY <1>4, <1>7, <2>1, InlineKept, Zenon DEF Flow
<1>16. Flow'
  <2>1. Alters(o)
    BY <1>1, <1>6, <1>7, Zenon DEF Alters
  <2>2. \A p \in Evented' : p \in Evented \ {o}
    BY <1>4, <1>7, Zenon
  <2>3. \A p \in Queued' \cup Worked' : p \in (Queued \cup Worked) \ {o} \/ (p = o /\ InPool(o)')
    BY <1>8, <1>10, <1>11, Zenon
  <2>4. \A j \in IOThreads : io'[j] \in Holding =>
             /\ io[j] \in Holding /\ hand'[j] = hand[j] /\ hand[j] # o
             /\ io'[j] = "fresh" <=> io[j] = "fresh"
    BY <1>4, <1>14, Zenon DEF Held
  <2>5. tc'[o].appState_ = "WAIT_TASK" => tc'[o].output \in {None, tc[o].tSocket_}
    BY <1>2, <1>3, <1>4, <1>6, <1>7, Zenon DEF Flow, Outputs
  <2>6. Fits(o)
    BY <1>8, <2>2, <2>3, <2>4, <2>5, Zenon DEF Fits
  <2> QED
    BY <1>4, <1>5, <1>12, <1>13, <1>15, <2>1, <2>6, Rewrites, Zenon
<1>17. Busy' = Busy
  BY <1>1, <1>4, <1>7, <1>8, BusyRewrite, Zenon DEF Busy
<1> QED
  BY <1>1, <1>12, <1>13, <1>16, <1>17, Zenon DEF Counted

(* forceClose() of the connection whose task is the oldest.                *)
LEMMA ForcesHead ==
  ASSUME Types, Placed, Flow, tasks_ # <<>>, NEW o, o = Head(tasks_).connection,
         tc' = [tc EXCEPT ![o] = Forced(tc[o])], activeConnections_' = activeConnections_
  PROVE  /\ o \in Objects /\ o \in activeConnections_ /\ o \in Queued
         /\ o \notin Evented /\ o \notin Held /\ o \notin Worked /\ o \notin Piped
         /\ Alters(o) /\ InPool(o)' /\ tc'[o].appState_ \notin {"WAIT_TASK", "SEND_RESULT"}
         /\ Evented' = Evented /\ Busy' = Busy
<1>1. o \in Objects /\ o \in Queued
  BY QueueHead, Zenon DEF Placed
<1>2. /\ o \in activeConnections_ /\ InPool(o) /\ tc[o] \in Connection
      /\ o \notin Evented /\ o \notin Held /\ o \notin Worked /\ o \notin Piped
  BY <1>1, InOnePlace, Zenon DEF Flow, Stages, Types
<1>3. PICK r \in Connection : /\ tc' = [tc EXCEPT ![o] = r] /\ r.eventFlags_ = tc[o].eventFlags_
                              /\ r.appState_ = "CLOSE_CONNECTION"
                              /\ r.ioThread_ = tc[o].ioThread_ /\ r.tSocket_ = tc[o].tSocket_
  BY <1>2, ForcedFields, Zenon
<1>4. r.eventFlags_ = "none"
  BY <1>1, <1>2, <1>3, Zenon DEF Evented
<1>5. tc'[o] = r /\ (\A p \in Objects \ {o} : tc'[p] = tc[p]) /\ Evented' = Evented \ {o}
  BY <1>1, <1>3, <1>4, Touch, Zenon
<1>6. Evented' = Evented
  BY <1>2, <1>5, Zenon
<1>7. InPool(o)' /\ tc'[o].appState_ \notin {"WAIT_TASK", "SEND_RESULT"}
  BY <1>3, <1>5, Zenon DEF InPool
<1>8. Alters(o)
  BY <1>3, <1>5, Zenon DEF Alters
<1>9. Busy' = Busy
  BY <1>2, <1>5, <1>7, BusyRewrite, Zenon DEF Busy
<1> QED
  BY <1>1, <1>2, <1>6, <1>7, <1>8, <1>9, Zenon

LEMMA AddExpiresStep ==
  ASSUME Types, Placed, Flow, NEW i \in IOThreads, AddExpires(i)
  PROVE  Placed' /\ Flow' /\ Counted
<1>0. PICK o : o = Head(tasks_).connection
  OBVIOUS
<1>1. /\ io[i] = "add" /\ mutex_' = i /\ IOGoto(i, "expire") /\ QueueFull /\ mutex_ = None
      /\ tc' = [tc EXCEPT ![o] = Forced(tc[o])]
      /\ UNCHANGED <<activeConnections_, numActiveProcessors_, incoming, hand, pipe, tasks_,
                     workerVars, peer>>
  BY <1>0, Zenon DEF AddExpires, poolVars, acceptVars, clientVars
<1>2. tasks_ # <<>>
  BY <1>1 DEF QueueFull, Types
<1>3. /\ o \in Objects /\ o \in activeConnections_ /\ o \in Queued
      /\ o \notin Evented /\ o \notin Held
      /\ Alters(o) /\ InPool(o)' /\ tc'[o].appState_ \notin {"WAIT_TASK", "SEND_RESULT"}
      /\ Evented' = Evented /\ Busy' = Busy
  BY <1>0, <1>1, <1>2, ForcesHead, Zenon
<1>4. io'[i] = "expire" /\ \A j \in IOThreads : j # i => io'[j] = io[j]
  BY <1>1, IoSet, Zenon
<1>5. "add" \in Holding /\ "expire" \in Holding
  BY Zenon DEF Holding
<1>6. Held' = Held /\ HeldOnce'
  <2>1. \A j \in IOThreads : /\ io[j] \in Holding <=> io'[j] \in Holding
                             /\ io[j] \in Holding => hand'[j] = hand[j]
    BY <1>1, <1>4, <1>5, Zenon
  <2> QED
    BY <2>1, HeldSame, Zenon DEF Placed
<1>7. /\ Queued' = Queued /\ Worked' = Worked /\ Piped' = Piped
      /\ OnceEach(tasks_)' /\ WorkedOnce' /\ PipedOnce'
  BY <1>1, Frames, Zenon DEF Placed
<1>8. Placed'
  <2>1. Apart'
    BY <1>1, <1>3, <1>6, <1>7, Zenon DEF Apart, Placed
  <2> QED
    BY <1>6, <1>7, <2>1, Zenon DEF Placed
<1>9. Known' = Known
  BY <1>1, SamePeer, Zenon
<1>10. Labels' /\ OldTasks
  <2>1. \A j \in IOThreads : io'[j] = "expire" => mutex_' = j /\ tasks_' # <<>>
    BY <1>1, <1>2, <1>4, NoneExpires, Zenon DEF Flow
  <2>2. \A j \in IOThreads : io'[j] = io[j]
                             \/ io'[j] \notin {"drain", "drained", "create", "fresh"}
    BY <1>4, Zenon
  <2>3. OldTasks /\ \A w \in Workers : worker'[w] # "idle" => job'[w] \in Tasks
    BY <1>1, Zenon DEF workerVars, Flow, Labels, OldTasks
  <2> QED
    BY <1>1, <1>9, <2>1, <2>2, <2>3, LabelsStep, Zenon DEF Flow
<1>11. Inline'
  <2>1. \A j \in IOThreads : io'[j] = "process" =>
             io[j] = "process" /\ hand'[j] = hand[j] /\ hand[j] # o
    BY <1>1, <1>3, <1>4, NotInline, Zenon DEF Flow
  <2>2. \A p \in Objects \ {o} : tc'[p] = tc[p]
    BY <1>3, Zenon DEF Alters
  <2> QED
    BY <1>3, <2>1, <2>2, InlineKept, Zenon DEF Flow
<1>12. Flow'
  <2>1. \A p \in Evented' : p \in Evented \ {o}
    BY <1>3, Zenon
  <2>2. \A p \in Queued' \cup Worked' : p \in (Queued \cup Worked) \ {o} \/ (p = o /\ InPool(o)')
    BY <1>3, <1>7, Zenon
  <2>3. \A j \in IOThreads : io'[j] \in Holding =>
             /\ io[j] \in Holding /\ hand'[j] = hand[j] /\ hand[j] # o
             /\ io'[j] = "fresh" <=> io[j] = "fresh"
    BY <1>1, <1>3, <1>4, <1>5, Zenon DEF Held
  <2>4. Fits(o)
    BY <1>3, <2>1, <2>2, <2>3, Zenon DEF Fits
  <2> QED
    BY <1>3, <1>8, <1>9, <1>10, <1>11, <2>4, Rewrites, Zenon
<1>13. Processing' = Processing
  BY <1>1, <1>4, ProcessingSame, Zenon
<1> QED
  BY <1>1, <1>3, <1>8, <1>12, <1>13, Zenon DEF Counted

LEMMA TakeExpiredStep ==
  ASSUME Types, Placed, Flow, NEW w \in Workers, TakeExpired(w)
  PROVE  Placed' /\ Flow' /\ Counted
<1>0. PICK t : t = Head(tasks_)
  OBVIOUS
<1>1. PICK o : o = t.connection
  OBVIOUS
<1>2. /\ worker[w] = "idle" /\ mutex_ = None /\ tasks_ # <<>> /\ tasks_' = Tail(tasks_)
      /\ job' = [job EXCEPT ![w] = t] /\ worker' = [worker EXCEPT ![w] = "notify"]
      /\ tc' = [tc EXCEPT ![o] = Forced(tc[o])] /\ WakeAdder
      /\ UNCHANGED <<activeConnections_, numActiveProcessors_, incoming, hand, pipe, peer>>
  BY <1>0, <1>1, Zenon DEF TakeExpired, poolVars, acceptVars, clientVars
<1>3. /\ o \in Objects /\ o \in activeConnections_ /\ o \in Queued
      /\ o \notin Evented /\ o \notin Held /\ o \notin Worked
      /\ Alters(o) /\ InPool(o)' /\ tc'[o].appState_ \notin {"WAIT_TASK", "SEND_RESULT"}
      /\ Evented' = Evented /\ Busy' = Busy
  BY <1>0, <1>1, <1>2, ForcesHead, Zenon
<1>4. /\ t \in Tasks /\ OnceEach(Tail(tasks_)) /\ Connections(Tail(tasks_)) = Queued \ {o}
      /\ \E l \in DOMAIN tasks_ : t = tasks_[l]
      /\ \A k \in DOMAIN Tail(tasks_) : \E l \in DOMAIN tasks_ : Tail(tasks_)[k] = tasks_[l]
  BY <1>0, <1>1, <1>2, QueueHead, Zenon DEF Placed
<1>5. Worked' = Worked \cup {o} /\ WorkedOnce'
  BY <1>1, <1>2, <1>3, TakesJob, Zenon DEF Placed
<1>6. Queued' = Queued \ {o} /\ OnceEach(tasks_)'
  BY <1>2, <1>4, Zenon DEF Queued
<1>7. \A j \in IOThreads : io'[j] = io[j] \/ (io[j] = "blocked" /\ io'[j] = "woken")
  BY <1>2, Wakes, Zenon
<1>8. "blocked" \in Holding /\ "woken" \in Holding
  BY Zenon DEF Holding
<1>9. Held' = Held /\ HeldOnce'
  <2>1. \A j \in IOThreads : /\ io[j] \in Holding <=> io'[j] \in Holding
                             /\ io[j] \in Holding => hand'[j] = hand[j]
    BY <1>2, <1>7, <1>8, Zenon
  <2> QED
    BY <2>1, HeldSame, Zenon DEF Placed
<1>10. Piped' = Piped /\ PipedOnce'
  BY <1>2, Frames, Zenon DEF Placed
<1>11. Placed'
  <2>1. ShareOut(activeConnections_, Evented, Held, Queued \ {o}, Worked \cup {o}, Piped)
    BY <1>3, Moves, Zenon DEF Placed, Apart
  <2>2. Apart'
    BY <1>2, <1>3, <1>5, <1>6, <1>9, <1>10, <2>1, Zenon DEF Apart
  <2> QED
    BY <1>5, <1>6, <1>9, <1>10, <2>2, Zenon DEF Placed
<1>12. Known' = Known
  BY <1>2, SamePeer, Zenon
<1>13. \A v \in Workers : worker'[v] # "idle" => \/ worker[v] # "idle" /\ job'[v] = job[v]
                                                 \/ job'[v] = t
  BY <1>2, Zenon DEF Types
<1>14. Labels' /\ OldTasks
  <2>1. \A j \in IOThreads : io'[j] # "expire"
    BY <1>2, <1>7, NoneExpires, Zenon DEF Flow
  <2>2. \A v \in Workers : worker'[v] # "idle" => job'[v] \in Tasks
    BY <1>4, <1>13, Zenon DEF Flow, Labels
  <2>3. \A j \in IOThreads : io'[j] = io[j]
                             \/ io'[j] \notin {"drain", "drained", "create", "fresh"}
    BY <1>7, Zenon
  <2>4. OldTasks
    BY <1>2, <1>4, <1>13, Zenon DEF OldTasks
  <2> QED
    BY <1>2, <1>12, <2>1, <2>2, <2>3, <2>4, LabelsStep, Zenon DEF Flow
<1>15. Inline'
  <2>1. \A j \in IOThreads : io'[j] = "process" =>
             io[j] = "process" /\ hand'[j] = hand[j] /\ hand[j] # o
    BY <1>2, <1>3, <1>7, NotInline, Zenon DEF Flow
  <2>2. \A p \in Objects \ {o} : tc'[p] = tc[p]
    BY <1>3, Zenon DEF Alters
  <2> QED
    BY <1>3, <2>1, <2>2, InlineKept, Zenon DEF Flow
<1>16. Flow'
  <2>1. \A p \in Evented' : p \in Evented \ {o}
    BY <1>3, Zenon
  <2>2. \A p \in Queued' \cup Worked' : p \in (Queued \cup Worked) \ {o} \/ (p = o /\ InPool(o)')
    BY <1>3, <1>5, <1>6, Zenon
  <2>3. \A j \in IOThreads : io'[j] \in Holding =>
             /\ io[j] \in Holding /\ hand'[j] = hand[j] /\ hand[j] # o
             /\ io'[j] = "fresh" <=> io[j] = "fresh"
    BY <1>2, <1>3, <1>7, <1>8, Zenon DEF Held
  <2>4. Fits(o)
    BY <1>3, <2>1, <2>2, <2>3, Zenon DEF Fits
  <2> QED
    BY <1>3, <1>11, <1>12, <1>14, <1>15, <2>4, Rewrites, Zenon
<1>17. Processing' = Processing
  BY <1>7, ProcessingSame, Zenon
<1> QED
  BY <1>2, <1>3, <1>11, <1>16, <1>17, Zenon DEF Counted

LEMMA DrainTaskStep ==
  ASSUME Types, Placed, Flow, DrainTask
  PROVE  Placed' /\ Flow' /\ Counted
<1>0. PICK o : o = Head(tasks_).connection
  OBVIOUS
<1>1. /\ io[0] = "drain" /\ mutex_ = None /\ tasks_ # <<>> /\ tasks_' = Tail(tasks_)
      /\ hand' = [hand EXCEPT ![0] = o] /\ IOGoto(0, "drained")
      /\ tc' = [tc EXCEPT ![o] = Forced(tc[o])]
      /\ UNCHANGED <<activeConnections_, numActiveProcessors_, incoming, pipe, workerVars, peer>>
  BY <1>0, Zenon DEF DrainTask, poolVars, acceptVars, clientVars
<1>2. /\ o \in Objects /\ o \in activeConnections_ /\ o \in Queued
      /\ o \notin Evented /\ o \notin Held /\ o \notin Worked
      /\ Alters(o) /\ InPool(o)' /\ tc'[o].appState_ \notin {"WAIT_TASK", "SEND_RESULT"}
      /\ Evented' = Evented /\ Busy' = Busy
  BY <1>0, <1>1, ForcesHead, Zenon
<1>3. /\ OnceEach(Tail(tasks_)) /\ Connections(Tail(tasks_)) = Queued \ {o}
      /\ \A k \in DOMAIN Tail(tasks_) : \E l \in DOMAIN tasks_ : Tail(tasks_)[k] = tasks_[l]
  BY <1>0, <1>1, QueueHead, Zenon DEF Placed
<1>4. Queued' = Queued \ {o} /\ OnceEach(tasks_)'
  BY <1>1, <1>3, Zenon DEF Queued
<1>5. 0 \in IOThreads /\ "drained" \in Holding /\ io[0] \notin Holding
  BY <1>1, Fixed, Zenon DEF Holding
<1>6. io'[0] = "drained" /\ \A j \in IOThreads : j # 0 => io'[j] = io[j]
  BY <1>1, <1>5, IoSet, Zenon
<1>7. hand'[0] = o /\ \A j \in IOThreads : j # 0 => hand'[j] = hand[j]
  BY <1>1, <1>5, Zenon DEF Types
<1>8. Held' = Held \cup {o} /\ HeldOnce'
  BY <1>1, <1>2, <1>5, Grasp, Zenon DEF Placed, IOGoto
<1>9. Worked' = Worked /\ Piped' = Piped /\ WorkedOnce' /\ PipedOnce'
  BY <1>1, Frames, Zenon DEF Placed
<1>10. Placed'
  <2>1. ShareOut(activeConnections_, Evented, Held \cup {o}, Queued \ {o}, Worked, Piped)
    BY <1>2, Moves, Zenon DEF Placed, Apart
  <2>2. Apart'
    BY <1>1, <1>2, <1>4, <1>8, <1>9, <2>1, Zenon DEF Apart
  <2> QED
    BY <1>4, <1>8, <1>9, <2>2, Zenon DEF Placed
<1>11. Known' = Known
  BY <1>1, SamePeer, Zenon
<1>12. Labels' /\ OldTasks
  <2>1. \A j \in IOThreads : io'[j] # "expire"
    BY <1>1, <1>6, NoneExpires, Zenon DEF Flow
  <2>2. \A w \in Workers : worker'[w] # "idle" => job'[w] \in Tasks
    BY <1>1, Zenon DEF workerVars, Flow, Labels
  <2>3. \A j \in IOThreads : \/ io'[j] = io[j]
                             \/ j = 0 /\ io[j] \in {"drain", "drained", "create"}
    BY <1>1, <1>6, Zenon
  <2>4. OldTasks
    BY <1>1, <1>3, Zenon DEF OldTasks, workerVars
  <2> QED
    BY <1>1, <1>11, <2>1, <2>2, <2>3, <2>4, LabelsStep, Zenon DEF Flow
<1>13. Inline'
  <2>1. \A j \in IOThreads : io'[j] = "process" =>
             io[j] = "process" /\ hand'[j] = hand[j] /\ hand[j] # o
    BY <1>2, <1>6, <1>7, NotInline, Zenon DEF Flow
  <2>2. \A p \in Objects \ {o} : tc'[p] = tc[p]
    BY <1>2, Zenon DEF Alters
  <2> QED
    BY <1>2, <2>1, <2>2, InlineKept, Zenon DEF Flow
<1>14. Flow'
  <2>1. \A p \in Evented' : p \in Evented \ {o}
    BY <1>2, Zenon
  <2>2. \A p \in Queued' \cup Worked' : p \in (Queued \cup Worked) \ {o}
    BY <1>2, <1>4, <1>9, Zenon
  <2>3. \A j \in IOThreads : io'[j] \in Holding =>
             \/ /\ io[j] \in Holding /\ hand'[j] = hand[j] /\ hand[j] # o
                /\ io'[j] = "fresh" <=> io[j] = "fresh"
             \/ hand'[j] = o /\ InPool(o)' /\ io'[j] # "fresh"
    BY <1>2, <1>6, <1>7, Zenon DEF Held
  <2>4. Fits(o)
    BY <1>2, <2>1, <2>2, <2>3, Zenon DEF Fits
  <2> QED
    BY <1>2, <1>10, <1>11, <1>12, <1>13, <2>4, Rewrites, Zenon
<1>15. Processing' = Processing
  <2>1. \A j \in IOThreads : io'[j] = "process" <=> io[j] = "process"
    BY <1>1, <1>6, Zenon
  <2> QED
    BY <2>1, ProcessingSame, Zenon
<1> QED
  BY <1>1, <1>2, <1>10, <1>14, <1>15, Zenon DEF Counted

LEMMA ReceiveStep ==
  ASSUME Types, Placed, Flow, NEW i \in IOThreads, ReceiveFresh(i) \/ ReceiveResult(i)
  PROVE  Placed' /\ Flow' /\ Counted
<1>0. PICK o : o = Next1(i)
  OBVIOUS
<1>1. /\ pipe[i] # <<>> /\ o # None /\ Pop(i)
      /\ UNCHANGED <<activeConnections_, incoming, ioVars, workerVars, tasks_, mutex_>>
  BY <1>0, Zenon DEF ReceiveFresh, ReceiveResult, Got, poolVars, acceptVars, taskVars
<1>2. Piped' = Piped \ {o} /\ PipedOnce' /\ o \in Piped
  BY <1>0, <1>1, PipePop, Zenon DEF Placed
<1>3. /\ o \in Objects /\ o \in activeConnections_ /\ tc[o] \in Connection
      /\ tc[o].tSocket_ \in Conns
      /\ o \notin Evented /\ o \notin Held /\ o \notin Queued /\ o \notin Worked
  BY <1>2, InOnePlace, Zenon DEF Flow, Owned, Known, Types
<1>4. PICK r \in Connection :
        /\ tc' = [tc EXCEPT ![o] = r] /\ r.eventFlags_ # "none"
        /\ \/ r.appState_ = "READ_FRAME_SIZE"
           \/ r.appState_ = "SEND_RESULT" /\ r.output = tc[o].tSocket_
        /\ r.ioThread_ = tc[o].ioThread_ /\ r.tSocket_ = tc[o].tSocket_
  <2>1. CASE ReceiveFresh(i)
    <3>1. tc' = [tc EXCEPT ![o] = Reading(tc[o])]
      BY <1>0, <2>1, Zenon DEF ReceiveFresh
    <3> QED
      BY <1>3, <3>1, ReadingFields, Zenon
  <2>2. CASE ReceiveResult(i)
    <3>1. tc' = [tc EXCEPT ![o] = Answering(tc[o])] /\ tc[o].appState_ = "WAIT_TASK"
      BY <1>0, <2>2, Zenon DEF ReceiveResult
    <3>2. tc[o].output \in {None, tc[o].tSocket_}
      BY <1>3, <3>1, Zenon DEF Flow, Outputs
    <3>3. /\ Answering(tc[o]) \in Connection /\ Answering(tc[o]).eventFlags_ # "none"
          /\ Answering(tc[o]).appState_
                = IF tc[o].output = None THEN "READ_FRAME_SIZE" ELSE "SEND_RESULT"
          /\ Answering(tc[o]).ioThread_ = tc[o].ioThread_
          /\ Answering(tc[o]).tSocket_ = tc[o].tSocket_
          /\ Answering(tc[o]).output = tc[o].output
      BY <1>3, AnsweringFields, Zenon
    <3> QED
      BY <3>1, <3>2, <3>3, Zenon
  <2> QED
    BY <2>1, <2>2
<1>5. Known' = Known
  <2>1. UNCHANGED peer \/ Served(tc[o].tSocket_)
    BY <1>0, Zenon DEF ReceiveFresh, ReceiveResult, clientVars
  <2> QED
    BY <1>3, <2>1, SamePeer, ServedPeer, Zenon
<1>6. tc'[o] = r /\ (\A p \in Objects \ {o} : tc'[p] = tc[p]) /\ Evented' = Evented \cup {o}
  BY <1>3, <1>4, Touch, Zenon
<1>7. ~InPool(o)' /\ tc'[o].appState_ # "WAIT_TASK"
  BY <1>4, <1>6, Zenon DEF InPool
<1>8. /\ Held' = Held /\ Queued' = Queued /\ Worked' = Worked
      /\ HeldOnce' /\ OnceEach(tasks_)' /\ WorkedOnce'
  BY <1>1, Frames, Zenon DEF Placed
<1>9. Placed'
  <2>1. ShareOut(activeConnections_, Evented \cup {o}, Held, Queued, Worked, Piped \ {o})
    BY <1>2, Moves, Zenon DEF Placed, Apart
  <2>2. Apart'
    BY <1>1, <1>2, <1>6, <1>8, <2>1, Zenon DEF Apart
  <2> QED
    BY <1>2, <1>8, <2>2, Zenon DEF Placed
<1>10. io' = io /\ hand' = hand /\ worker' = worker /\ job' = job
  BY <1>1, Zenon DEF ioVars, workerVars
<1>11. Labels' /\ Processing' = Processing /\ OldTasks
  BY <1>1, <1>5, <1>10, SameThreads, Zenon
<1>12. Inline'
  <2>1. \A j \in IOThreads : io'[j] = "process" =>
             io[j] = "process" /\ hand'[j] = hand[j] /\ hand[j] # o
    BY <1>3, <1>10, NotInline, Zenon DEF Flow
  <2> QED
    BY <1>3, <1>6, <2>1, InlineKept, Zenon DEF Flow
<1>13. Flow'
  <2>1. Alters(o)
    BY <1>1, <1>4, <1>6, Zenon DEF Alters
  <2>2. \A p \in Evented' : p \in Evented \ {o} \/ (p = o /\ ~InPool(o)')
    BY <1>6, <1>7, Zenon
  <2>3. \A p \in Queued' \cup Worked' : p \in (Queued \cup Worked) \ {o}
    BY <1>3, <1>8, Zenon
  <2>4. \A j \in IOThreads : io'[j] \in Holding =>
             /\ io[j] \in Holding /\ hand'[j] = hand[j] /\ hand[j] # o
             /\ io'[j] = "fresh" <=> io[j] = "fresh"
    BY <1>3, <1>10, Zenon DEF Held
  <2>5. tc'[o].appState_ = "SEND_RESULT" => tc'[o].output = tc[o].tSocket_
    BY <1>4, <1>6, Zenon
  <2>6. Fits(o)
    BY <1>7, <2>2, <2>3, <2>4, <2>5, Zenon DEF Fits
  <2> QED
    BY <1>3, <1>5, <1>9, <1>11, <1>12, <2>1, <2>6, Rewrites, Zenon
<1>14. Busy' = Busy \ {o}
  BY <1>1, <1>3, <1>6, <1>7, BusyRewrite, Zenon
<1>15. Counted
  <2>1. CASE ReceiveFresh(i)
    <3>1. tc[o].appState_ = "INIT" /\ UNCHANGED numActiveProcessors_
      BY <1>0, <2>1, Zenon DEF ReceiveFresh
    <3>2. o \notin Busy
      BY <3>1, Zenon DEF Busy, InPool
    <3>3. Busy' = Busy
      BY <1>14, <3>2, Zenon
    <3> QED
      BY <1>11, <3>1, <3>3, Zenon DEF Counted
  <2>2. CASE ReceiveResult(i)
    <3>1. tc[o].appState_ = "WAIT_TASK" /\ numActiveProcessors_' = Decremented
      BY <1>0, <2>2, Zenon DEF ReceiveResult
    <3>2. o \in Busy
      BY <1>3, <3>1, Zenon DEF Busy, InPool
    <3> QED
      BY <1>11, <1>14, <3>1, <3>2, Zenon DEF Counted
  <2> QED
    BY <2>1, <2>2
<1> QED
  BY <1>9, <1>13, <1>15

-----------------------------------------------------------------------------
(* A new connection.                                                       *)

Chosen == IF connectionStack_ # <<>> THEN Top ELSE CHOOSE x \in Objects : x \notin Allocated

LEMMA CreateStep ==
  ASSUME Types, Placed, Flow, CreateConnection, NEW o \in Objects, o = Chosen,
         o \notin activeConnections_
  PROVE  Placed' /\ Flow' /\ Counted /\ tc' \in [Objects -> Connection]
<1>0. PICK c : c = incoming
  OBVIOUS
<1>1. /\ io[0] = "create" /\ activeConnections_' = activeConnections_ \cup {o}
      /\ hand' = [hand EXCEPT ![0] = o] /\ peer' = [peer EXCEPT ![c] = "connected"]
      /\ tc' = [tc EXCEPT ![o] = IF nextIOThread_ = 0 THEN Reading(Fresh(o, c)) ELSE Fresh(o, c)]
      /\ IOGoto(0, IF nextIOThread_ = 0 THEN "loop" ELSE "fresh")
      /\ UNCHANGED <<numActiveProcessors_, incoming, pipe, tasks_, mutex_, workerVars>>
  <2>1. /\ io[0] = "create" /\ activeConnections_' = activeConnections_ \cup {Chosen}
        /\ hand' = [hand EXCEPT ![0] = Chosen]
        /\ peer' = [peer EXCEPT ![incoming] = "connected"]
        /\ tc' = [tc EXCEPT ![Chosen] = IF nextIOThread_ = 0 THEN Reading(Fresh(Chosen, incoming))
                                       ELSE Fresh(Chosen, incoming)]
        /\ IOGoto(0, IF nextIOThread_ = 0 THEN "loop" ELSE "fresh")
        /\ UNCHANGED <<numActiveProcessors_, incoming, pipe, tasks_, mutex_, workerVars>>
    BY Zenon DEF CreateConnection, Chosen, taskVars
  <2> QED
    BY <1>0, <2>1, Zenon
<1>2. 0 \in IOThreads /\ c \in Conns /\ io[0] \notin Holding /\ io[0] # "process"
  BY <1>0, <1>1, Fixed, Zenon DEF Flow, Labels, Holding
<1>3. c \in Known' /\ Known \subseteq Known'
  BY <1>1, <1>2, PeerSet, Zenon
<1>4. o \notin Evented /\ o \notin Held /\ o \notin Queued /\ o \notin Worked /\ o \notin Piped
  BY InOnePlace, Zenon
<1>5. PICK l \in {"loop", "fresh"}, r \in Connection :
        /\ IOGoto(0, l) /\ tc' = [tc EXCEPT ![o] = r] /\ r.ioThread_ \in IOThreads
        /\ r.tSocket_ = c /\ r.appState_ \in {"INIT", "READ_FRAME_SIZE"}
        /\ r.eventFlags_ = "none" <=> l = "fresh"
  <2>1. /\ Fresh(o, c) \in Connection /\ Fresh(o, c).appState_ = "INIT"
        /\ Fresh(o, c).eventFlags_ = "none" /\ Fresh(o, c).ioThread_ \in IOThreads
        /\ Fresh(o, c).tSocket_ = c
    <3>1. nextIOThread_ \in IOThreads
      BY Zenon DEF Types
    <3>2. /\ Fresh(o, c) \in Connection /\ Fresh(o, c).appState_ = "INIT"
          /\ Fresh(o, c).eventFlags_ = "none" /\ Fresh(o, c).ioThread_ = nextIOThread_
          /\ Fresh(o, c).tSocket_ = c
      BY <1>2, FreshFields, Zenon
    <3> QED
      BY <3>1, <3>2, Zenon
  <2>2. CASE nextIOThread_ = 0
    <3>1. IOGoto(0, "loop") /\ tc' = [tc EXCEPT ![o] = Reading(Fresh(o, c))]
      BY <1>1, <2>2, Zenon
    <3>2. LET r == Reading(Fresh(o, c)) IN
          /\ r \in Connection /\ r.appState_ = "READ_FRAME_SIZE" /\ r.eventFlags_ = "read"
          /\ r.ioThread_ \in IOThreads /\ r.tSocket_ = c
      BY <2>1, ReadingFields, Zenon
    <3> QED
      BY <3>1, <3>2, Zenon
  <2>3. CASE nextIOThread_ # 0
    <3>1. IOGoto(0, "fresh") /\ tc' = [tc EXCEPT ![o] = Fresh(o, c)]
      BY <1>1, <2>3, Zenon
    <3> QED
      BY <2>1, <3>1, Zenon
  <2> QED
    BY <2>2, <2>3
<1>6. io'[0] = l /\ \A j \in IOThreads : j # 0 => io'[j] = io[j]
  BY <1>2, <1>5, IoSet, Zenon
<1>7. hand'[0] = o /\ \A j \in IOThreads : j # 0 => hand'[j] = hand[j]
  BY <1>1, <1>2, Zenon DEF Types
<1>8. /\ tc' \in [Objects -> Connection]
      /\ tc'[o] = r /\ \A p \in Objects \ {o} : tc'[p] = tc[p]
      /\ Evented' = IF r.eventFlags_ = "none" THEN Evented \ {o} ELSE Evented \cup {o}
  BY <1>5, Touch, Zenon
<1>9. ~InPool(o)'
  BY <1>5, <1>8, Zenon DEF InPool
<1>10. \A p \in activeConnections_ : p \in Objects /\ p # o /\ tc'[p] = tc[p]
  BY <1>8, Zenon DEF Types
<1>11. /\ Queued' = Queued /\ Worked' = Worked /\ Piped' = Piped
       /\ OnceEach(tasks_)' /\ WorkedOnce' /\ PipedOnce'
  BY <1>1, Frames, Zenon DEF Placed
<1>12. HeldOnce' /\ \/ l = "loop" /\ Held' = Held /\ Evented' = Evented \cup {o}
                    \/ l = "fresh" /\ Held' = Held \cup {o} /\ Evented' = Evented
  <2>1. CASE l = "loop"
    <3>1. \A j \in IOThreads : /\ io[j] \in Holding <=> io'[j] \in Holding
                               /\ io[j] \in Holding => hand'[j] = hand[j]
      BY <1>2, <1>6, <1>7, <2>1, Zenon DEF Holding
    <3>2. Held' = Held /\ HeldOnce'
      BY <3>1, HeldSame, Zenon DEF Placed
    <3> QED
      BY <1>5, <1>8, <2>1, <3>2, Zenon
  <2>2. CASE l = "fresh"
    <3>1. l \in Holding
      BY <2>2, Zenon DEF Holding
    <3>2. Held' = Held \cup {o} /\ HeldOnce'
      BY <1>1, <1>2, <1>4, <1>5, <3>1, Grasp, Zenon DEF Placed, IOGoto
    <3>3. Evented' = Evented
      BY <1>4, <1>5, <1>8, <2>2, Zenon
    <3> QED
      BY <2>2, <3>2, <3>3, Zenon
  <2> QED
    BY <2>1, <2>2, Zenon
<1>13. Placed'
  <2>1. ShareOut(activeConnections_, Evented, Held, Queued, Worked, Piped)
    BY Zenon DEF Placed, Apart
  <2>2. /\ ShareOut(activeConnections_ \cup {o}, Evented \cup {o}, Held, Queued, Worked, Piped)
        /\ ShareOut(activeConnections_ \cup {o}, Evented, Held \cup {o}, Queued, Worked, Piped)
    BY <1>4, <2>1, Comes, Zenon
  <2>3. Apart'
    BY <1>1, <1>11, <1>12, <2>2, Zenon DEF Apart
  <2> QED
    BY <1>11, <1>12, <2>3, Zenon DEF Placed
<1>14. Owned' /\ Carries
  <2>1. Carries
    BY <1>10, Zenon DEF Carries
  <2>2. tc'[o].ioThread_ \in IOThreads /\ tc'[o].tSocket_ \in Known'
    BY <1>3, <1>5, <1>8, Zenon
  <2>3. \A p \in activeConnections_ : tc'[p].ioThread_ \in IOThreads /\ tc'[p].tSocket_ \in Known'
    BY <1>3, <1>10, Zenon DEF Flow, Owned
  <2> QED
    BY <1>1, <2>1, <2>2, <2>3, Zenon DEF Owned
<1>15. TaskResults'
  <2>1. OldTasks
    BY <1>1, Zenon DEF OldTasks, workerVars
  <2> QED
    BY <1>13, <1>14, <2>1, TaskResultsKept, Zenon DEF Flow, OldTasks
<1>16. Outputs'
  <2>1. tc'[o].appState_ \notin {"WAIT_TASK", "SEND_RESULT"}
    BY <1>5, <1>8, Zenon
  <2>2. \A p \in activeConnections_ :
          /\ tc'[p].appState_ = "WAIT_TASK" => tc'[p].output \in {None, tc'[p].tSocket_}
          /\ tc'[p].appState_ = "SEND_RESULT" => tc'[p].output = tc'[p].tSocket_
    BY <1>10, Zenon DEF Flow, Outputs
  <2> QED
    BY <1>1, <2>1, <2>2, Zenon DEF Outputs
<1>17. Inline'
  <2>1. \A j \in IOThreads : io'[j] = "process" =>
             io[j] = "process" /\ hand'[j] = hand[j] /\ hand[j] # o
    BY <1>4, <1>5, <1>6, <1>7, NotInline, Zenon DEF Flow
  <2>2. Evented \ {o} \subseteq Evented'
    BY <1>12, Zenon
  <2> QED
    BY <1>8, <2>1, <2>2, InlineKept, Zenon DEF Flow
<1>18. Labels'
  <2>1. \A j \in IOThreads : io'[j] = "expire" => mutex_' = j /\ tasks_' # <<>>
    BY <1>1, <1>5, <1>6, Zenon DEF Flow, Labels
  <2>2. \A j \in IOThreads : io'[j] \in {"drain", "drained", "create", "fresh"} => j = 0
    BY <1>5, <1>6, Zenon DEF Flow, Labels
  <2>3. io'[0] \notin {"drain", "drained", "create"}
    BY <1>5, <1>6, Zenon
  <2>4. \A w \in Workers : worker'[w] # "idle" => job'[w] \in Tasks
    BY <1>1, Zenon DEF Flow, Labels, workerVars
  <2> QED
    BY <2>1, <2>2, <2>3, <2>4, Zenon DEF Labels
<1>19. Stages'
  <2>1. \A p \in activeConnections_ : InPool(p)' <=> InPool(p)
    BY <1>10, Zenon DEF InPool
  <2>2. ASSUME NEW p \in Evented' PROVE ~InPool(p)'
    <3>1. p = o \/ (p \in Evented /\ p \in activeConnections_)
      BY <1>12, InOnePlace, Zenon
    <3> QED
      BY <1>9, <2>1, <3>1, Zenon DEF Flow, Stages
  <2>3. ASSUME NEW p \in Queued' \cup Worked' PROVE InPool(p)'
    <3>1. p \in Queued \cup Worked /\ p \in activeConnections_
      BY <1>11, InOnePlace, Zenon
    <3> QED
      BY <2>1, <3>1, Zenon DEF Flow, Stages
  <2>4. ASSUME NEW j \in IOThreads, io'[j] \in Holding
        PROVE  InPool(hand[j])' <=> io'[j] # "fresh"
    <3>1. CASE j = 0
      <4>1. l = "fresh" /\ hand'[j] = o
        BY <1>5, <1>6, <1>7, <2>4, <3>1, Zenon DEF Holding
      <4> QED
        BY <1>6, <1>9, <3>1, <4>1, Zenon DEF InPool
    <3>2. CASE j # 0
      <4>1. io'[j] = io[j] /\ hand'[j] = hand[j] /\ hand[j] \in activeConnections_
        BY <1>6, <1>7, <2>4, <3>2, Places, Zenon
      <4>2. tc'[hand[j]] = tc[hand[j]]
        BY <1>10, <4>1, Zenon
      <4>3. InPool(hand[j])' <=> InPool(hand[j])
        BY <4>1, <4>2 DEF InPool
      <4> QED
        BY <2>4, <4>1, <4>3, Zenon DEF Flow, Stages
    <3> QED
      BY <3>1, <3>2
  <2> QED
    BY <2>2, <2>3, <2>4, Zenon DEF Stages
<1>20. Counted
  <2>1. \A p \in activeConnections_ : InPool(p)' <=> InPool(p)
    BY <1>10, Zenon DEF InPool
  <2>2. Busy' = Busy
    BY <1>1, <1>9, <2>1, Zenon DEF Busy
  <2>3. Processing' = Processing
    <3>1. \A j \in IOThreads : io'[j] = "process" <=> io[j] = "process"
      BY <1>2, <1>5, <1>6, Zenon
    <3> QED
      BY <3>1, ProcessingSame, Zenon
  <2> QED
    BY <1>1, <2>2, <2>3, Zenon DEF Counted
<1> QED
  BY <1>8, <1>13, <1>14, <1>15, <1>16, <1>17, <1>18, <1>19, <1>20, Zenon DEF Flow
=============================================================================
