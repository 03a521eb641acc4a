----------------------- MODULE ServerFrameworkProofs -----------------------
(***************************************************************************)
(* Safety of the blocking servers, for any number of connections and any   *)
(* limits: the client count is exact, the limit is kept, no thread is      *)
(* forgotten, and serve() leaves nothing behind.                           *)
(***************************************************************************)
EXTENDS ServerFramework, WellFoundedInduction, FiniteSetTheorems, TLAPS

(* Where serve() holds a reference to its client, where a thread does.     *)
Holding == {"count", "connected", "running", "drop"}
Owning == {"queued", "run", "release"}

ServeLabels == Holding \cup Disposing
    \cup {"listen", "limit", "accept", "close", "final", "finalDrain", "poolStop", "returned"}
ClientLabels == Owning \cup Disposing \cup {"away", "backlog", "accepted", "gone"}

Labelled ==
    /\ kind \in {"simple", "threaded", "pool"}
    /\ pc \in [Actors -> ServeLabels \cup ClientLabels]
    /\ pc[Serve] \in ServeLabels
    /\ \A c \in Conns : pc[c] \in ClientLabels
    /\ refs \in [Conns -> SUBSET Actors]
    /\ client \in Conns \cup {None}

(* Who holds a reference, and that only one thread disposes of a client.   *)
Referenced ==
    /\ \A c \in Conns : refs[c] \subseteq {Serve, c}
    /\ \A c \in Conns : Serve \in refs[c] <=> client = c /\ pc[Serve] \in Holding
    /\ \A c \in Conns : c \in refs[c] <=> pc[c] \in Owning
    /\ pc[Serve] \in Holding \cup Disposing => client \in Conns
    /\ pc[Serve] \in Holding \ {"drop"} => pc[client] = "accepted"
    /\ pc[Serve] = "drop" => pc[client] \in Owning \cup {"accepted", "gone"}
    /\ pc[Serve] \in Disposing => pc[client] \in {"accepted", "gone"}

(* The clients that clients_ stands for.                                   *)
CountedClients == {c \in Conns : Counted(c)}

(* The invariant that the other three rest on.                             *)
RefInv == Labelled /\ Referenced

(* Between the check of the limit and the count of the client there is     *)
(* room under the largest limit; a sleep at the limit is one of serve().   *)
LimitInv ==
    /\ clients_ \in Int /\ hwm_ \in Int /\ limit_ \in Int /\ peakLimit \in Int
    /\ limit_ <= peakLimit /\ hwm_ <= peakLimit
    /\ pc[Serve] \in {"accept", "count"} => clients_ < peakLimit
    /\ mon_ => pc[Serve] = "limit" /\ clients_ >= limit_

(* A thread is in the map of active ones under the address of its client   *)
(* from its start until its client is disposed of.                         *)
Live(c) ==
    \/ pc[c] \in {"run", "release", "dispose", "drain"}
    \/ client = c /\ pc[c] = "gone" /\ pc[Serve] \in {"drop", "dispose", "drain"}

AddressInv ==
    /\ address \in [Conns -> Addresses \cup {None}]
    /\ \A c, d \in Conns : address[c] = address[d] /\ address[c] # None => c = d
    /\ \A c \in Conns : pc[c] \in {"away", "backlog"} => address[c] = None
    /\ \A c \in Conns : Live(c) \/ pc[c] = "queued" => address[c] # None
    /\ pc[Serve] \in Holding => address[client] # None
    /\ \A a \in DOMAIN activeClientMap_ :
          activeClientMap_[a] \in Conns /\ address[activeClientMap_[a]] = a
            /\ Live(activeClientMap_[a])
    /\ DOMAIN activeClientMap_ # {} => kind = "threaded"

(* Clients that nobody has finished with: a client object has an address   *)
(* only as long as a thread, or serve() itself, still has to delete it.    *)
Present(c) ==
    \/ pc[c] \in Owning \cup {"dispose", "drain", "delete"}
    \/ client = c /\ pc[Serve] \in Holding \cup {"dispose", "drain", "delete"}

(* Which server has which threads, and where TThreadedServer keeps them: a *)
(* thread is active until its client is disposed of, and dead, but not yet *)
(* joined, while it deletes the client and brings down the count.          *)
ThreadInv ==
    /\ \A c \in Conns : address[c] # None => Present(c)
    /\ \A c \in Conns : kind = "threaded" /\ Live(c) =>
          address[c] \in DOMAIN activeClientMap_ /\ activeClientMap_[address[c]] = c
    /\ \A c \in Conns : kind = "threaded" /\ pc[c] \in {"delete", "uncount"} =>
          \E a \in DOMAIN deadClientMap_ : deadClientMap_[a] = c
    /\ \A c \in Conns : pc[c] = "queued" => kind = "pool"
    /\ \A c \in Conns : kind = "simple" => pc[c] \notin Owning \cup Disposing
    /\ \A a \in DOMAIN activeClientMap_ : activeClientMap_[a] \in started
    /\ \A a \in DOMAIN deadClientMap_ : a \in Nat /\ deadClientMap_[a] \in started
    /\ joined \subseteq started
    /\ started # {} => kind = "threaded"

(* How far serve() has come after its loop.                                *)
EndInv ==
    /\ pc[Serve] \in {"final", "finalDrain", "poolStop", "returned"} => ~listening_
    /\ pc[Serve] \in {"final", "finalDrain"} => kind = "threaded"
    /\ pc[Serve] = "poolStop" => kind = "pool"
    /\ pc[Serve] \in {"finalDrain", "returned"} => DOMAIN activeClientMap_ = {}
    /\ pc[Serve] = "returned" =>
          /\ DOMAIN deadClientMap_ = {}
          /\ \A c \in Conns : pc[c] \notin Owning \cup Disposing

(* The steps, by what they do to the objects, the maps and the places of   *)
(* the threads.  Some do nothing to them ...                               *)
placeVars == <<kind, clients_, mapVars, objectVars>>
Quiet == UNCHANGED <<placeVars, pc, listening_>>

(* ... some only move serve() on in its loop ...                           *)
ServeTurns(from, to) == pc[Serve] = from /\ Goto(Serve, to)
LoopMoves ==
    /\ \/ ServeTurns("listen", "limit") \/ ServeTurns("limit", "accept")
       \/ ServeTurns("accept", "limit") \/ ServeTurns("accept", "close")
       \/ ServeTurns("connected", "running") \/ ServeTurns("connected", "drop")
       \/ ServeTurns("running", "drop")
    /\ UNCHANGED placeVars

(* ... or behind its loop ...                                              *)
EndMoves ==
    /\ \/ kind = "threaded" /\ ServeTurns("close", "final") /\ ~listening_'
       \/ kind = "pool" /\ ServeTurns("close", "poolStop") /\ ~listening_'
       \/ kind = "simple" /\ ServeTurns("close", "returned") /\ ~listening_'
       \/ /\ ServeTurns("final", "finalDrain") /\ DOMAIN activeClientMap_ = {}
          /\ UNCHANGED listening_
       \/ /\ ServeTurns("finalDrain", "returned") /\ DOMAIN deadClientMap_ = {}
          /\ UNCHANGED listening_
       \/ /\ ServeTurns("poolStop", "returned") /\ Queued \cup Busy = {}
          /\ UNCHANGED listening_
    /\ UNCHANGED placeVars

(* ... or only a client.                                                   *)
ClientTurns(c, from, to) == pc[c] = from /\ Goto(c, to)
ClientMoves(c) ==
    /\ \/ ClientTurns(c, "away", "backlog") \/ ClientTurns(c, "queued", "run")
       \/ ClientTurns(c, "queued", "release") \/ ClientTurns(c, "run", "release")
    /\ UNCHANGED <<placeVars, listening_>>

Shapes ==
    \/ Quiet \/ LoopMoves \/ EndMoves
    \/ CountClient \/ StartThread \/ StartFails \/ PoolAdd
    \/ \E c \in Conns : ClientMoves(c) \/ Accept(c) \/ SetupFails(c)
    \/ \E x \in Actors : ActorStep(x)

LEMMA EveryStepHasAShape == RefInv /\ [Next]_vars => Shapes
<1> SUFFICES ASSUME RefInv, [Next]_vars PROVE Shapes
  BY Zenon
<1> USE DEF placeVars, countVars, mapVars, socketVars, objectVars
<1>1. CASE Listen
  BY <1>1, Zenon DEF Listen, Shapes, LoopMoves, ServeTurns
<1>2. CASE CheckLimit
  BY <1>2, Zenon DEF CheckLimit, Shapes, Quiet, LoopMoves, ServeTurns
<1>3. CASE AcceptInterrupted
  BY <1>3, Zenon DEF AcceptInterrupted, Shapes, LoopMoves, ServeTurns
<1>4. CASE RunSimple
  BY <1>4, Zenon DEF RunSimple, Shapes, LoopMoves, ServeTurns
<1>5. CASE AcceptFails
  BY <1>5, Zenon DEF AcceptFails, Shapes, LoopMoves, ServeTurns
<1>6. CASE PoolRefuses
  BY <1>6, Zenon DEF PoolRefuses, Shapes, LoopMoves, ServeTurns
<1>7. CASE StopAccept
  BY <1>7, Zenon DEF StopAccept, Shapes, Quiet
<1>8. CASE StopChildren
  BY <1>8, Zenon DEF StopChildren, Shapes, Quiet
<1>9. CASE Spurious
  BY <1>9, Zenon DEF Spurious, Shapes, Quiet
<1>10. CASE CloseServer
  <2>1. \/ kind = "threaded" /\ AfterClose = "final"
        \/ kind = "pool" /\ AfterClose = "poolStop"
        \/ kind = "simple" /\ AfterClose = "returned"
    BY Zenon DEF RefInv, Labelled, AfterClose
  <2>2. QED
    BY <1>10, <2>1, Zenon DEF CloseServer, Shapes, EndMoves, ServeTurns
<1>11. CASE AwaitClients
  BY <1>11, Zenon DEF AwaitClients, Shapes, Quiet, EndMoves, ServeTurns
<1>12. CASE FinishThreaded
  BY <1>12, Zenon DEF FinishThreaded, Shapes, EndMoves, ServeTurns
<1>13. CASE FinishPool
  BY <1>13, Zenon DEF FinishPool, Shapes, EndMoves, ServeTurns
<1>14. ASSUME NEW c \in Conns, Connect(c) PROVE Shapes
  BY <1>14, Zenon DEF Connect, Shapes, ClientMoves, ClientTurns
<1>15. ASSUME NEW c \in Conns, ClientEnds(c) PROVE Shapes
  BY <1>15, Zenon DEF ClientEnds, Shapes, LoopMoves, ServeTurns, ClientMoves, ClientTurns
<1>16. ASSUME NEW c \in Conns, PoolExpires(c) PROVE Shapes
  BY <1>16, Zenon DEF PoolExpires, Shapes, ClientMoves, ClientTurns
<1>17. ASSUME NEW c \in Conns, PoolTakes(c) PROVE Shapes
  BY <1>17, Zenon DEF PoolTakes, Shapes, ClientMoves, ClientTurns
<1>18. ASSUME NEW n \in Limits, SetConcurrentClientLimit(n) PROVE Shapes
  BY <1>18, Zenon DEF SetConcurrentClientLimit, Shapes, Quiet
<1>19. CASE UNCHANGED vars
  BY <1>19, Zenon DEF vars, Shapes, Quiet
<1>20. QED
  BY <1>1, <1>2, <1>3, <1>4, <1>5, <1>6, <1>7, <1>8, <1>9, <1>10, <1>11, <1>12, <1>13,
     <1>14, <1>15, <1>16, <1>17, <1>18, <1>19, Zenon
     DEF Next, ServeStep, ClientStep, ClientInterrupted, Environment, Shapes

(* Whatever happens, references and places fit together: only one thread   *)
(* at a time disposes of a client, and only when nobody holds it.          *)
LEMMA RefStep == RefInv /\ [Next]_vars => RefInv'
<1> SUFFICES ASSUME RefInv, [Next]_vars PROVE RefInv'
  BY Zenon
<1> USE ConstantsAssumption DEF RefInv, Labelled, Referenced, Actors, Goto, ServeLabels,
      ClientLabels, Holding, Owning, Disposing
<1>1. CASE Quiet
  BY <1>1, Zenon DEF Quiet, placeVars, mapVars, objectVars
<1>2. CASE LoopMoves
  BY <1>2 DEF LoopMoves, ServeTurns, placeVars, mapVars, objectVars
<1>3. CASE EndMoves
  BY <1>3 DEF EndMoves, ServeTurns, placeVars, mapVars, objectVars
<1>4. CASE CountClient
  BY <1>4, Zenon DEF CountClient, placeVars, mapVars, objectVars, countVars
<1>5. CASE StartThread
  BY <1>5 DEF StartThread, With, placeVars, mapVars, objectVars, countVars
<1>6. CASE StartFails
  BY <1>6, Zenon DEF StartFails, With, Without, placeVars, mapVars, objectVars, countVars
<1>7. CASE PoolAdd
  BY <1>7 DEF PoolAdd, placeVars, mapVars, objectVars, countVars
<1>8. ASSUME NEW c \in Conns, ClientMoves(c) PROVE RefInv'
  BY <1>8 DEF ClientMoves, ClientTurns, placeVars, mapVars, objectVars
<1>9. ASSUME NEW c \in Conns, Accept(c) PROVE RefInv'
  BY <1>9 DEF Accept, placeVars, mapVars, objectVars, countVars
<1>10. ASSUME NEW c \in Conns, SetupFails(c) PROVE RefInv'
  BY <1>10 DEF SetupFails, placeVars, mapVars, objectVars, countVars
<1>11. ASSUME NEW x \in Actors, DropReference(x) PROVE RefInv'
  BY <1>11 DEF DropReference, Last, Subject, Released, placeVars, mapVars, objectVars, countVars
<1>12. ASSUME NEW x \in Actors, LockClients(x) PROVE RefInv'
  BY <1>12 DEF LockClients, placeVars, mapVars, objectVars, countVars
<1>13. ASSUME NEW x \in Actors, JoinDead(x) PROVE RefInv'
  BY <1>13, Zenon DEF JoinDead, Without, placeVars, mapVars, objectVars, countVars
<1>14. ASSUME NEW x \in Actors, MoveToDead(x) PROVE RefInv'
  BY <1>14
     DEF MoveToDead, Drained, Subject, Without, With, placeVars, mapVars, objectVars, countVars
<1>15. ASSUME NEW x \in Actors, DeleteClient(x) PROVE RefInv'
  BY <1>15 DEF DeleteClient, Subject, placeVars, mapVars, objectVars, countVars
<1>16. ASSUME NEW x \in Actors, UncountClient(x) PROVE RefInv'
  BY <1>16 DEF UncountClient, Released, Subject, placeVars, mapVars, objectVars, countVars
<1>17. QED
  BY <1>1, <1>2, <1>3, <1>4, <1>5, <1>6, <1>7, <1>8, <1>9, <1>10, <1>11, <1>12, <1>13,
     <1>14, <1>15, <1>16, EveryStepHasAShape, Zenon
     DEF Shapes, ActorStep

(* The limit and the sleep at it.                                          *)
LEMMA LimitStep == RefInv /\ LimitInv /\ [Next]_vars => LimitInv'
<1> SUFFICES ASSUME RefInv, LimitInv, [Next]_vars PROVE LimitInv'
  BY Zenon
<1> pc \in [Actors -> ServeLabels \cup ClientLabels] /\ Serve \in Actors
    /\ \A c \in Conns : c # Serve
  BY ConstantsAssumption, Zenon DEF RefInv, Labelled, Actors
<1> Limits \subseteq Nat
  BY ConstantsAssumption, Zenon
<1> USE DEF LimitInv, Goto
<1>1. CASE Listen
  BY <1>1, Zenon DEF Listen, countVars
<1>2. CASE CheckLimit
  <2>1. CASE AtLimit /\ mon_' = TRUE /\ UNCHANGED pc
    BY <1>2, <2>1, Zenon DEF CheckLimit, AtLimit
  <2>2. CASE ~AtLimit /\ Goto(Serve, "accept") /\ UNCHANGED mon_
    BY <1>2, <2>2 DEF CheckLimit, AtLimit
  <2>3. QED
    BY <1>2, <2>1, <2>2, Zenon DEF CheckLimit
<1>3. CASE AcceptInterrupted
  BY <1>3, Zenon DEF AcceptInterrupted, countVars
<1>4. CASE CountClient
  BY <1>4 DEF CountClient, countVars
<1>5. CASE RunSimple
  BY <1>5, Zenon DEF RunSimple, countVars
<1>6. CASE StartThread
  BY <1>6, Zenon DEF StartThread, countVars
<1>7. CASE PoolAdd
  BY <1>7, Zenon DEF PoolAdd, countVars
<1>8. CASE CloseServer
  BY <1>8, Zenon DEF CloseServer, AfterClose, RefInv, Labelled, countVars
<1>9. CASE AwaitClients
  BY <1>9, Zenon DEF AwaitClients, countVars
<1>10. CASE FinishThreaded
  BY <1>10, Zenon DEF FinishThreaded, countVars
<1>11. CASE FinishPool
  BY <1>11, Zenon DEF FinishPool, countVars
<1>12. CASE StopAccept
  BY <1>12, Zenon DEF StopAccept, countVars
<1>13. CASE StopChildren
  BY <1>13, Zenon DEF StopChildren, countVars
<1>14. CASE Spurious
  BY <1>14, Zenon DEF Spurious, countVars
<1>15. CASE AcceptFails
  BY <1>15, Zenon DEF AcceptFails, countVars
<1>16. CASE StartFails
  BY <1>16, Zenon DEF StartFails, countVars
<1>17. CASE PoolRefuses
  BY <1>17, Zenon DEF PoolRefuses, countVars
<1>18. ASSUME NEW c \in Conns, Accept(c) PROVE LimitInv'
  BY <1>18, Zenon DEF Accept, countVars
<1>19. ASSUME NEW c \in Conns, Connect(c) PROVE LimitInv'
  BY <1>19, Zenon DEF Connect, countVars
<1>20. ASSUME NEW c \in Conns, ClientEnds(c) PROVE LimitInv'
  BY <1>20, Zenon DEF ClientEnds, countVars
<1>21. ASSUME NEW c \in Conns, SetupFails(c) PROVE LimitInv'
  BY <1>21, Zenon DEF SetupFails, countVars
<1>22. ASSUME NEW c \in Conns, PoolExpires(c) PROVE LimitInv'
  BY <1>22, Zenon DEF PoolExpires, countVars
<1>23. ASSUME NEW c \in Conns, PoolTakes(c) PROVE LimitInv'
  BY <1>23, Zenon DEF PoolTakes, countVars
<1>24. ASSUME NEW x \in Actors, DropReference(x) PROVE LimitInv'
  BY <1>24, Zenon DEF DropReference, Last, Subject, Released, countVars
<1>25. ASSUME NEW x \in Actors, LockClients(x) PROVE LimitInv'
  BY <1>25, Zenon DEF LockClients, countVars
<1>26. ASSUME NEW x \in Actors, JoinDead(x) PROVE LimitInv'
  BY <1>26, Zenon DEF JoinDead, countVars
<1>27. ASSUME NEW x \in Actors, MoveToDead(x) PROVE LimitInv'
  BY <1>27, Zenon DEF MoveToDead, Drained, Subject, countVars
<1>28. ASSUME NEW x \in Actors, DeleteClient(x) PROVE LimitInv'
  BY <1>28, Zenon DEF DeleteClient, countVars
<1>29. ASSUME NEW x \in Actors, UncountClient(x) PROVE LimitInv'
  <2>1. mon_' => mon_ /\ ~RoomNotifies(limit_, clients_ - 1)
    BY <1>29, Zenon DEF UncountClient
  <2>2. ~RoomNotifies(limit_, clients_ - 1) => clients_ - 1 >= limit_
    BY DEF RoomNotifies
  <2>3. mon_' => mon_ /\ clients_ - 1 >= limit_
    BY <2>1, <2>2, Zenon
  <2>4. QED
    BY <1>29, <2>3 DEF UncountClient, Released
<1>30. ASSUME NEW n \in Limits, SetConcurrentClientLimit(n) PROVE LimitInv'
  <2>1. mon_' => mon_ /\ ~RoomNotifies(n, clients_)
    BY <1>30, Zenon DEF SetConcurrentClientLimit
  <2>2. ~RoomNotifies(n, clients_) => clients_ >= n
    BY DEF RoomNotifies
  <2>3. mon_' => mon_ /\ clients_ >= n
    BY <2>1, <2>2, Zenon
  <2>4. QED
    BY <1>30, <2>3 DEF SetConcurrentClientLimit
<1>31. CASE UNCHANGED vars
  BY <1>31, Zenon DEF vars, countVars
<1>32. QED
  BY <1>1, <1>2, <1>3, <1>4, <1>5, <1>6, <1>7, <1>8, <1>9, <1>10, <1>11, <1>12, <1>13,
     <1>14, <1>15,
     <1>16, <1>17, <1>18, <1>19, <1>20, <1>21, <1>22, <1>23, <1>24, <1>25, <1>26, <1>27,
     <1>28, <1>29, <1>30, <1>31, Zenon
     DEF Next, ServeStep, ActorStep, ClientStep, ClientInterrupted, Environment

(* Only newlyConnectedClient and the end of disposeConnectedClient change  *)
(* the set of counted clients, and the count with it.                      *)
LEMMA CountStep ==
    RefInv /\ ClientCountExact /\ [Next]_vars => ClientCountExact'
<1> SUFFICES ASSUME RefInv, ClientCountExact, [Next]_vars PROVE ClientCountExact'
  BY Zenon
<1> DEFINE Same == clients_' = clients_ /\ \A d \in Conns : Counted(d)' <=> Counted(d)
<1>a. IsFiniteSet(CountedClients)
  BY ConstantsAssumption, FS_Subset, Zenon DEF CountedClients
<1>b. clients_ = Cardinality(CountedClients) /\ clients_ \in Nat
  BY <1>a, FS_CardinalityType, Zenon DEF ClientCountExact, CountedClients
<1>c. Same => ClientCountExact'
  <2>1. Same => CountedClients' = CountedClients
    BY Zenon DEF CountedClients
  <2>2. QED
    BY <2>1, <1>b, Zenon DEF ClientCountExact, CountedClients
<1> HIDE DEF Same
<1>d. ASSUME CountClient PROVE ClientCountExact'
  <2>0. PICK c \in Conns : c = client
    BY <1>d, ConstantsAssumption, Zenon DEF CountClient, RefInv, Labelled, Referenced,
       Actors, Holding, Disposing
  <2>1. ~Counted(c) /\ Counted(c)'
    BY <2>0, <1>d, ConstantsAssumption, Zenon DEF CountClient, Counted, RefInv, Labelled, Referenced,
       Actors, Goto, objectVars, Holding, Owning, Disposing
  <2>2. \A d \in Conns : d # c => (Counted(d)' <=> Counted(d))
    BY <2>0, <1>d, ConstantsAssumption, Zenon DEF CountClient, Counted, RefInv, Labelled, Referenced,
       Actors, Goto, objectVars, Holding, Owning, Disposing
  <2>3. CountedClients' = CountedClients \cup {c} /\ c \notin CountedClients
    BY <2>1, <2>2, Zenon DEF CountedClients
  <2>4. Cardinality(CountedClients') = Cardinality(CountedClients) + 1
    BY <2>3, <1>a, FS_AddElement, Zenon
  <2>5. QED
    BY <1>d, <2>4, <1>b, Zenon DEF CountClient, ClientCountExact, CountedClients
<1>e. ASSUME NEW x \in Actors, UncountClient(x) PROVE ClientCountExact'
  <2>0. PICK c \in Conns : c = Subject(x)
    BY <1>e, ConstantsAssumption, Zenon
       DEF UncountClient, Subject, Released, RefInv, Labelled, Referenced,
       Actors, Holding, Disposing
  <2>1. Counted(c) /\ ~Counted(c)'
    BY <2>0, <1>e, ConstantsAssumption DEF UncountClient, Subject, Released, Counted,
       RefInv, Labelled, Referenced, Actors, Goto, objectVars, Holding, Owning, Disposing
  <2>2. \A d \in Conns : d # c => (Counted(d)' <=> Counted(d))
    BY <2>0, <1>e, ConstantsAssumption DEF UncountClient, Subject, Released, Counted,
       RefInv, Labelled, Referenced, Actors, Goto, objectVars, Holding, Owning, Disposing
  <2>3. CountedClients' = CountedClients \ {c} /\ c \in CountedClients
    BY <2>1, <2>2, Zenon DEF CountedClients
  <2>4. Cardinality(CountedClients') = Cardinality(CountedClients) - 1
    BY <2>3, <1>a, FS_RemoveElement, Zenon
  <2>5. QED
    BY <1>e, <2>4, <1>b, Zenon DEF UncountClient, ClientCountExact, CountedClients
<1> USE <1>c, ConstantsAssumption DEF Same, Counted, Goto, countVars, objectVars, RefInv,
      Labelled, Referenced, Actors, Holding, Owning, Disposing
<1>1. CASE Quiet
  BY <1>1, Zenon DEF Quiet, placeVars, mapVars, objectVars
<1>2. CASE LoopMoves
  BY <1>2 DEF LoopMoves, ServeTurns, placeVars, mapVars, objectVars
<1>3. CASE EndMoves
  BY <1>3 DEF EndMoves, ServeTurns, placeVars, mapVars, objectVars
<1>4. CASE CountClient
  BY <1>4, <1>d, Zenon
<1>5. CASE StartThread
  BY <1>5 DEF StartThread, With, placeVars, mapVars, objectVars, countVars
<1>6. CASE StartFails
  BY <1>6, Zenon DEF StartFails, With, Without, placeVars, mapVars, objectVars, countVars
<1>7. CASE PoolAdd
  BY <1>7 DEF PoolAdd, placeVars, mapVars, objectVars, countVars
<1>8. ASSUME NEW c \in Conns, ClientMoves(c) PROVE ClientCountExact'
  BY <1>8 DEF ClientMoves, ClientTurns, placeVars, mapVars, objectVars
<1>9. ASSUME NEW c \in Conns, Accept(c) PROVE ClientCountExact'
  BY <1>9 DEF Accept, placeVars, mapVars, objectVars, countVars
<1>10. ASSUME NEW c \in Conns, SetupFails(c) PROVE ClientCountExact'
  BY <1>10 DEF SetupFails, placeVars, mapVars, objectVars, countVars
<1>11. ASSUME NEW x \in Actors, DropReference(x) PROVE ClientCountExact'
  BY <1>11 DEF DropReference, Last, Subject, Released, placeVars, mapVars, objectVars, countVars
<1>12. ASSUME NEW x \in Actors, LockClients(x) PROVE ClientCountExact'
  BY <1>12, Zenon DEF LockClients, placeVars, mapVars, objectVars, countVars
<1>13. ASSUME NEW x \in Actors, JoinDead(x) PROVE ClientCountExact'
  BY <1>13, Zenon DEF JoinDead, Without, placeVars, mapVars, objectVars, countVars
<1>14. ASSUME NEW x \in Actors, MoveToDead(x) PROVE ClientCountExact'
  BY <1>14, Zenon
     DEF MoveToDead, Drained, Subject, Without, With, placeVars, mapVars, objectVars, countVars
<1>15. ASSUME NEW x \in Actors, DeleteClient(x) PROVE ClientCountExact'
  BY <1>15, Zenon DEF DeleteClient, Subject, placeVars, mapVars, objectVars, countVars
<1>16. ASSUME NEW x \in Actors, UncountClient(x) PROVE ClientCountExact'
  BY <1>16, <1>e, Zenon
<1>17. QED
  BY <1>1, <1>2, <1>3, <1>4, <1>5, <1>6, <1>7, <1>8, <1>9, <1>10, <1>11, <1>12, <1>13,
     <1>14, <1>15, <1>16, EveryStepHasAShape, Zenon
     DEF Shapes, ActorStep

(* The client that serve() starts a thread for has an address that is not  *)
(* a key of the map: whoever had it is out of the map by now.              *)
LEMMA FreeAddress ==
    ASSUME RefInv, AddressInv, pc[Serve] = "connected"
    PROVE  client \in Conns /\ address[client] \notin DOMAIN activeClientMap_
<1>1. client \in Conns /\ pc[client] = "accepted"
  BY Zenon DEF RefInv, Labelled, Referenced, Holding, Disposing
<1>2. address[client] # None
  BY Zenon DEF AddressInv, Holding
<1>3. ~Live(client)
  BY <1>1, Zenon DEF Live
<1>4. QED
  BY <1>1, <1>2, <1>3 DEF AddressInv

(* The map of active threads follows the clients' addresses.               *)
LEMMA AddressStep == RefInv /\ AddressInv /\ [Next]_vars => AddressInv'
<1> SUFFICES ASSUME RefInv, AddressInv, [Next]_vars PROVE AddressInv'
  BY Zenon
<1> USE ConstantsAssumption DEF AddressInv, Live, RefInv, Labelled, Referenced, Actors,
      Goto, Holding, Owning, Disposing
<1>1. CASE Quiet
  BY <1>1, SMTT(30) DEF Quiet, placeVars, mapVars, objectVars
<1>2. CASE LoopMoves
  BY <1>2, SMTT(30) DEF LoopMoves, ServeTurns, placeVars, mapVars, objectVars
<1>3. CASE EndMoves
  BY <1>3, SMTT(30) DEF EndMoves, ServeTurns, placeVars, mapVars, objectVars
<1>4. CASE CountClient
  BY <1>4, SMTT(30) DEF CountClient, placeVars, mapVars, objectVars, countVars
<1>5. CASE StartThread
  BY <1>5, SMTT(30) DEF StartThread, With, placeVars, mapVars, objectVars, countVars
<1>6. CASE StartFails
  BY <1>6, SMTT(30) DEF StartFails, With, Without, placeVars, mapVars, objectVars, countVars
<1>7. CASE PoolAdd
  BY <1>7, SMTT(30) DEF PoolAdd, placeVars, mapVars, objectVars, countVars
<1>8. ASSUME NEW c \in Conns, ClientMoves(c) PROVE AddressInv'
  BY <1>8, SMTT(30) DEF ClientMoves, ClientTurns, placeVars, mapVars, objectVars
<1>9. ASSUME NEW c \in Conns, Accept(c) PROVE AddressInv'
  BY <1>9, SMTT(30) DEF Accept, placeVars, mapVars, objectVars, countVars
<1>10. ASSUME NEW c \in Conns, SetupFails(c) PROVE AddressInv'
  BY <1>10, SMTT(30) DEF SetupFails, placeVars, mapVars, objectVars, countVars
<1>11. ASSUME NEW x \in Actors, DropReference(x) PROVE AddressInv'
  BY <1>11, SMTT(30)
     DEF DropReference, Last, Subject, Released, placeVars, mapVars, objectVars, countVars
<1>12. ASSUME NEW x \in Actors, LockClients(x) PROVE AddressInv'
  BY <1>12, SMTT(30) DEF LockClients, placeVars, mapVars, objectVars, countVars
<1>13. ASSUME NEW x \in Actors, JoinDead(x) PROVE AddressInv'
  BY <1>13, SMTT(30) DEF JoinDead, Without, placeVars, mapVars, objectVars, countVars
<1>14. ASSUME NEW x \in Actors, MoveToDead(x) PROVE AddressInv'
  BY <1>14, SMTT(30)
     DEF MoveToDead, Drained, Subject, Without, With, placeVars, mapVars, objectVars, countVars
<1>15. ASSUME NEW x \in Actors, DeleteClient(x) PROVE AddressInv'
  BY <1>15, SMTT(30) DEF DeleteClient, Subject, placeVars, mapVars, objectVars, countVars
<1>16. ASSUME NEW x \in Actors, UncountClient(x) PROVE AddressInv'
  BY <1>16, SMTT(30)
     DEF UncountClient, Released, Subject, placeVars, mapVars, objectVars, countVars
<1>17. QED
  BY <1>1, <1>2, <1>3, <1>4, <1>5, <1>6, <1>7, <1>8, <1>9, <1>10, <1>11, <1>12, <1>13,
     <1>14, <1>15, <1>16, EveryStepHasAShape, Zenon
     DEF Shapes, ActorStep

(* Only four steps touch the maps of threads.                              *)
LEMMA MapSteps ==
    RefInv /\ [Next]_vars => \/ UNCHANGED mapVars
                             \/ StartThread \/ StartFails
                             \/ \E x \in Actors : JoinDead(x) \/ MoveToDead(x)
BY EveryStepHasAShape, ZenonT(30)
   DEF Shapes, ActorStep, Quiet, LoopMoves, EndMoves, ClientMoves,
   placeVars, CountClient, PoolAdd, Accept, SetupFails, DropReference, LockClients, DeleteClient,
   UncountClient

(* No step forgets a thread: a new one enters the map under a free address *)
(* and one that ends enters the other map when it is empty.                *)
LEMMA ThreadStep ==
    RefInv /\ AddressInv /\ NoThreadForgotten /\ [Next]_vars => NoThreadForgotten'
<1> SUFFICES ASSUME RefInv, AddressInv, NoThreadForgotten, [Next]_vars,
                    NEW t \in started'
             PROVE  \/ \E a \in DOMAIN activeClientMap_' : activeClientMap_'[a] = t
                    \/ \E a \in DOMAIN deadClientMap_' : deadClientMap_'[a] = t
                    \/ t \in joined'
  BY Zenon DEF NoThreadForgotten, Tracked
<1>0. t \in started => \/ \E a \in DOMAIN activeClientMap_ : activeClientMap_[a] = t
                       \/ \E a \in DOMAIN deadClientMap_ : deadClientMap_[a] = t
                       \/ t \in joined
  BY Zenon DEF NoThreadForgotten, Tracked
<1>1. CASE UNCHANGED mapVars
  BY <1>0, <1>1, Zenon DEF mapVars
<1>2. CASE StartThread
  <2>1. address[client] \notin DOMAIN activeClientMap_
    BY <1>2, FreeAddress, Zenon DEF StartThread
  <2>2. t = client \/ t \in started
    BY <1>2, Zenon DEF StartThread
  <2>3. QED
    BY <1>0, <1>2, <2>1, <2>2, Zenon DEF StartThread, With
<1>3. CASE StartFails
  <2>1. address[client] \notin DOMAIN activeClientMap_
    BY <1>3, FreeAddress, Zenon DEF StartFails
  <2>2. QED
    BY <1>0, <1>3, <2>1, Zenon DEF StartFails, With, Without
<1>4. ASSUME NEW x \in Actors, JoinDead(x)
      PROVE  \/ \E a \in DOMAIN activeClientMap_' : activeClientMap_'[a] = t
             \/ \E a \in DOMAIN deadClientMap_' : deadClientMap_'[a] = t
             \/ t \in joined'
  BY <1>0, <1>4, Zenon DEF JoinDead, Without
<1>5. ASSUME NEW x \in Actors, MoveToDead(x)
      PROVE  \/ \E a \in DOMAIN activeClientMap_' : activeClientMap_'[a] = t
             \/ \E a \in DOMAIN deadClientMap_' : deadClientMap_'[a] = t
             \/ t \in joined'
  <2> DEFINE a == address[Subject(x)]
  <2>1. a \notin DOMAIN deadClientMap_
    BY <1>5, Zenon DEF MoveToDead, Drained
  <2>2. t \in started /\ joined' = joined /\ activeClientMap_' = Without(activeClientMap_, a)
    BY <1>5, Zenon DEF MoveToDead
  <2>3. CASE a \in DOMAIN activeClientMap_
    <3>1. deadClientMap_' = With(deadClientMap_, a, activeClientMap_[a])
      BY <1>5, <2>3, Zenon DEF MoveToDead
    <3>2. QED
      BY <1>0, <2>1, <2>2, <3>1, Zenon DEF With, Without
  <2>4. CASE a \notin DOMAIN activeClientMap_
    <3>1. deadClientMap_' = deadClientMap_
      BY <1>5, <2>4, Zenon DEF MoveToDead
    <3>2. QED
      BY <1>0, <2>2, <2>4, <3>1, Zenon DEF Without
  <2>5. QED
    BY <2>3, <2>4, Zenon
<1>6. QED
  BY <1>1, <1>2, <1>3, <1>4, <1>5, MapSteps, Zenon

(* The first key of a map of threads is one of its keys.                   *)
LEMMA FirstKey ==
    ASSUME NEW map, DOMAIN map \subseteq Nat, DOMAIN map # {}
    PROVE  First(map) \in DOMAIN map
<1> DEFINE R == OpToRel(<, Nat)
<1>1. PICK k \in DOMAIN map : \A j \in DOMAIN map : ~(<<j, k>> \in R)
  BY NatLessThanWellFounded, WFMin, Zenon
<1>2. \A a, b \in Nat : a < b => <<a, b>> \in R
  BY Zenon DEF OpToRel
<1>3. \A j \in DOMAIN map : ~(j < k)
  BY <1>1, <1>2, ZenonT(30)
<1>4. \A j \in DOMAIN map : k <= j
  BY <1>3
<1>5. QED
  BY <1>4, Zenon DEF First

(* Only TThreadedServer has maps of threads.                               *)
LEMMA OnlyThreaded ==
    ASSUME AddressInv, ThreadInv, kind # "threaded"
    PROVE  DOMAIN activeClientMap_ = {} /\ DOMAIN deadClientMap_ = {}
<1>1. started = {}
  BY Zenon DEF ThreadInv
<1>2. \A a \in DOMAIN deadClientMap_ : FALSE
  BY <1>1, Zenon DEF ThreadInv
<1>3. DOMAIN activeClientMap_ = {}
  BY Zenon DEF AddressInv
<1>4. QED
  BY <1>2, <1>3, Zenon

(* Threads and client objects stay where serve() will find them.           *)
LEMMA PlaceStep == RefInv /\ AddressInv /\ ThreadInv /\ [Next]_vars => ThreadInv'
<1> SUFFICES ASSUME RefInv, AddressInv, ThreadInv, [Next]_vars PROVE ThreadInv'
  BY Zenon
<1> USE ConstantsAssumption DEF RefInv, Labelled, Referenced, AddressInv, Live, Present,
      ThreadInv, Actors, Goto, Holding, Owning, Disposing
<1>1. CASE Quiet
  BY <1>1, SMTT(30) DEF Quiet, placeVars, mapVars, objectVars
<1>2. CASE LoopMoves
  BY <1>2, SMTT(30) DEF LoopMoves, ServeTurns, placeVars, mapVars, objectVars
<1>3. CASE EndMoves
  BY <1>3, SMTT(30) DEF EndMoves, ServeTurns, placeVars, mapVars, objectVars
<1>4. CASE CountClient
  BY <1>4, SMTT(30) DEF CountClient, placeVars, mapVars, objectVars, countVars
<1>5. CASE StartThread
  BY <1>5, SMTT(30) DEF StartThread, With, placeVars, mapVars, objectVars, countVars
<1>6. CASE StartFails
  BY <1>6, SMTT(30) DEF StartFails, With, Without, placeVars, mapVars, objectVars, countVars
<1>7. CASE PoolAdd
  BY <1>7, Zenon DEF PoolAdd, placeVars, mapVars, objectVars, countVars
<1>8. ASSUME NEW c \in Conns, ClientMoves(c) PROVE ThreadInv'
  BY <1>8, SMTT(30) DEF ClientMoves, ClientTurns, placeVars, mapVars, objectVars
<1>9. ASSUME NEW c \in Conns, Accept(c) PROVE ThreadInv'
  BY <1>9, SMTT(30) DEF Accept, placeVars, mapVars, objectVars, countVars
<1>10. ASSUME NEW c \in Conns, SetupFails(c) PROVE ThreadInv'
  BY <1>10, SMTT(30) DEF SetupFails, placeVars, mapVars, objectVars, countVars
<1>11. ASSUME NEW x \in Actors, DropReference(x) PROVE ThreadInv'
  BY <1>11, SMTT(30)
     DEF DropReference, Last, Subject, Released, placeVars, mapVars, objectVars, countVars
<1>12. ASSUME NEW x \in Actors, LockClients(x) PROVE ThreadInv'
  BY <1>12, SMTT(30) DEF LockClients, placeVars, mapVars, objectVars, countVars
<1>13. ASSUME NEW x \in Actors, JoinDead(x) PROVE ThreadInv'
  <2>1. First(deadClientMap_) \in DOMAIN deadClientMap_
    BY <1>13, FirstKey, Zenon DEF JoinDead
  <2>2. QED
    BY <1>13, <2>1, SMTT(30) DEF JoinDead, Without, countVars, mapVars, objectVars
<1>14. ASSUME NEW x \in Actors, MoveToDead(x) PROVE ThreadInv'
  BY <1>14, SMTT(30)
     DEF MoveToDead, Drained, Subject, Without, With, placeVars, mapVars, objectVars, countVars
<1>15. ASSUME NEW x \in Actors, DeleteClient(x) PROVE ThreadInv'
  BY <1>15, SMTT(30) DEF DeleteClient, Subject, placeVars, mapVars, objectVars, countVars
<1>16. ASSUME NEW x \in Actors, UncountClient(x) PROVE ThreadInv'
  BY <1>16, SMTT(30)
     DEF UncountClient, Released, Subject, placeVars, mapVars, objectVars, countVars
<1>17. QED
  BY <1>1, <1>2, <1>3, <1>4, <1>5, <1>6, <1>7, <1>8, <1>9, <1>10, <1>11, <1>12, <1>13,
     <1>14, <1>15, <1>16, EveryStepHasAShape, Zenon
     DEF Shapes, ActorStep

(* serve() goes through its end only when the threads are through theirs.  *)
LEMMA EndStep == RefInv /\ AddressInv /\ ThreadInv /\ EndInv /\ [Next]_vars => EndInv'
<1> SUFFICES ASSUME RefInv, AddressInv, ThreadInv, EndInv, [Next]_vars PROVE EndInv'
  BY Zenon
<1> pc \in [Actors -> ServeLabels \cup ClientLabels] /\ Serve \in Actors
    /\ Actors = Conns \cup {Serve} /\ Serve \notin Conns
    /\ \A c \in Conns : pc[c] # "drop"
  BY ConstantsAssumption, Zenon DEF RefInv, Labelled, Actors, ClientLabels, Owning, Disposing
<1> USE DEF EndInv, Goto, Owning, Disposing
<1>1. CASE Quiet
  BY <1>1, Zenon DEF Quiet, placeVars, mapVars, socketVars
<1>2. CASE LoopMoves
  BY <1>2, Zenon DEF LoopMoves, ServeTurns, placeVars, mapVars, socketVars
<1>3. CASE EndMoves
  <2>1. kind # "threaded" => DOMAIN activeClientMap_ = {} /\ DOMAIN deadClientMap_ = {}
    BY OnlyThreaded, ZenonT(30)
  <2>2. QED
    BY <1>3, <2>1, SMTT(30) DEF EndMoves, ServeTurns, Queued, Busy, placeVars, mapVars,
       ThreadInv, Live, RefInv, Labelled
<1>4. CASE CountClient
  BY <1>4, Zenon DEF CountClient, placeVars, mapVars, socketVars, countVars
<1>5. CASE StartThread
  BY <1>5, Zenon DEF StartThread, With, placeVars, mapVars, socketVars, countVars
<1>6. CASE StartFails
  BY <1>6, Zenon DEF StartFails, With, Without, placeVars, mapVars, socketVars, countVars
<1>7. CASE PoolAdd
  BY <1>7, Zenon DEF PoolAdd, placeVars, mapVars, socketVars, countVars
<1>8. ASSUME NEW c \in Conns, ClientMoves(c) PROVE EndInv'
  BY <1>8, Zenon DEF ClientMoves, ClientTurns, placeVars, mapVars, socketVars
<1>9. ASSUME NEW c \in Conns, Accept(c) PROVE EndInv'
  BY <1>9, Zenon DEF Accept, placeVars, mapVars, socketVars, countVars
<1>10. ASSUME NEW c \in Conns, SetupFails(c) PROVE EndInv'
  BY <1>10, Zenon DEF SetupFails, placeVars, mapVars, socketVars, countVars
<1>11. ASSUME NEW x \in Actors, DropReference(x) PROVE EndInv'
  BY <1>11, Zenon
     DEF DropReference, Last, Subject, Released, placeVars, mapVars, socketVars, countVars
<1>12. ASSUME NEW x \in Actors, LockClients(x) PROVE EndInv'
  BY <1>12, Zenon DEF LockClients, placeVars, mapVars, socketVars, countVars
<1>13. ASSUME NEW x \in Actors, JoinDead(x) PROVE EndInv'
  BY <1>13, Zenon DEF JoinDead, Without, placeVars, mapVars, socketVars, countVars
<1>14. ASSUME NEW x \in Actors, MoveToDead(x) PROVE EndInv'
  BY <1>14, Zenon
     DEF MoveToDead, Drained, Subject, Without, With, placeVars, mapVars, socketVars, countVars
<1>15. ASSUME NEW x \in Actors, DeleteClient(x) PROVE EndInv'
  BY <1>15, Zenon DEF DeleteClient, Subject, placeVars, mapVars, socketVars, countVars
<1>16. ASSUME NEW x \in Actors, UncountClient(x) PROVE EndInv'
  BY <1>16, Zenon
     DEF UncountClient, Released, Subject, placeVars, mapVars, socketVars, countVars
<1>17. QED
  BY <1>1, <1>2, <1>3, <1>4, <1>5, <1>6, <1>7, <1>8, <1>9, <1>10, <1>11, <1>12, <1>13,
     <1>14, <1>15, <1>16, EveryStepHasAShape, Zenon
     DEF Shapes, ActorStep

(* The servers start with no client, no reference and no thread.           *)
LEMMA Start ==
    Init => /\ RefInv /\ LimitInv /\ AddressInv /\ ClientCountExact /\ NoThreadForgotten
            /\ ThreadInv /\ EndInv
<1> SUFFICES ASSUME Init
             PROVE  /\ RefInv /\ LimitInv /\ AddressInv /\ ClientCountExact
                    /\ NoThreadForgotten /\ ThreadInv /\ EndInv
  BY Zenon
<1>1. RefInv
  BY ConstantsAssumption, Zenon DEF Init, RefInv, Labelled, Referenced, ServeLabels, ClientLabels,
     Actors, Holding, Owning, Disposing
<1>2. LimitInv
  BY ConstantsAssumption DEF Init, LimitInv
<1>3. AddressInv
  BY ConstantsAssumption DEF Init, AddressInv, Live, Actors, Holding
<1>4. ClientCountExact
  <2>1. {c \in Conns : Counted(c)} = {}
    BY ConstantsAssumption, Zenon DEF Init, Counted, Actors, Disposing
  <2>2. QED
    BY <2>1, FS_EmptySet, Zenon DEF Init, ClientCountExact
<1>5. NoThreadForgotten
  BY Zenon DEF Init, NoThreadForgotten
<1>6. ThreadInv /\ EndInv
  BY ConstantsAssumption, SMTT(30) DEF Init, ThreadInv, EndInv, Live, Actors, Holding, Owning,
     Disposing
<1>7. QED
  BY <1>1, <1>2, <1>3, <1>4, <1>5, <1>6, Zenon

(* TServerFramework counts its clients exactly: newlyConnectedClient adds  *)
(* one for each client and disposeConnectedClient takes one away for each, *)
(* whichever thread drops the last reference.                              *)
THEOREM ClientsAreCounted == Spec => []ClientCountExact
<1>1. RefInv /\ ClientCountExact /\ [Next]_vars => (RefInv /\ ClientCountExact)'
  BY RefStep, CountStep, Zenon
<1>2. QED
  BY <1>1, Start, PTL DEF Spec

(* There are never more clients than the largest limit allows, and serve() *)
(* sleeps on mon_ only while the limit is reached, however                 *)
(* setConcurrentClientLimit and disposeConnectedClient interleave with it. *)
THEOREM LimitIsKept == Spec => []LimitRespected
<1>1. RefInv /\ LimitInv /\ [Next]_vars => (RefInv /\ LimitInv)'
  BY RefStep, LimitStep, Zenon
<1>2. LimitInv => LimitRespected
  BY Zenon DEF LimitInv, LimitRespected
<1>3. QED
  BY <1>1, <1>2, Start, PTL DEF Spec

(* Every thread TThreadedServer starts stays in one of its maps until it   *)
(* is joined, although addresses, the keys of both maps, are used again.   *)
THEOREM ThreadsAreKept == Spec => []NoThreadForgotten
<1> DEFINE IInv == RefInv /\ AddressInv /\ NoThreadForgotten
<1>1. IInv /\ [Next]_vars => IInv'
  BY RefStep, AddressStep, ThreadStep, Zenon
<1>2. QED
  BY <1>1, Start, PTL DEF Spec

(* When serve() returns, whichever way its loop ended and however the      *)
(* clients, the pool and stop() interleave with it: the server transport   *)
(* is closed, clients_ is 0, every client object is deleted and every      *)
(* thread has ended and been joined.                                       *)
THEOREM ServeLeavesNothing == Spec => []ServePostcondition
<1> DEFINE IInv == /\ RefInv /\ AddressInv /\ ClientCountExact /\ NoThreadForgotten
                   /\ ThreadInv /\ EndInv
<1>1. IInv /\ [Next]_vars => IInv'
  BY RefStep, AddressStep, CountStep, ThreadStep, PlaceStep, EndStep, Zenon
<1>2. IInv => ServePostcondition
  <2> SUFFICES ASSUME IInv, pc[Serve] = "returned"
               PROVE  /\ ~listening_ /\ clients_ = 0
                      /\ \A c \in Conns : /\ address[c] = None
                                          /\ pc[c] \in {"away", "backlog", "accepted", "gone"}
                      /\ Tracked = {} /\ started = joined
    BY Zenon DEF ServePostcondition
  <2>1. ~listening_
    BY Zenon DEF EndInv
  <2>2. \A c \in Conns : pc[c] \in {"away", "backlog", "accepted", "gone"}
    BY Zenon DEF EndInv, RefInv, Labelled, ClientLabels
  <2>3. \A c \in Conns : address[c] = None
    BY <2>2, Zenon DEF ThreadInv, Present, Holding, Owning
  <2>4. clients_ = 0
    <3>1. {c \in Conns : Counted(c)} = {}
      BY <2>2, SMTT(30) DEF Counted, RefInv, Referenced, Holding, Owning, Disposing
    <3>2. QED
      BY <3>1, FS_EmptySet, Zenon DEF ClientCountExact
  <2>5. Tracked = {}
    BY Zenon DEF EndInv, Tracked
  <2>6. started = joined
    BY <2>5, Zenon DEF NoThreadForgotten, ThreadInv
  <2>7. QED
    BY <2>1, <2>2, <2>3, <2>4, <2>5, <2>6, Zenon
<1>3. QED
  BY <1>1, <1>2, Start, PTL DEF Spec
=============================================================================
