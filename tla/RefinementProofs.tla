-------------------------- MODULE RefinementProofs --------------------------
(***************************************************************************)
(* The orchestrator implements Admission, for any number of models,        *)
(* engines and clients: on a box that behaves every step of every routine, *)
(* in every interleaving, is a step of the promise, or none.               *)
(***************************************************************************)
EXTENDS Refinement, IdleSweep, BudgetProofs

(***************************************************************************)
(* The load in flight.                                                     *)
(***************************************************************************)
\* The mutex makes the model whose load is in flight a unique one.
LEMMA LoadingIs ==
  ASSUME OneLoadAtATime
  PROVE  /\ (\A t \in Task : pc[t] \notin {"load", "loaded"}) => Loading = None
         /\ \A t \in Task : pc[t] \in {"load", "loaded"} => Loading = work[t].model
<1>1. \A t, u \in InFlight : t = u
  BY DEF OneLoadAtATime, InFlight, Inside
<1>2. ASSUME NEW t \in Task, pc[t] \in {"load", "loaded"} PROVE Loading = work[t].model
  <2>1. t \in InFlight
    BY <1>2 DEF InFlight
  <2>2. (CHOOSE u \in InFlight : TRUE) = t
    BY <1>1, <2>1
  <2> QED BY <2>1, <2>2 DEF Loading
<1> QED BY <1>2 DEF Loading, InFlight

LEMMA LoadingAfter ==
  ASSUME OneLoadAtATime'
  PROVE  /\ (\A t \in Task : pc'[t] \notin {"load", "loaded"}) => Loading' = None
         /\ \A t \in Task : pc'[t] \in {"load", "loaded"} => Loading' = work'[t].model
<1>1. \A t, u \in InFlight' : t = u
  BY DEF OneLoadAtATime, InFlight, Inside
<1>2. ASSUME NEW t \in Task, pc'[t] \in {"load", "loaded"} PROVE Loading' = work'[t].model
  <2>1. t \in InFlight'
    BY <1>2 DEF InFlight
  <2>2. (CHOOSE u \in InFlight' : TRUE) = t
    BY <1>1, <2>1
  <2> QED BY <2>1, <2>2 DEF Loading
<1> QED BY <1>2 DEF Loading, InFlight

\* It changes only if a task goes to its engine or comes back from it.
LEMMA LoadingKept ==
  ASSUME OneLoadAtATime, OneLoadAtATime',
         \A t \in Task : /\ pc[t] \in {"load", "loaded"} <=> pc'[t] \in {"load", "loaded"}
                         /\ pc[t] \in {"load", "loaded"} => work'[t].model = work[t].model
  PROVE  Loading' = Loading
<1>1. CASE \A t \in Task : pc[t] \notin {"load", "loaded"}
  BY <1>1, LoadingIs, LoadingAfter
<1>2. ASSUME NEW t \in Task, pc[t] \in {"load", "loaded"} PROVE Loading' = Loading
  BY <1>2, LoadingIs, LoadingAfter
<1> QED BY <1>1, <1>2

(***************************************************************************)
(* What the card holds.                                                    *)
(***************************************************************************)
\* An elastic engine has one process, and a model whose load is about to return
\* is resident.
Carded ==
  /\ \A m, n \in DOMAIN held : EngineOf[m] = EngineOf[n] /\ IsElastic(m) => m = n
  /\ \A t \in Task : pc[t] = "loaded" => work[t].model \in DOMAIN held

LEMMA CardedInit == Init => Carded
BY DEF Init, FreshPc, Found, Leftover, Carded, Task

LEMMA CardedStep ==
  ASSUME TypeOK, Lock, Behaving, [Next]_vars, Carded
  PROVE  Carded'
<1>1. ASSUME NEW m \in DOMAIN held', m \notin DOMAIN held,
             NEW n \in DOMAIN held', EngineOf[m] = EngineOf[n], IsElastic(m)
      PROVE  m = n
  <2>1. PICK t \in Task : EngineLoads(t) /\ work[t].model = m
    BY <1>1, OnlyLoadsAdd DEF Behaving
  <2>2. DOMAIN held' = DOMAIN held \cup {m}
    BY <2>1 DEF EngineLoads, Allocate, Put, PutAll
  <2>3. InEngine(EngineOf[m]) = {}
    BY <1>1, <2>1 DEF EngineLoads, Occupied
  <2> QED BY <1>1, <2>2, <2>3 DEF InEngine
<1>2. ASSUME NEW m \in DOMAIN held', NEW n \in DOMAIN held',
             EngineOf[m] = EngineOf[n], IsElastic(m)
      PROVE  m = n
  <2>1. IsElastic(n)
    BY <1>2 DEF IsElastic
  <2> QED BY <1>1, <1>2, <2>1 DEF Carded
<1>3. ASSUME NEW t \in Task, pc'[t] = "loaded" PROVE work'[t].model \in DOMAIN held'
  <2>1. CASE UNCHANGED vars \/ Box
    BY <1>3, <2>1 DEF vars, card, Box, Tick, OobMoves, EngineDrops, DirectLoad, Behaving,
         Carded
  <2>2. CASE EngineLoads(t)
    BY <2>2 DEF EngineLoads, Allocate, Put, PutAll
  <2>3. CASE pc[t] = "loaded" /\ work'[t] = work[t] /\ held' = held
    BY <2>3 DEF Carded
  <2> QED BY <1>3, <2>1, <2>2, <2>3, Waiting DEF Next
<1> QED BY <1>2, <1>3 DEF Carded, IsElastic

\* No engine has more than the card.
LEMMA EntryBound ==
  ASSUME NEW f, IsByteCount(f), NEW m \in DOMAIN f
  PROVE  f[m] \in Nat /\ f[m] <= Bytes(f)
<1>1. PICK D \in SUBSET Models : f \in [D -> Nat]
  BY DEF IsByteCount
<1> DEFINE rest == Restrict(f, D \ {m})
<1>2. /\ IsFiniteSet(D \ {m}) /\ rest \in [D \ {m} -> Nat] /\ m \notin D \ {m}
      /\ (D \ {m}) \cup {m} = D /\ \A x \in D \ {m} : f[x] = rest[x]
      /\ f \in [(D \ {m}) \cup {m} -> Nat]
  BY <1>1, OrchestratorAssumption, FS_Subset DEF Restrict
<1>3. f[m] \in Nat
  BY <1>1
<1>4. Bytes(rest) \in Nat
  BY <1>2, BytesType
<1> HIDE DEF rest
<1>5. Bytes(f) = Bytes(rest) + f[m]
  BY <1>2, <1>3, BytesAdd
<1> QED BY <1>3, <1>4, <1>5

LEMMA PromiseInit == Init => Promised!Init
<1> SUFFICES ASSUME Init PROVE Promised!Init
  OBVIOUS
<1>1. held \in Leftover /\ oob \in OobLevels /\ FreeNow >= 0 /\ lastUsed = Empty
  BY DEF Init, Found
<1>2. PICK S \in SUBSET Models :
        held = [m \in S |-> IF IsElastic(m) THEN Granted(Seed[m]) ELSE Size[m]]
  BY <1>1 DEF Leftover
<1>3. held \in [S -> Nat]
  BY <1>2, GrantedType, OrchestratorAssumption
<1>4. IsByteCount(held)
  BY <1>3 DEF IsByteCount
<1>5. \A m \in S : held[m] \in 0 .. Total
  <2> TAKE m \in S
  <2>1. held[m] \in Nat /\ held[m] <= Bytes(held)
    BY <1>3, <1>4, EntryBound
  <2>2. Bytes(held) \in Nat /\ oob \in Nat /\ Bytes(held) <= Total
    BY <1>1, <1>4, ByteCountSum, OrchestratorAssumption, VramAssumption DEF FreeNow, Free
  <2> QED BY <2>1, <2>2, VramAssumption
<1>6. held \in [S -> 0 .. Total]
  BY <1>3, <1>5
<1>7. Loading = None
  BY DEF Init, FreshPc, InFlight, Loading, Task
<1>8. DOMAIN lastUsed = {}
  BY <1>1 DEF Empty
<1> QED BY <1>1, <1>6, <1>7, <1>8 DEF Promised!Init

(***************************************************************************)
(* The steps.                                                              *)
(***************************************************************************)
\* What is known of a state by the theorems about the orchestrator.
Known ==
  /\ TypeOK /\ Lock /\ OneLoadAtATime /\ Adopted /\ NeverLosesTrack /\ NoDoubleLoad
  /\ Carded /\ \A t \in Task : Lined(t) /\ Honest(t)

\* A step of one task that is not about the load in flight.
LEMMA Elsewhere ==
  ASSUME Known, OneLoadAtATime', NEW t \in Task, Advance(t),
         pc[t] \notin {"load", "loaded"}, pc'[t] \notin {"load", "loaded"}
  PROVE  Loading' = Loading
<1>1. \A u \in Task \ {t} : pc'[u] = pc[u] /\ work'[u] = work[u]
  BY OnlyOwnMove DEF Known
<1> QED BY <1>1, LoadingKept DEF Known

\* Inside the critical section every resident model is tracked, but for the one
\* whose load is about to return.
LEMMA TrackedInside ==
  ASSUME Known, NEW t \in Task, pc[t] \in Inside \ {"loaded"}
  PROVE  DOMAIN held \subseteq DOMAIN lastUsed
<1>1. \A u \in Task : pc[u] # "loaded"
  BY DEF Known, OneLoadAtATime, Inside
<1>2. pc[Sweeper] # "adopt"
  BY DEF Known, Adopted, Task, Inside
<1> QED BY <1>1, <1>2 DEF Known, NeverLosesTrack

\* Steps that are none of the promise's.
LEMMA Silent ==
  ASSUME UNCHANGED <<held, oob>>, DOMAIN lastUsed' = DOMAIN lastUsed, Loading' = Loading
  PROVE  UNCHANGED Promised!promise
BY DEF Promised!promise

LEMMA QuietSteps ==
  ASSUME Known, OneLoadAtATime', Behaving, NEW t \in Task, Advance(t),
         \/ FastYes(t) \/ FastMiss(t) \/ FastError(t) \/ RecheckError(t) \/ Measure(t)
         \/ \E e \in Engines : AskReserve(t, e)
         \/ Decide(t) \/ EvictMeasure(t) \/ EvictNext(t) \/ VictimUp(t) \/ EvictFails(t)
         \/ EvictDone(t) \/ AdmitRoom(t) \/ AdmitRefuse(t) \/ Refuse(t)
         \/ CheckYes(t) \/ UnloadFails(t) \/ Respond(t)
  PROVE  UNCHANGED Promised!promise
<1>1. pc \in [Task -> Points]
  BY DEF Known, TypeOK
<1>2. CASE FastYes(t) \/ FastMiss(t) \/ FastError(t) \/ RecheckError(t) \/ Respond(t)
  <2>1. /\ UNCHANGED <<held, oob>> /\ lastUsed' = lastUsed
        /\ pc[t] \notin {"load", "loaded"} /\ pc'[t] \notin {"load", "loaded"}
    BY <1>1, <1>2 DEF FastYes, FastMiss, FastError, RecheckError, Respond, Leave, Enqueue,
         GoTo, Answers, card
  <2> QED BY <2>1, Elsewhere, Silent
<1>3. CASE Measure(t) \/ EvictMeasure(t) \/ \E e \in Engines : AskReserve(t, e)
  <2>1. /\ UNCHANGED <<held, oob>> /\ lastUsed' = lastUsed
        /\ pc[t] \notin {"load", "loaded"} /\ pc'[t] \notin {"load", "loaded"}
    BY <1>1, <1>3 DEF Measure, EvictMeasure, AskReserve, Budgeted, GoTo, card
  <2> QED BY <2>1, Elsewhere, Silent
<1>4. CASE Decide(t) \/ EvictNext(t) \/ VictimUp(t) \/ EvictFails(t) \/ EvictDone(t)
  <2>1. /\ UNCHANGED <<held, oob>> /\ lastUsed' = lastUsed
        /\ pc[t] \notin {"load", "loaded"} /\ pc'[t] \notin {"load", "loaded"}
    BY <1>1, <1>4 DEF Decide, EvictNext, VictimUp, EvictFails, EvictDone, Leave, GoTo, card
  <2> QED BY <2>1, Elsewhere, Silent
<1>5. CASE AdmitRoom(t) \/ AdmitRefuse(t) \/ Refuse(t) \/ CheckYes(t) \/ UnloadFails(t)
  <2>1. /\ UNCHANGED <<held, oob>> /\ lastUsed' = lastUsed
        /\ pc[t] \notin {"load", "loaded"} /\ pc'[t] \notin {"load", "loaded"}
    BY <1>1, <1>5 DEF AdmitRoom, AdmitRefuse, Refuse, CheckYes, UnloadFails, Leave, GoTo, card
  <2> QED BY <2>1, Elsewhere, Silent
<1> QED BY <1>2, <1>3, <1>4, <1>5

\* A use of a model that is there.
LEMMA TouchStep ==
  ASSUME Known, OneLoadAtATime', NEW t \in Task, Advance(t), FastHit(t) \/ RecheckYes(t)
  PROVE  Promised!Next
<1>1. pc \in [Task -> Points] /\ work[t].model \in Models
  BY DEF Known, TypeOK, FastHit, RecheckYes, Asking, AtDoor
<1>2. /\ UNCHANGED <<held, oob>> /\ lastUsed' = Put(lastUsed, work[t].model, now)
      /\ pc[t] \notin {"load", "loaded"} /\ pc'[t] \notin {"load", "loaded"}
  BY <1>1 DEF FastHit, RecheckYes, Touch, Leave, GoTo, card
<1>3. DOMAIN lastUsed' = DOMAIN lastUsed \cup {work[t].model}
  BY <1>2 DEF Put, PutAll
<1>4. Promised!Track({work[t].model})
  BY <1>2, <1>3, Elsewhere DEF Promised!Track
<1> QED BY <1>1, <1>4 DEF Promised!Next

\* A model that leaves the card, and the table: tracked if it was there.
LEMMA Leaving ==
  ASSUME Known, NEW m, m \in DOMAIN held => m \in DOMAIN lastUsed,
         held' = Without(held, m), lastUsed' = Without(lastUsed, m),
         oob' = oob, Loading' = Loading
  PROVE  Promised!Next \/ UNCHANGED Promised!promise
<1>1. DOMAIN lastUsed' = DOMAIN lastUsed \ {m}
  BY WithoutDomain
<1>2. held' = [n \in DOMAIN held \ {m} |-> held[n]]
  BY DEF Without, Restrict
<1>3. DOMAIN held \subseteq Models /\ DOMAIN lastUsed \subseteq Models
  BY DEF Known, TypeOK, IsByteCount, Stamps
<1>4. CASE m \in DOMAIN held
  BY <1>1, <1>2, <1>3, <1>4 DEF Promised!MakeWay, Promised!Next
<1>5. CASE m \notin DOMAIN held
  <2>1. held' = held
    BY <1>2, <1>5 DEF Known, TypeOK, IsByteCount
  <2>2. CASE m \in Models
    BY <1>1, <1>5, <2>1, <2>2 DEF Promised!Untrack, Promised!Next
  <2>3. CASE m \notin Models
    BY <1>1, <1>3, <2>1, <2>3, Silent
  <2> QED BY <2>2, <2>3
<1> QED BY <1>4, <1>5

\* A model that is not there is forgotten, one that is there is unloaded.
LEMMA LeavingSteps ==
  ASSUME Known, OneLoadAtATime', Behaving, NEW t \in Task, Advance(t),
         \/ VictimGone(t) \/ CheckNo(t) \/ EvictUnload(t) \/ Unload(t)
  PROVE  Promised!Next \/ UNCHANGED Promised!promise
<1>1. pc \in [Task -> Points]
  BY DEF Known, TypeOK
<1> DEFINE m == IF pc[t] \in {"victim", "evictUnload"} THEN work[t].victim ELSE work[t].model
<1>2. /\ \/ UNCHANGED held /\ "no" \in IsReady(m)
         \/ pc[t] \in Inside \ {"loaded"} /\ held' = Without(held, m)
      /\ lastUsed' = Without(lastUsed, m) /\ oob' = oob
      /\ pc[t] \notin {"load", "loaded"} /\ pc'[t] \notin {"load", "loaded"}
  BY <1>1 DEF VictimGone, CheckNo, EvictUnload, Unload, Unloaded, Forget, GoTo, card, Inside
<1>3. Loading' = Loading
  BY <1>2, Elsewhere
<1> HIDE DEF m
<1>4. CASE UNCHANGED held /\ "no" \in IsReady(m)
  <2>1. m \notin DOMAIN held
    BY <1>4 DEF IsReady, Behaving
  <2>2. Without(held, m) = held
    BY <2>1 DEF Without, Restrict, Known, TypeOK, IsByteCount
  <2> QED BY <1>2, <1>3, <1>4, <2>1, <2>2, Leaving
<1>5. CASE pc[t] \in Inside \ {"loaded"} /\ held' = Without(held, m)
  BY <1>2, <1>3, <1>5, TrackedInside, Leaving
<1> QED BY <1>2, <1>4, <1>5

\* The load itself.
LEMMA BeginStep ==
  ASSUME Known, OneLoadAtATime', NEW t \in Task, AdmitLoad(t)
  PROVE  Promised!Next
<1> DEFINE m == work[t].model
<1>1. /\ pc[t] = "admit" /\ pc'[t] = "load" /\ work' = work
      /\ UNCHANGED <<held, oob>> /\ lastUsed' = lastUsed
  BY DEF AdmitLoad, GoTo, card, Known, TypeOK
<1>2. m \in Models /\ m \notin DOMAIN held /\ DOMAIN held \subseteq DOMAIN lastUsed
  BY <1>1, TrackedInside
  DEF Known, TypeOK, NoDoubleLoad, Asking, Admitting, Inside
<1>3. \A u \in Task : pc[u] \notin {"load", "loaded"}
  BY <1>1 DEF Known, OneLoadAtATime, Inside
<1>4. Loading = None /\ Loading' = m
  BY <1>1, <1>3, LoadingIs, LoadingAfter DEF Known
<1>5. Promised!Begin(m)
  BY <1>1, <1>2, <1>4 DEF Promised!Begin
<1> QED BY <1>2, <1>5 DEF Promised!Next

LEMMA StopStep ==
  ASSUME Known, OneLoadAtATime', NEW t \in Task, Advance(t), StopOccupant(t)
  PROVE  Promised!Next
<1> DEFINE e == EngineOf[work[t].model]
<1>1. /\ pc[t] = "load" /\ pc' = pc /\ work' = work /\ oob' = oob /\ lastUsed' = lastUsed
      /\ IsElastic(work[t].model) /\ InEngine(e) # {}
      /\ held' = Restrict(held, DOMAIN held \ InEngine(e))
  BY DEF StopOccupant, Occupied
<1>2. PICK m \in DOMAIN held : EngineOf[m] = e
  BY <1>1 DEF InEngine
<1>3. InEngine(e) = {m}
  BY <1>1, <1>2 DEF Known, Carded, InEngine, IsElastic
<1>4. Loading' = Loading
  BY <1>1, LoadingKept DEF Known
<1>5. m \in DOMAIN lastUsed /\ m \in Models
  BY <1>1, TrackedInside DEF Inside, Known, TypeOK, IsByteCount
<1>6. held' = [n \in DOMAIN held \ {m} |-> held[n]]
  BY <1>1, <1>3 DEF Restrict
<1> QED BY <1>1, <1>4, <1>5, <1>6 DEF Promised!MakeWay, Promised!Next

\* The promise counts the card as the orchestrator does.
LEMMA SameFree ==
  ASSUME NEW h, NEW o
  PROVE  Promised!Free(h, o) = Free(h, o)
<1>1. Promised!Cells(h) = Cells(h)
  BY DEF Promised!Cells, Cells
<1>2. \A S : Promised!Cardinality(S) = Cardinality(S)
  BY DEF Promised!Cardinality, Cardinality
<1>3. Promised!Bytes(h) = Bytes(h)
  BY <1>1, <1>2 DEF Promised!Bytes, Bytes
<1> QED BY <1>3 DEF Promised!Free, Free

LEMMA TakeStep ==
  ASSUME Known, TypeOK', OneLoadAtATime', Undisturbed, NEW t \in Task, EngineLoads(t)
  PROVE  Promised!Next
<1> DEFINE m == work[t].model
<1> DEFINE n == IF IsElastic(m) THEN Granted(work[t].needed) ELSE Size[m]
<1>1. /\ pc[t] = "load" /\ pc'[t] = "loaded" /\ work' = work
      /\ oob' = oob /\ lastUsed' = lastUsed
  BY DEF EngineLoads, GoTo, Known, TypeOK
<1>2. /\ m \in Models /\ m \notin DOMAIN held /\ n \in Nat
      /\ held' = Put(held, m, n) /\ FreeNow' = FreeNow - n
      /\ 2 * (Buffer - FreeNow') <= Grain
  BY EngineTakes DEF Known
<1> HIDE DEF n
<1>3. Loading = m /\ Loading' = m
  BY <1>1, LoadingIs, LoadingAfter DEF Known
<1>4. m # None
  BY <1>2, OrchestratorAssumption
<1>5. held' = [x \in DOMAIN held \cup {Loading} |-> IF x = Loading THEN n ELSE held[x]]
  BY <1>2, <1>3 DEF Put, PutAll
<1>6. n \in 0 .. Total
  <2>1. IsByteCount(held) /\ oob \in Nat /\ FreeNow' >= 0
    BY OrchestratorAssumption DEF Known, TypeOK
  <2>2. FreeNow \in Int /\ FreeNow <= Total
    BY <2>1, ByteCountSum, VramAssumption DEF FreeNow, Free
  <2> QED BY <1>2, <2>1, <2>2, VramAssumption
<1>7. 2 * (Buffer - Free(held', oob)) <= Grain
  BY <1>1, <1>2 DEF FreeNow
<1>8. Promised!Free(held', oob) = Free(held', oob)
  BY SameFree
<1>9. Promised!Take
  BY <1>1, <1>2, <1>3, <1>4, <1>5, <1>6, <1>7, <1>8 DEF Promised!Take
<1> QED BY <1>9 DEF Promised!Next

\* A load that fails, or returns.
LEMMA EndStep ==
  ASSUME Known, OneLoadAtATime', NEW t \in Task, Advance(t),
         LoadFails(t) \/ LoadReturns(t)
  PROVE  Promised!Next
<1> DEFINE m == work[t].model
<1>1. pc \in [Task -> Points] /\ pc[t] \in {"load", "loaded"} /\ m \in Models
  BY DEF LoadFails, LoadReturns, Known, TypeOK, Asking, Inside
<1>2. /\ pc'[t] \in {"failed", "url"} /\ UNCHANGED <<held, oob>>
  BY <1>1 DEF LoadFails, LoadReturns, Leave, GoTo, card
<1>3. \A u \in Task : pc'[u] \notin {"load", "loaded"}
  <2>1. \A u \in Task \ {t} : pc'[u] = pc[u]
    BY OnlyOwnMove DEF Known
  <2>2. \A u \in Task \ {t} : pc[u] \notin Inside
    BY <1>1 DEF Known, OneLoadAtATime, Inside
  <2> QED BY <1>2, <2>1, <2>2 DEF Inside
<1>4. Loading = m /\ Loading' = None /\ m # None
  BY <1>1, <1>3, LoadingIs, LoadingAfter, OrchestratorAssumption DEF Known
<1>5. CASE LoadFails(t)
  <2>1. m \notin DOMAIN held /\ lastUsed' = lastUsed
    BY <1>5 DEF LoadFails, Known, NoDoubleLoad, Admitting, Inside
  <2> QED BY <1>2, <1>4, <2>1 DEF Promised!GiveUp, Promised!Next
<1>6. CASE LoadReturns(t)
  <2>1. m \in DOMAIN held
    BY <1>6 DEF LoadReturns, Known, Carded
  <2>2. DOMAIN lastUsed' = DOMAIN lastUsed \cup {m}
    BY <1>6 DEF LoadReturns, Touch, Put, PutAll
  <2> QED BY <1>2, <1>4, <2>1, <2>2 DEF Promised!Finish, Promised!Next
<1> QED BY <1>5, <1>6

\* The sweep between two models, and adoption.
LEMMA SweepStep ==
  ASSUME Known, OneLoadAtATime', Behaving, Sweep
  PROVE  Promised!Next \/ UNCHANGED Promised!promise
<1>1. Loading' = Loading
  <2>1. pc[Sweeper] \notin Inside /\ pc'[Sweeper] \notin Inside
        /\ \A t \in Task \ {Sweeper} : pc'[t] = pc[t] /\ work'[t] = work[t]
    BY SweepHarmless DEF Known
  <2> QED BY <2>1, LoadingKept DEF Known, Inside
<1>2. CASE StartSweep \/ SweepNext \/ EndSweep
  BY <1>1, <1>2, Silent DEF StartSweep, SweepNext, EndSweep, card
<1>3. ASSUME NEW e \in Engines, Adopt(e) PROVE Promised!Next
  <2>1. PICK listed \in Resident(e) : lastUsed' = PutAll(lastUsed, listed, now)
    BY <1>3 DEF Adopt
  <2>2. listed = InEngine(e)
    BY DEF Resident, Behaving
  <2>3. listed \in SUBSET Models
    BY <2>2 DEF InEngine, Known, TypeOK, IsByteCount
  <2>4. DOMAIN lastUsed' = DOMAIN lastUsed \cup listed
    BY <2>1 DEF PutAll
  <2>5. Promised!Track(listed)
    BY <1>1, <1>3, <2>4 DEF Promised!Track, Adopt, card
  <2> QED BY <2>3, <2>5 DEF Promised!Next
<1> QED BY <1>2, <1>3 DEF Sweep

LEMMA ArriveStep ==
  ASSUME Known, OneLoadAtATime', Arrive
  PROVE  UNCHANGED Promised!promise
<1>1. UNCHANGED <<held, oob>> /\ lastUsed' = lastUsed
  BY DEF Arrive, EnsureReady, UnloadModel, card
<1>2. Loading' = Loading
  BY ArriveHarmless, LoadingKept DEF Known
<1> QED BY <1>1, <1>2, Silent

LEMMA PromiseStep ==
  ASSUME Known, TypeOK', OneLoadAtATime', Behaving, Undisturbed, [Next]_vars
  PROVE  Promised!Next \/ UNCHANGED Promised!promise
<1>1. ASSUME NEW t \in Task, Advance(t)
      PROVE  Promised!Next \/ UNCHANGED Promised!promise
  <2>1. ~ RoomMade(t) /\ ~ LoadAnswerLost(t) /\ ~ ProbeFails(t)
    BY DEF RoomMade, LoadAnswerLost, ProbeFails, Behaving, Known, Honest
  <2> QED BY <1>1, <2>1, QuietSteps, TouchStep, LeavingSteps, BeginStep, StopStep,
             TakeStep, EndStep DEF Advance
<1>2. CASE Box \/ UNCHANGED vars
  <2>1. UNCHANGED <<pc, work, held, oob, lastUsed>>
    BY <1>2 DEF Box, Tick, OobMoves, EngineDrops, DirectLoad, Behaving, vars, card
  <2>2. Loading' = Loading
    BY <2>1 DEF Loading, InFlight
  <2> QED BY <2>1, <2>2, Silent
<1> QED BY <1>1, <1>2, SweepStep, ArriveStep DEF Next

\* Models come onto the card one at a time, each under the line, none over itself,
\* and each is tracked from then on; and they leave it only if they are tracked:
\* the orchestrator keeps the promise, on a box that behaves but for loads and
\* unloads that fail, with estimates that cover what Ollama's models need.
THEOREM KeepsPromiseAlways ==
  ASSUME Behaving, Undisturbed
  PROVE  Spec => KeepsPromise
<1> DEFINE Figured == \A t \in Task : Lined(t) /\ Honest(t)
<1>1. Spec => []TypeOK /\ []Lock /\ []OneLoadAtATime /\ []Adopted
  BY TypeInvariant, LockInvariant, OneLoadAtATimeAlways, AdoptedAlways, PTL
<1>2. (Spec => []NeverLosesTrack) /\ (Spec => []NoDoubleLoad)
  BY NeverLosesTrackAlways, NoDoubleLoadAlways DEF Behaving
<1>3. Spec => []Carded
  <2>1. TypeOK /\ Lock /\ Carded /\ [Next]_vars => Carded'
    BY CardedStep
  <2> QED BY <1>1, <2>1, CardedInit, PTL DEF Spec
<1>4. Spec => []Figured
  <2>1. (Learnt /\ \A t \in Task : Lined(t)) /\ (\A t \in Task : Honest(t)) => Figured
    OBVIOUS
  <2> QED BY <2>1, LinedAlways, HonestAlways, PTL
<1>5. TypeOK /\ Lock /\ OneLoadAtATime /\ Adopted /\ NeverLosesTrack /\ NoDoubleLoad
        /\ Carded /\ Figured => Known
  BY DEF Known
<1>6. Known /\ TypeOK' /\ OneLoadAtATime' /\ [Next]_vars
        => [Promised!Next]_(Promised!promise)
  BY PromiseStep
<1> HIDE DEF Figured
<1> QED BY <1>1, <1>2, <1>3, <1>4, <1>5, <1>6, PromiseInit, PTL
        DEF Spec, KeepsPromise, Promised!Spec

(***************************************************************************)
(* The sweep in the order of the dictionary.                               *)
(***************************************************************************)
\* What stop_idle does in the order of its list is something the orchestrator does,
\* so that what is proved of the orchestrator is proved of it too.
THEOREM OrderedSweepIsASweep == OrderedSpec => Spec
<1>1. OrderedInit => Init
  BY DEF OrderedInit
<1>2. [OrderedNext]_sweepVars => [Next]_vars
  BY DEF OrderedNext, sweepVars
<1> QED BY <1>1, <1>2, PTL DEF OrderedSpec, Spec

=============================================================================
