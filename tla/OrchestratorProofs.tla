------------------------- MODULE OrchestratorProofs -------------------------
(***************************************************************************)
(* Theorems about the orchestrator, for every set of models, engines and   *)
(* clients, every size of card, and every value of the settings.           *)
(***************************************************************************)
EXTENDS Orchestrator, VramProofs, SequenceTheorems

(***************************************************************************)
(* Dictionaries keep their type.                                           *)
(***************************************************************************)
\* A touch or an adoption keeps a dictionary of times one.
LEMMA StampsPutAll ==
  ASSUME NEW d \in Stamps, NEW S \in SUBSET Models, NEW n \in 0 .. MaxTime
  PROVE  PutAll(d, S, n) \in Stamps
<1>1. PICK D \in SUBSET Models : d \in [D -> 0 .. MaxTime]
  BY DEF Stamps
<1>2. PutAll(d, S, n) \in [D \cup S -> 0 .. MaxTime]
  BY <1>1 DEF PutAll
<1>3. D \cup S \in SUBSET Models
  OBVIOUS
<1> QED BY <1>2, <1>3 DEF Stamps

LEMMA StampsPut ==
  ASSUME NEW d \in Stamps, NEW m \in Models, NEW n \in 0 .. MaxTime
  PROVE  Put(d, m, n) \in Stamps
BY StampsPutAll DEF Put

\* So does dropping some of its entries.
LEMMA StampsRestrict ==
  ASSUME NEW d \in Stamps, NEW E \in SUBSET DOMAIN d
  PROVE  Restrict(d, E) \in Stamps
<1>1. PICK D \in SUBSET Models : d \in [D -> 0 .. MaxTime]
  BY DEF Stamps
<1>2. Restrict(d, E) \in [E -> 0 .. MaxTime] /\ E \in SUBSET Models
  BY <1>1 DEF Restrict
<1> QED BY <1>2 DEF Stamps

LEMMA StampsWithout ==
  ASSUME NEW d \in Stamps, NEW k
  PROVE  Without(d, k) \in Stamps
BY StampsRestrict DEF Without

LEMMA EmptyIsStamps == Empty \in Stamps
<1>1. Empty \in [{} -> 0 .. MaxTime]
  BY DEF Empty
<1> QED BY <1>1 DEF Stamps

LEMMA EmptyIsByteCount == IsByteCount(Empty)
<1>1. Empty \in [{} -> Nat]
  BY DEF Empty
<1> QED BY <1>1 DEF IsByteCount

\* What an engine takes, or a learned figure, is added to a count of bytes.
LEMMA ByteCountPut ==
  ASSUME NEW f, IsByteCount(f), NEW m \in Models, NEW n \in Nat
  PROVE  IsByteCount(Put(f, m, n))
<1>1. PICK D \in SUBSET Models : f \in [D -> Nat]
  BY DEF IsByteCount
<1>2. Put(f, m, n) \in [D \cup {m} -> Nat]
  BY <1>1 DEF Put, PutAll
<1>3. D \cup {m} \in SUBSET Models
  OBVIOUS
<1> QED BY <1>2, <1>3 DEF IsByteCount

LEMMA ByteCountRestrict ==
  ASSUME NEW f, IsByteCount(f), NEW E \in SUBSET DOMAIN f
  PROVE  IsByteCount(Restrict(f, E))
<1>1. PICK D \in SUBSET Models : f \in [D -> Nat]
  BY DEF IsByteCount
<1>2. Restrict(f, E) \in [E -> Nat] /\ E \in SUBSET Models
  BY <1>1 DEF Restrict
<1> QED BY <1>2 DEF IsByteCount

(***************************************************************************)
(* The free figure.                                                        *)
(***************************************************************************)
\* The sum of a count of bytes is a number.
LEMMA ByteCountSum ==
  ASSUME NEW f, IsByteCount(f)
  PROVE  Bytes(f) \in Nat
<1>1. PICK D \in SUBSET Models : f \in [D -> Nat]
  BY DEF IsByteCount
<1>2. IsFiniteSet(D)
  BY OrchestratorAssumption, FS_Subset
<1> QED BY <1>1, <1>2, BytesType

\* What is free is a number, possibly negative as far as this lemma goes.
LEMMA FreeType ==
  ASSUME NEW f, IsByteCount(f), NEW o \in OobLevels
  PROVE  Free(f, o) \in Int
<1>1. o \in Nat
  BY OrchestratorAssumption
<1> QED BY <1>1, ByteCountSum, VramAssumption DEF Free

\* An engine that lets go of models frees memory.
LEMMA FreeRestrict ==
  ASSUME NEW f, IsByteCount(f), NEW o \in OobLevels, NEW E \in SUBSET DOMAIN f
  PROVE  Free(Restrict(f, E), o) >= Free(f, o)
<1>1. PICK D \in SUBSET Models : f \in [D -> Nat]
  BY DEF IsByteCount
<1>2. IsFiniteSet(D) /\ E \in SUBSET D
  BY <1>1, OrchestratorAssumption, FS_Subset
<1>3. Bytes(Restrict(f, E)) \in Nat /\ Bytes(Restrict(f, E)) <= Bytes(f)
  BY <1>1, <1>2, BytesRestrict
<1>4. Bytes(f) \in Nat /\ o \in Nat
  BY ByteCountSum, OrchestratorAssumption
<1> QED BY <1>3, <1>4, VramAssumption DEF Free

\* An engine that takes n bytes for a model takes them from what is free.
LEMMA FreePut ==
  ASSUME NEW f, IsByteCount(f), NEW o \in OobLevels, NEW m \in Models,
         m \notin DOMAIN f, NEW n \in Nat
  PROVE  Free(Put(f, m, n), o) = Free(f, o) - n
<1>1. PICK D \in SUBSET Models : f \in [D -> Nat]
  BY DEF IsByteCount
<1>2. IsFiniteSet(D) /\ m \notin D
  BY <1>1, OrchestratorAssumption, FS_Subset
<1>3. /\ Put(f, m, n) \in [D \cup {m} -> Nat]
      /\ Put(f, m, n)[m] = n
      /\ \A x \in D : Put(f, m, n)[x] = f[x]
  BY <1>1, <1>2 DEF Put, PutAll
<1>4. Bytes(Put(f, m, n)) = Bytes(f) + n
  BY <1>1, <1>2, <1>3, BytesAdd
<1>5. Bytes(f) \in Nat /\ o \in Nat
  BY ByteCountSum, OrchestratorAssumption
<1> QED BY <1>4, <1>5, VramAssumption DEF Free

\* A model that is resident keeps its bytes if it is loaded again.
LEMMA PutSame ==
  ASSUME NEW f, IsByteCount(f), NEW m \in DOMAIN f
  PROVE  Put(f, m, f[m]) = f
<1>1. PICK D \in SUBSET Models : f \in [D -> Nat]
  BY DEF IsByteCount
<1>2. Put(f, m, f[m]) \in [D -> Nat] /\ \A x \in D : Put(f, m, f[m])[x] = f[x]
  BY <1>1 DEF Put, PutAll
<1> QED BY <1>1, <1>2

(***************************************************************************)
(* The mutex.  Lock is inductive on its own: the queue holds exactly the   *)
(* tasks that are at the door or inside, each once, and a task inside is   *)
(* at its head.                                                            *)
(***************************************************************************)
Queueing == AtDoor \cup Inside

Queued(t) == \E i \in 1 .. Len(mutex) : mutex[i] = t

LockTypeOK == pc \in [Task -> Points] /\ mutex \in Seq(Task)

Lock ==
  /\ LockTypeOK
  /\ \A t \in Task : pc[t] \in Queueing <=> Queued(t)
  /\ \A i, j \in 1 .. Len(mutex) : mutex[i] = mutex[j] => i = j
  /\ \A t \in Task : pc[t] \in Inside => HasMutex(t)

\* A move that neither asks for the mutex nor gives it up.
LEMMA LockMove ==
  ASSUME Lock, NEW t \in Task, NEW p \in Points, GoTo(t, p), mutex' = mutex,
         pc[t] \in Queueing <=> p \in Queueing, p \in Inside => HasMutex(t)
  PROVE  Lock'
<1>1. /\ pc \in [Task -> Points] /\ mutex \in Seq(Task)
      /\ \A u \in Task : pc[u] \in Queueing <=> Queued(u)
      /\ \A i, j \in 1 .. Len(mutex) : mutex[i] = mutex[j] => i = j
      /\ \A u \in Task : pc[u] \in Inside => HasMutex(u)
  BY DEF Lock, LockTypeOK
<1>2. pc' \in [Task -> Points] /\ pc'[t] = p /\ \A u \in Task \ {t} : pc'[u] = pc[u]
  BY <1>1 DEF GoTo
<1>3. \A u \in Task : (Queued(u)' <=> Queued(u)) /\ (HasMutex(u)' <=> HasMutex(u))
  BY DEF Queued, HasMutex
<1> QED BY <1>1, <1>2, <1>3 DEF Lock, LockTypeOK

\* A task that asks for the mutex goes to the end of the queue.
LEMMA LockJoin ==
  ASSUME Lock, NEW t \in Task, NEW p \in AtDoor, Enqueue(t, p), pc[t] \notin Queueing
  PROVE  Lock'
<1>1. /\ pc \in [Task -> Points] /\ mutex \in Seq(Task)
      /\ \A u \in Task : pc[u] \in Queueing <=> Queued(u)
      /\ \A i, j \in 1 .. Len(mutex) : mutex[i] = mutex[j] => i = j
      /\ \A u \in Task : pc[u] \in Inside => HasMutex(u)
  BY DEF Lock, LockTypeOK
<1>2. /\ pc' \in [Task -> Points] /\ pc'[t] = p
      /\ \A u \in Task \ {t} : pc'[u] = pc[u]
      /\ p \in Queueing /\ p \notin Inside
  BY <1>1 DEF Enqueue, GoTo, AtDoor, Inside, Points, Queueing
<1>3. /\ mutex' \in Seq(Task) /\ Len(mutex') = Len(mutex) + 1
      /\ \A i \in 1 .. Len(mutex) : mutex'[i] = mutex[i]
      /\ mutex'[Len(mutex) + 1] = t
  BY <1>1 DEF Enqueue
<1>4. Len(mutex) \in Nat
  BY <1>1
<1>5. ~ Queued(t)
  BY <1>1
<1>6. \A u \in Task : Queued(u)' <=> (Queued(u) \/ u = t)
  BY <1>3, <1>4 DEF Queued
<1>7. \A i, j \in 1 .. Len(mutex') : mutex'[i] = mutex'[j] => i = j
  BY <1>1, <1>3, <1>4, <1>5 DEF Queued
<1>8. \A u \in Task : HasMutex(u) => HasMutex(u)'
  BY <1>1, <1>3, <1>4 DEF HasMutex
<1>9. \A u \in Task : pc'[u] \in Queueing <=> Queued(u)'
  BY <1>1, <1>2, <1>6
<1>10. \A u \in Task : pc'[u] \in Inside => HasMutex(u)'
  BY <1>1, <1>2, <1>8
<1> QED BY <1>2, <1>3, <1>7, <1>9, <1>10 DEF Lock, LockTypeOK

\* The holder leaves, by a return or by an exception: the next waiter has it.
LEMMA LockLeave ==
  ASSUME Lock, NEW t \in Task, HasMutex(t), NEW p \in Points \ Queueing,
         GoTo(t, p), Release
  PROVE  Lock'
<1>1. /\ pc \in [Task -> Points] /\ mutex \in Seq(Task)
      /\ \A u \in Task : pc[u] \in Queueing <=> Queued(u)
      /\ \A i, j \in 1 .. Len(mutex) : mutex[i] = mutex[j] => i = j
      /\ \A u \in Task : pc[u] \in Inside => HasMutex(u)
  BY DEF Lock, LockTypeOK
<1>2. /\ pc' \in [Task -> Points] /\ pc'[t] = p
      /\ \A u \in Task \ {t} : pc'[u] = pc[u]
  BY <1>1 DEF GoTo
<1>3. Len(mutex) \in Nat \ {0} /\ mutex[1] = t
  BY <1>1 DEF HasMutex
<1>4. /\ mutex' \in Seq(Task) /\ Len(mutex') = Len(mutex) - 1
      /\ \A i \in 1 .. Len(mutex) - 1 : mutex'[i] = mutex[i + 1]
  BY <1>1, <1>3 DEF Release
<1>5. \A i, j \in 1 .. Len(mutex') : mutex'[i] = mutex'[j] => i = j
  BY <1>1, <1>3, <1>4
<1>6. \A u \in Task : Queued(u)' <=> (Queued(u) /\ u # t)
  <2> TAKE u \in Task
  <2>1. Queued(u)' => Queued(u) /\ u # t
    <3> SUFFICES ASSUME NEW i \in 1 .. Len(mutex'), mutex'[i] = u
                 PROVE  Queued(u) /\ u # t
      BY DEF Queued
    <3>1. i + 1 \in 1 .. Len(mutex) /\ 1 \in 1 .. Len(mutex) /\ i + 1 # 1
      BY <1>3, <1>4
    <3>2. mutex[i + 1] = u
      BY <1>3, <1>4
    <3> QED BY <1>1, <1>3, <3>1, <3>2 DEF Queued
  <2>2. Queued(u) /\ u # t => Queued(u)'
    <3> SUFFICES ASSUME NEW i \in 1 .. Len(mutex), mutex[i] = u, u # t
                 PROVE  Queued(u)'
      BY DEF Queued
    <3>1. i # 1 /\ i - 1 \in 1 .. Len(mutex')
      BY <1>3, <1>4
    <3>2. mutex'[i - 1] = u
      BY <1>3, <1>4, <3>1
    <3> QED BY <3>1, <3>2 DEF Queued
  <2> QED BY <2>1, <2>2
<1>7. \A u \in Task : pc'[u] \in Queueing <=> Queued(u)'
  BY <1>1, <1>2, <1>6
<1>8. \A u \in Task : pc'[u] \notin Inside
  BY <1>1, <1>2, <1>3 DEF HasMutex, Queueing
<1> QED BY <1>2, <1>4, <1>5, <1>7, <1>8 DEF Lock, LockTypeOK

\* Every action is one of these three moves, or leaves pc and mutex alone.
LEMMA LockStep == Lock /\ [Next]_vars => Lock'
<1> SUFFICES ASSUME Lock, [Next]_vars PROVE Lock'
  OBVIOUS
<1> USE DEF Queueing, AtDoor, Inside, Points, Answers
<1>1. ASSUME pc' = pc, mutex' = mutex PROVE Lock'
  BY <1>1 DEF Lock, LockTypeOK, Queued, HasMutex
<1>2. \A t \in Task : pc[t] \in Inside => HasMutex(t)
  BY DEF Lock
<1>3. Sweeper \in Task /\ Clients \subseteq Task
  BY DEF Task
<1>4. ASSUME NEW t \in Task, Advance(t) PROVE Lock'
  <2>1. CASE FastYes(t)
    BY <2>1, LockMove DEF FastYes
  <2>2. CASE FastHit(t)
    BY <2>2, LockMove DEF FastHit
  <2>3. CASE FastMiss(t)
    BY <2>3, LockJoin DEF FastMiss
  <2>4. CASE FastError(t)
    BY <2>4, LockMove DEF FastError
  <2>5. CASE RecheckYes(t)
    BY <2>5, LockLeave DEF RecheckYes, Leave
  <2>6. CASE RecheckError(t)
    BY <2>6, LockLeave DEF RecheckError, Leave
  <2>7. CASE Measure(t)
    BY <2>7, LockMove DEF Measure, Budgeted
  <2>8. CASE \E e \in Engines : AskReserve(t, e)
    BY <2>8, <1>2, LockMove DEF AskReserve
  <2>9. CASE Decide(t)
    BY <2>9, <1>2, LockMove DEF Decide
  <2>10. CASE EvictMeasure(t)
    BY <2>10, <1>2, LockMove DEF EvictMeasure, Budgeted
  <2>11. CASE EvictNext(t)
    BY <2>11, <1>2, LockMove DEF EvictNext
  <2>12. CASE VictimGone(t)
    BY <2>12, <1>2, LockMove DEF VictimGone
  <2>13. CASE VictimUp(t)
    BY <2>13, <1>2, LockMove DEF VictimUp
  <2>14. CASE EvictUnload(t)
    BY <2>14, <1>2, LockMove DEF EvictUnload
  <2>15. CASE EvictFails(t)
    BY <2>15, <1>2, LockLeave DEF EvictFails, Leave
  <2>16. CASE EvictDone(t)
    BY <2>16, <1>2, LockMove DEF EvictDone
  <2>17. CASE AdmitLoad(t)
    BY <2>17, <1>2, LockMove DEF AdmitLoad
  <2>18. CASE AdmitRoom(t)
    BY <2>18, <1>2, LockMove DEF AdmitRoom
  <2>19. CASE AdmitRefuse(t)
    BY <2>19, <1>2, LockMove DEF AdmitRefuse
  <2>20. CASE RoomMade(t)
    BY <2>20, <1>2, LockMove DEF RoomMade
  <2>21. CASE Refuse(t)
    BY <2>21, <1>2, LockLeave DEF Refuse, Leave
  <2>22. CASE StopOccupant(t)
    BY <2>22, <1>1 DEF StopOccupant
  <2>23. CASE EngineLoads(t)
    BY <2>23, <1>2, LockMove DEF EngineLoads
  <2>24. CASE LoadFails(t)
    BY <2>24, <1>2, LockLeave DEF LoadFails, Leave
  <2>25. CASE LoadAnswerLost(t)
    BY <2>25, <1>2, LockLeave DEF LoadAnswerLost, Leave
  <2>26. CASE LoadReturns(t)
    BY <2>26, <1>2, LockLeave DEF LoadReturns, Leave
  <2>27. CASE ProbeFails(t)
    BY <2>27, <1>2, LockLeave DEF ProbeFails, Leave
  <2>28. CASE CheckNo(t)
    BY <2>28, LockLeave DEF CheckNo, Unloaded
  <2>29. CASE CheckYes(t)
    BY <2>29, LockMove DEF CheckYes
  <2>30. CASE Unload(t)
    BY <2>30, <1>2, LockLeave DEF Unload, Unloaded
  <2>31. CASE UnloadFails(t)
    BY <2>31, <1>2, LockLeave DEF UnloadFails, Leave
  <2>32. CASE Respond(t)
    BY <2>32, LockMove DEF Respond
  <2> QED
    BY <1>4, <2>1, <2>2, <2>3, <2>4, <2>5, <2>6, <2>7, <2>8, <2>9, <2>10, <2>11,
       <2>12, <2>13, <2>14, <2>15, <2>16, <2>17, <2>18, <2>19, <2>20, <2>21, <2>22,
       <2>23, <2>24, <2>25, <2>26, <2>27, <2>28, <2>29, <2>30, <2>31, <2>32
    DEF Advance
<1>5. ASSUME Sweep PROVE Lock'
  <2>1. CASE StartSweep
    BY <2>1, <1>3, LockMove DEF StartSweep
  <2>2. CASE SweepNext
    BY <2>2, <1>3, LockJoin DEF SweepNext
  <2>3. CASE EndSweep
    BY <2>3, <1>3, LockMove DEF EndSweep
  <2>4. CASE \E e \in Engines : Adopt(e)
    BY <2>4, <1>3, LockMove DEF Adopt
  <2> QED BY <1>5, <2>1, <2>2, <2>3, <2>4 DEF Sweep
<1>6. ASSUME Arrive PROVE Lock'
  <2>1. ASSUME NEW t \in Clients, NEW m \in Models, EnsureReady(t, m) PROVE Lock'
    BY <2>1, <1>3, LockMove DEF EnsureReady
  <2>2. ASSUME NEW t \in Clients, NEW m \in Models, UnloadModel(t, m) PROVE Lock'
    BY <2>2, <1>3, LockJoin DEF UnloadModel
  <2> QED BY <1>6, <2>1, <2>2 DEF Arrive
<1>7. CASE Box
  BY <1>7, <1>1 DEF Box, Tick, OobMoves, EngineDrops, DirectLoad
<1>8. CASE UNCHANGED vars
  BY <1>8, <1>1 DEF vars
<1> QED BY <1>4, <1>5, <1>6, <1>7, <1>8 DEF Next

LEMMA LockInit == Init => Lock
<1> SUFFICES ASSUME Init PROVE Lock
  OBVIOUS
<1>1. mutex \in Seq(Task) /\ Len(mutex) = 0
  BY DEF Init, FreshPc, FreshWork, Found
<1>2. \A t \in Task : pc[t] \in {"idle", "adopt"}
  BY DEF Init, FreshPc, FreshWork, Found
<1>3. pc \in [Task -> Points]
  BY DEF Init, FreshPc, FreshWork, Found, Points
<1> QED BY <1>1, <1>2, <1>3
        DEF Lock, LockTypeOK, Queued, Queueing, AtDoor, Inside

\* The mutex and its queue are always consistent with where the tasks are.
THEOREM LockInvariant == Spec => []Lock
BY LockInit, LockStep, PTL DEF Spec

LEMMA LockExcludes == Lock => OneLoadAtATime
BY DEF Lock, HasMutex, OneLoadAtATime

\* At most one task is between its measurement and the answer of its engine:
\* "only one load is ever in flight", whatever fails on the way.
THEOREM OneLoadAtATimeAlways == Spec => []OneLoadAtATime
BY LockInvariant, LockExcludes, PTL

(***************************************************************************)
(* Types.  TypeOK in three parts, each with what keeps it.                 *)
(***************************************************************************)
WorkOK ==
  /\ work \in [Task -> LocalsType]
  /\ \A t \in Task : pc[t] \in Asking => work[t].model \in Models

BooksOK == lastUsed \in Stamps /\ now \in 0 .. MaxTime /\ IsByteCount(learned)

CardOK == IsByteCount(held) /\ oob \in OobLevels /\ FreeNow >= 0

\* With the typing of the mutex, the parts are the whole.
LEMMA TypeParts == TypeOK <=> LockTypeOK /\ WorkOK /\ BooksOK /\ CardOK
BY DEF TypeOK, LockTypeOK, WorkOK, BooksOK, CardOK

LEMMA WorkSame ==
  ASSUME WorkOK, pc' = pc, work' = work
  PROVE  WorkOK'
BY DEF WorkOK

LEMMA WorkMove ==
  ASSUME WorkOK, LockTypeOK, NEW t \in Task, NEW p, GoTo(t, p), work' = work,
         p \in Asking => pc[t] \in Asking
  PROVE  WorkOK'
BY DEF WorkOK, LockTypeOK, GoTo

LEMMA WorkSet ==
  ASSUME WorkOK, LockTypeOK, NEW t \in Task, NEW p, GoTo(t, p),
         NEW w \in LocalsType, work' = [work EXCEPT ![t] = w],
         p \in Asking => w.model \in Models
  PROVE  WorkOK'
BY DEF WorkOK, LockTypeOK, GoTo

LEMMA LocalsTyped ==
  ASSUME NEW m \in Models \cup {None}
  PROVE  Locals(m) \in LocalsType
BY EmptyIsStamps DEF Locals, LocalsType

\* A call that leaves the critical section keeps its model and drops the rest.
LEMMA WorkLeave ==
  ASSUME WorkOK, LockTypeOK, NEW t \in Task, NEW p, p \notin Asking, Leave(t, p)
  PROVE  WorkOK'
<1>1. work[t].model \in Models \cup {None}
  BY DEF WorkOK, LocalsType
<1>2. Locals(work[t].model) \in LocalsType
  BY <1>1, LocalsTyped
<1>3. work' = [work EXCEPT ![t] = Locals(work[t].model)]
  BY DEF Leave
<1> QED BY <1>2, <1>3, WorkSet DEF Leave

LEMMA WorkReset ==
  ASSUME WorkOK, LockTypeOK, NEW t \in Task, NEW p, p \notin Asking, GoTo(t, p),
         work' = [work EXCEPT ![t] = Locals(None)]
  PROVE  WorkOK'
BY LocalsTyped, WorkSet

LEMMA BooksSame ==
  ASSUME BooksOK, UNCHANGED <<lastUsed, now, learned>>
  PROVE  BooksOK'
BY DEF BooksOK

LEMMA BooksTouch ==
  ASSUME BooksOK, NEW m \in Models, Touch(m), UNCHANGED <<now, learned>>
  PROVE  BooksOK'
BY StampsPut DEF BooksOK, Touch

LEMMA BooksForget ==
  ASSUME BooksOK, NEW m, Forget(m), UNCHANGED <<now, learned>>
  PROVE  BooksOK'
BY StampsWithout DEF BooksOK, Forget

LEMMA CardSame ==
  ASSUME CardOK, UNCHANGED card
  PROVE  CardOK'
BY DEF CardOK, card, FreeNow

\* Engines that let go of models leave a card that is no fuller.
LEMMA CardRestrict ==
  ASSUME CardOK, NEW E \in SUBSET DOMAIN held, held' = Restrict(held, E), oob' = oob
  PROVE  CardOK'
<1>1. IsByteCount(held')
  BY ByteCountRestrict DEF CardOK
<1>2. FreeNow' >= FreeNow /\ FreeNow \in Int /\ FreeNow' \in Int
  BY <1>1, FreeRestrict, FreeType DEF CardOK, FreeNow
<1> QED BY <1>1, <1>2 DEF CardOK

LEMMA CardWithout ==
  ASSUME CardOK, NEW m, held' = Without(held, m), oob' = oob
  PROVE  CardOK'
BY CardRestrict DEF Without

\* A model that takes no more than is free leaves a card that is not overfull.
LEMMA CardPut ==
  ASSUME CardOK, NEW m \in Models, NEW n \in Nat, n <= FreeNow, m \notin DOMAIN held,
         held' = Put(held, m, n), oob' = oob
  PROVE  CardOK'
<1>1. IsByteCount(held')
  BY ByteCountPut DEF CardOK
<1>2. FreeNow \in Int /\ FreeNow' = FreeNow - n
  BY FreeType, FreePut DEF CardOK, FreeNow
<1> QED BY <1>1, <1>2 DEF CardOK

\* The bytes of a load are a number.
LEMMA FootprintType ==
  ASSUME CardOK, NEW m \in Models, NEW g \in Nat
  PROVE  Footprint(m, g) \in Nat
<1>1. FreeNow \in Nat
  BY FreeType DEF CardOK, FreeNow
<1>2. Size[m] \in Nat
  BY OrchestratorAssumption
<1> QED BY <1>1, <1>2, GrantedType DEF Footprint, LesserOf

LEMMA CardAllocate ==
  ASSUME CardOK, WorkOK, NEW t \in Task, pc[t] \in Asking, Allocate(t), oob' = oob
  PROVE  CardOK'
<1> DEFINE m == work[t].model
<1> DEFINE n == Footprint(m, Handed(work[t]))
<1>1. m \in Models /\ Handed(work[t]) \in Nat
  BY DEF WorkOK, LocalsType, Handed, LesserOf
<1>2. n \in Nat /\ n <= FreeNow
  BY <1>1, FootprintType DEF Allocate
<1>3. CASE m \in DOMAIN held
  <2>1. held' = Put(held, m, held[m])
    BY <1>3 DEF Allocate
  <2>2. held' = held
    BY <2>1, <1>3, PutSame DEF CardOK
  <2> QED BY <2>2, CardSame DEF card
<1>4. CASE m \notin DOMAIN held
  <2>1. held' = Put(held, m, n)
    BY <1>4 DEF Allocate
  <2> QED BY <2>1, <1>1, <1>2, <1>4, CardPut
<1> QED BY <1>3, <1>4

\* Estimates are numbers.
LEMMA EstimateType ==
  ASSUME BooksOK, NEW m \in Models
  PROVE  Estimate(m) \in Nat
<1>1. PICK D \in SUBSET Models : learned \in [D -> Nat]
  BY DEF BooksOK, IsByteCount
<1> QED BY <1>1, OrchestratorAssumption DEF Estimate

\* Every action keeps the three parts.
LEMMA TypeStep == TypeOK /\ [Next]_vars => WorkOK' /\ BooksOK' /\ CardOK'
<1> SUFFICES ASSUME TypeOK, [Next]_vars PROVE WorkOK' /\ BooksOK' /\ CardOK'
  OBVIOUS
<1> USE DEF Asking, AtDoor, Inside, Answers
<1>1. LockTypeOK /\ WorkOK /\ BooksOK /\ CardOK
  BY TypeParts
<1> USE <1>1
<1>2. \A t \in Task : Locals(work[t].model) \in LocalsType
                    /\ Locals(work[t].model).model = work[t].model
  BY <1>1, LocalsTyped DEF WorkOK, LocalsType, Locals
<1>3. \A t \in Task : pc[t] \in Asking => work[t].model \in Models
  BY <1>1 DEF WorkOK
<1>4. \A t \in Task : work[t] \in LocalsType
  BY <1>1 DEF WorkOK
<1>5. FreeNow \in Int /\ Budget(FreeNow) \in Nat
  BY <1>1, FreeType, BudgetType DEF CardOK, FreeNow
<1>6. ASSUME NEW t \in Task, NEW w \in LocalsType, w.model \in Models,
             NEW asking \in {"reserve", "evictReserve"}, NEW next,
             Budgeted(t, w, asking, next)
      PROVE  WorkOK'
  <2> DEFINE v == [w EXCEPT !.budget = Budget(FreeNow), !.slice = Reserve,
                            !.ask = IF Reserve = 0 THEN {} ELSE Engines]
  <2>1. Reserve \in Int /\ (IF Reserve = 0 THEN {} ELSE Engines) \in SUBSET Engines
    BY OrchestratorAssumption
  <2>2. v \in LocalsType /\ v.model \in Models
    <3> DEFINE b == Budget(FreeNow)
    <3> DEFINE a == IF Reserve = 0 THEN {} ELSE Engines
    <3>1. b \in Nat /\ a \in SUBSET Engines
      BY <1>5, <2>1
    <3> HIDE DEF b, a
    <3>2. [w EXCEPT !.budget = b, !.slice = Reserve, !.ask = a] \in LocalsType
      BY <1>6, <2>1, <3>1 DEF LocalsType
    <3>3. [w EXCEPT !.budget = b, !.slice = Reserve, !.ask = a].model = w.model
      BY <1>6 DEF LocalsType
    <3> QED BY <1>6, <3>2, <3>3 DEF b, a
  <2> QED BY <1>6, <2>2, WorkSet DEF Budgeted
<1>7. \A e \in Engines : \A listed \in Resident(e) : listed \in SUBSET Models
  BY <1>1 DEF Resident, InEngine, CardOK, IsByteCount
<1>8. Sweeper \in Task /\ Clients \subseteq Task
  BY DEF Task
<1>9. ASSUME NEW t \in Task, Advance(t) PROVE WorkOK' /\ BooksOK' /\ CardOK'
  <2>1. CASE FastYes(t)
    BY <2>1, <1>1, WorkMove, BooksSame, CardSame DEF FastYes
  <2>2. CASE FastHit(t)
    BY <2>2, <1>1, <1>3, WorkMove, BooksTouch, CardSame DEF FastHit
  <2>3. CASE FastMiss(t)
    BY <2>3, <1>1, WorkMove, BooksSame, CardSame DEF FastMiss, Enqueue
  <2>4. CASE FastError(t)
    BY <2>4, <1>1, WorkMove, BooksSame, CardSame DEF FastError
  <2>5. CASE RecheckYes(t)
    BY <2>5, <1>3, WorkLeave, BooksTouch, CardSame DEF RecheckYes
  <2>6. CASE RecheckError(t)
    <3>1. WorkOK'
      BY <2>6, WorkLeave DEF RecheckError
    <3> QED BY <2>6, <3>1, BooksSame, CardSame DEF RecheckError
  <2>7. CASE Measure(t)
    <3> DEFINE w == [work[t] EXCEPT !.free = FreeNow]
    <3>1. w \in LocalsType /\ w.model = work[t].model
      BY <1>4, <1>5 DEF LocalsType
    <3>2. WorkOK'
      BY <2>7, <1>3, <1>6, <3>1 DEF Measure
    <3> QED BY <2>7, <3>2, BooksSame, CardSame DEF Measure
  <2>8. CASE \E e \in Engines : AskReserve(t, e)
    <3> PICK e \in Engines : AskReserve(t, e)
      BY <2>8
    <3> DEFINE left == work[t].ask \ {e}
    <3>1. PICK listed \in Resident(e) :
            LET slice == work[t].slice - Bytes([m \in listed |-> Estimate(m)])
            IN  work' = [work EXCEPT ![t].ask = left, ![t].slice = slice,
                          ![t].budget = IF left = {} THEN GreaterOf(@, slice) ELSE @]
      BY DEF AskReserve
    <3> DEFINE slice == work[t].slice - Bytes([m \in listed |-> Estimate(m)])
    <3> DEFINE b == IF left = {} THEN GreaterOf(work[t].budget, slice) ELSE work[t].budget
    <3> DEFINE w == [work[t] EXCEPT !.ask = left, !.slice = slice, !.budget = b]
    <3>2. listed \in SUBSET Models
      BY <1>7
    <3>3. Bytes([m \in listed |-> Estimate(m)]) \in Nat
      BY <3>2, EstimateType, BytesType, OrchestratorAssumption, FS_Subset
    <3>4. slice \in Int /\ b \in Nat
      BY <1>4, <3>3 DEF LocalsType, GreaterOf
    <3>5. w \in LocalsType /\ w.model = work[t].model
      BY <1>4, <3>4 DEF LocalsType
    <3>6. work' = [work EXCEPT ![t] = w]
      BY <3>1
    <3>7. w.model \in Models
      BY <3>5, <1>3 DEF AskReserve
    <3>8. WorkOK'
      BY <3>5, <3>6, <3>7, WorkSet DEF AskReserve
    <3> QED BY <3>8, BooksSame, CardSame DEF AskReserve
  <2>9. CASE Decide(t)
    <3> DEFINE m == work[t].model
    <3> DEFINE todo == IF Estimate(m) > work[t].budget /\ AutoEvict
                       THEN Without(lastUsed, m) ELSE Empty
    <3> DEFINE w == [work[t] EXCEPT !.needed = Estimate(m), !.todo = todo]
    <3>1. m \in Models
      BY <2>9, <1>3 DEF Decide
    <3>2. Estimate(m) \in Nat /\ todo \in Stamps
      BY <3>1, EstimateType, StampsWithout, EmptyIsStamps DEF BooksOK
    <3>3. w \in LocalsType /\ w.model \in Models
      BY <3>1, <3>2, <1>4 DEF LocalsType
    <3>4. work' = [work EXCEPT ![t] = w]
      BY <2>9 DEF Decide
    <3>5. WorkOK'
      BY <2>9, <3>3, <3>4, WorkSet DEF Decide
    <3> QED BY <2>9, <3>5, BooksSame, CardSame DEF Decide
  <2>10. CASE EvictMeasure(t)
    <3>1. WorkOK'
      BY <2>10, <1>3, <1>4, <1>6 DEF EvictMeasure
    <3> QED BY <2>10, <3>1, BooksSame, CardSame DEF EvictMeasure
  <2>11. CASE EvictNext(t)
    <3>1. PICK v \in Oldest(work[t].todo) :
            work' = [work EXCEPT ![t].victim = v, ![t].todo = Without(@, v)]
      BY <2>11 DEF EvictNext
    <3> DEFINE w == [work[t] EXCEPT !.victim = v, !.todo = Without(work[t].todo, v)]
    <3>2. work[t].todo \in Stamps
      BY <1>4 DEF LocalsType
    <3>3. v \in Models /\ Without(work[t].todo, v) \in Stamps
      BY <3>2, StampsWithout DEF Oldest, Stamps
    <3>4. w \in LocalsType /\ w.model = work[t].model
      BY <1>4, <3>3 DEF LocalsType
    <3>5. work' = [work EXCEPT ![t] = w]
      BY <3>1
    <3>6. WorkOK'
      BY <2>11, <1>3, <3>4, <3>5, WorkSet DEF EvictNext
    <3> QED BY <2>11, <3>6, BooksSame, CardSame DEF EvictNext
  <2>12. CASE VictimGone(t)
    BY <2>12, <1>1, WorkMove, BooksForget, CardSame DEF VictimGone
  <2>13. CASE VictimUp(t)
    BY <2>13, <1>1, WorkMove, BooksSame, CardSame DEF VictimUp
  <2>14. CASE EvictUnload(t)
    BY <2>14, <1>1, WorkMove, BooksForget, CardWithout DEF EvictUnload
  <2>15. CASE EvictFails(t)
    <3>1. WorkOK'
      BY <2>15, WorkLeave DEF EvictFails
    <3> QED BY <2>15, <3>1, BooksSame, CardSame DEF EvictFails
  <2>16. CASE EvictDone(t)
    <3> DEFINE w == [work[t] EXCEPT !.free = FreeNow, !.todo = Empty, !.victim = None]
    <3>1. w \in LocalsType /\ w.model = work[t].model
      BY <1>4, <1>5, EmptyIsStamps DEF LocalsType
    <3>2. work' = [work EXCEPT ![t] = w]
      BY <2>16 DEF EvictDone
    <3>3. WorkOK'
      BY <2>16, <1>3, <3>1, <3>2, WorkSet DEF EvictDone
    <3> QED BY <2>16, <3>3, BooksSame, CardSame DEF EvictDone
  <2>17. CASE AdmitLoad(t)
    BY <2>17, <1>1, WorkMove, BooksSame, CardSame DEF AdmitLoad
  <2>18. CASE AdmitRoom(t)
    BY <2>18, <1>1, WorkMove, BooksSame, CardSame DEF AdmitRoom
  <2>19. CASE AdmitRefuse(t)
    BY <2>19, <1>1, WorkMove, BooksSame, CardSame DEF AdmitRefuse
  <2>20. CASE RoomMade(t)
    <3>1. PICK level \in {l \in OobLevels : l <= oob}, failed \in BOOLEAN :
            /\ oob' = level
            /\ LET free == IF failed THEN work[t].free ELSE Free(held, level)
               IN  /\ work' = [work EXCEPT ![t].free = free]
                   /\ GoTo(t, IF work[t].needed > free THEN "refuse" ELSE "load")
      BY <2>20 DEF RoomMade, Paged
    <3> DEFINE free == IF failed THEN work[t].free ELSE Free(held, level)
    <3> DEFINE w == [work[t] EXCEPT !.free = free]
    <3>2. free \in Int
      BY <1>4, FreeType DEF LocalsType, CardOK
    <3>3. w \in LocalsType /\ w.model = work[t].model
      BY <1>4, <3>2 DEF LocalsType
    <3>4. work' = [work EXCEPT ![t] = w]
      BY <3>1
    <3>5. WorkOK'
      BY <2>20, <1>3, <3>1, <3>3, <3>4, WorkSet DEF RoomMade
    <3>6. held' = held
      BY <2>20 DEF RoomMade
    <3>7. oob' \in OobLevels /\ FreeNow' >= 0
      BY <3>1, <3>6, ByteCountSum, OrchestratorAssumption, VramAssumption
      DEF CardOK, FreeNow, Free
    <3>8. CardOK'
      BY <3>6, <3>7 DEF CardOK
    <3> QED BY <2>20, <3>5, <3>8, BooksSame DEF RoomMade
  <2>21. CASE Refuse(t)
    <3>1. WorkOK'
      BY <2>21, WorkLeave DEF Refuse
    <3> QED BY <2>21, <3>1, BooksSame, CardSame DEF Refuse
  <2>22. CASE StopOccupant(t)
    <3>1. CardOK'
      BY <2>22, CardRestrict DEF StopOccupant
    <3> QED BY <2>22, <3>1, WorkSame, BooksSame DEF StopOccupant
  <2>23. CASE EngineLoads(t)
    <3>1. CardOK'
      BY <2>23, <1>1, CardAllocate DEF EngineLoads
    <3> QED BY <2>23, <1>1, <3>1, WorkMove, BooksSame DEF EngineLoads
  <2>24. CASE LoadFails(t)
    <3>1. WorkOK'
      BY <2>24, WorkLeave DEF LoadFails
    <3> QED BY <2>24, <3>1, BooksSame, CardSame DEF LoadFails
  <2>25. CASE LoadAnswerLost(t)
    <3>1. CardOK'
      BY <2>25, <1>1, CardAllocate DEF LoadAnswerLost
    <3>2. WorkOK'
      BY <2>25, WorkLeave DEF LoadAnswerLost
    <3> QED BY <2>25, <3>1, <3>2, BooksSame DEF LoadAnswerLost
  <2>26. CASE LoadReturns(t)
    <3> DEFINE m == work[t].model
    <3> DEFINE measured == work[t].free - FreeNow
    <3>1. m \in Models /\ measured \in Int
      BY <2>26, <1>3, <1>4, <1>5 DEF LoadReturns, LocalsType
    <3>2. IsByteCount(learned')
      <4>1. CASE learned' = learned
        BY <4>1 DEF BooksOK
      <4>2. CASE learned' # learned
        <5>1. learned' = Put(learned, m, measured)
              /\ measured > (IF m \in DOMAIN learned THEN learned[m] ELSE 0)
          BY <2>26, <4>2 DEF LoadReturns, Observe
        <5>2. PICK D \in SUBSET Models : learned \in [D -> Nat]
          BY DEF BooksOK, IsByteCount
        <5>3. measured \in Nat
          BY <5>1, <5>2, <3>1
        <5> QED BY <5>1, <5>3, <3>1, ByteCountPut DEF BooksOK
      <4> QED BY <4>1, <4>2
    <3>3. BooksOK'
      BY <2>26, <3>1, <3>2, StampsPut DEF LoadReturns, Touch, BooksOK
    <3>4. WorkOK'
      BY <2>26, WorkLeave DEF LoadReturns
    <3> QED BY <2>26, <3>3, <3>4, CardSame DEF LoadReturns
  <2>27. CASE ProbeFails(t)
    <3>1. WorkOK'
      BY <2>27, WorkLeave DEF ProbeFails
    <3> QED BY <2>27, <3>1, BooksSame, CardSame DEF ProbeFails
  <2>28. CASE CheckNo(t)
    BY <2>28, <1>1, WorkMove, BooksForget, CardSame DEF CheckNo, Unloaded
  <2>29. CASE CheckYes(t)
    BY <2>29, <1>1, WorkMove, BooksSame, CardSame DEF CheckYes
  <2>30. CASE Unload(t)
    BY <2>30, <1>1, WorkMove, BooksForget, CardWithout DEF Unload, Unloaded
  <2>31. CASE UnloadFails(t)
    <3>1. WorkOK'
      BY <2>31, WorkLeave DEF UnloadFails
    <3> QED BY <2>31, <3>1, BooksSame, CardSame DEF UnloadFails
  <2>32. CASE Respond(t)
    <3>1. WorkOK'
      BY <2>32, WorkReset DEF Respond
    <3> QED BY <2>32, <3>1, BooksSame, CardSame DEF Respond
  <2> QED
    BY <1>9, <2>1, <2>2, <2>3, <2>4, <2>5, <2>6, <2>7, <2>8, <2>9, <2>10,
       <2>11, <2>12, <2>13, <2>14, <2>15, <2>16, <2>17, <2>18, <2>19, <2>20,
       <2>21, <2>22, <2>23, <2>24, <2>25, <2>26, <2>27, <2>28, <2>29, <2>30,
       <2>31, <2>32
    DEF Advance
<1>10. ASSUME Sweep PROVE WorkOK' /\ BooksOK' /\ CardOK'
  <2>1. CASE StartSweep
    <3> DEFINE w == [work[Sweeper] EXCEPT !.todo = Restrict(lastUsed, Expired)]
    <3>1. Restrict(lastUsed, Expired) \in Stamps
      BY <1>1, StampsRestrict DEF BooksOK, Expired, IsExpired
    <3>2. w \in LocalsType
      BY <1>4, <1>8, <3>1 DEF LocalsType
    <3>3. WorkOK'
      <4>1. work' = [work EXCEPT ![Sweeper] = w] /\ GoTo(Sweeper, "sweep")
        BY <2>1 DEF StartSweep
      <4>2. "sweep" \notin Asking
        OBVIOUS
      <4> HIDE DEF w
      <4> QED BY <1>8, <3>2, <4>1, <4>2, WorkSet
    <3> QED BY <2>1, <1>1, <3>3, BooksSame, CardSame DEF StartSweep
  <2>2. CASE SweepNext
    <3>1. PICK m \in DOMAIN work[Sweeper].todo :
            work' = [work EXCEPT ![Sweeper].model = m, ![Sweeper].todo = Without(@, m)]
      BY <2>2 DEF SweepNext
    <3> DEFINE w == [work[Sweeper] EXCEPT !.model = m,
                                          !.todo = Without(work[Sweeper].todo, m)]
    <3>2. work[Sweeper].todo \in Stamps
      BY <1>4, <1>8 DEF LocalsType
    <3>3. m \in Models /\ Without(work[Sweeper].todo, m) \in Stamps
      BY <3>2, StampsWithout DEF Stamps
    <3>4. w \in LocalsType /\ w.model = m
      BY <1>4, <1>8, <3>3 DEF LocalsType
    <3>5. work' = [work EXCEPT ![Sweeper] = w]
      BY <3>1
    <3>6. WorkOK'
      BY <2>2, <1>1, <1>8, <3>3, <3>4, <3>5, WorkSet DEF SweepNext, Enqueue
    <3> QED BY <2>2, <1>1, <3>6, BooksSame, CardSame DEF SweepNext
  <2>3. CASE EndSweep
    <3>1. WorkOK'
      BY <2>3, <1>8, WorkReset DEF EndSweep
    <3> QED BY <2>3, <3>1, BooksSame, CardSame DEF EndSweep
  <2>4. CASE \E e \in Engines : Adopt(e)
    <3> PICK e \in Engines : Adopt(e)
      BY <2>4
    <3> DEFINE w == [work[Sweeper] EXCEPT !.ask = work[Sweeper].ask \ {e}]
    <3>1. w \in LocalsType
      BY <1>4, <1>8 DEF LocalsType
    <3>2. work' = [work EXCEPT ![Sweeper] = w]
      BY DEF Adopt
    <3>3. WorkOK'
      <4>1. PICK p \in {"idle", "adopt"} : GoTo(Sweeper, p)
        BY DEF Adopt
      <4>2. p \notin Asking
        OBVIOUS
      <4> HIDE DEF w
      <4> QED BY <1>8, <3>1, <3>2, <4>1, <4>2, WorkSet
    <3>4. PICK listed \in Resident(e) : lastUsed' = PutAll(lastUsed, listed, now)
      BY DEF Adopt
    <3>5. BooksOK'
      BY <1>1, <1>7, <3>4, StampsPutAll DEF Adopt, BooksOK
    <3> QED BY <1>1, <3>3, <3>5, CardSame DEF Adopt
  <2> QED BY <1>10, <2>1, <2>2, <2>3, <2>4 DEF Sweep
<1>11. ASSUME Arrive PROVE WorkOK' /\ BooksOK' /\ CardOK'
  <2> PICK t \in Clients, m \in Models : EnsureReady(t, m) \/ UnloadModel(t, m)
    BY <1>11 DEF Arrive
  <2>1. Locals(m) \in LocalsType /\ Locals(m).model = m
    BY LocalsTyped DEF Locals
  <2>2. CASE EnsureReady(t, m)
    BY <2>1, <2>2, <1>1, <1>8, WorkSet, BooksSame, CardSame DEF EnsureReady
  <2>3. CASE UnloadModel(t, m)
    BY <2>1, <2>3, <1>1, <1>8, WorkSet, BooksSame, CardSame DEF UnloadModel, Enqueue
  <2> QED BY <2>2, <2>3
<1>12. ASSUME Box PROVE WorkOK' /\ BooksOK' /\ CardOK'
  <2>1. CASE Tick
    <3>1. BooksOK'
      BY <2>1, <1>1, OrchestratorAssumption DEF Tick, BooksOK
    <3> QED BY <2>1, <1>1, <3>1, WorkSame, CardSame DEF Tick
  <2>2. CASE OobMoves
    <3>1. CardOK'
      BY <2>2, <1>1 DEF OobMoves, CardOK, FreeNow
    <3> QED BY <2>2, <1>1, <3>1, WorkSame, BooksSame DEF OobMoves
  <2>3. CASE EngineDrops
    BY <2>3, <1>1, WorkSame, BooksSame, CardWithout DEF EngineDrops
  <2>4. CASE DirectLoad
    <3>1. PICK m \in Models \ DOMAIN held :
            ~ IsElastic(m) /\ held' = Put(held, m, Footprint(m, 0))
      BY <2>4 DEF DirectLoad
    <3>2. Footprint(m, 0) \in Nat
      BY <1>1, FootprintType
    <3>3. Footprint(m, 0) <= FreeNow
      BY <1>5, <3>1, OrchestratorAssumption DEF Footprint, LesserOf
    <3>4. CardOK'
      BY <2>4, <1>1, <3>1, <3>2, <3>3, CardPut DEF DirectLoad
    <3> QED BY <2>4, <1>1, <3>4, WorkSame, BooksSame DEF DirectLoad
  <2> QED BY <1>12, <2>1, <2>2, <2>3, <2>4 DEF Box
<1>13. CASE UNCHANGED vars
  BY <1>13, <1>1, WorkSame, BooksSame, CardSame DEF vars, card
<1> QED BY <1>9, <1>10, <1>11, <1>12, <1>13 DEF Next

LEMMA TypeInit == Init => TypeOK
<1> SUFFICES ASSUME Init PROVE TypeOK
  OBVIOUS
<1>1. LockTypeOK
  BY LockInit DEF Lock
<1>2. WorkOK
  <2>1. \A t \in Task : [Locals(None) EXCEPT !.ask = IF t = Sweeper THEN Engines ELSE {}]
                          \in LocalsType
    BY LocalsTyped DEF LocalsType
  <2> QED BY <2>1 DEF Init, FreshPc, FreshWork, Found, WorkOK, Asking, AtDoor, Inside
<1>3. BooksOK
  BY EmptyIsStamps, EmptyIsByteCount, OrchestratorAssumption DEF Init, FreshPc, FreshWork, Found, BooksOK
<1>4. CardOK
  <2>1. PICK S \in SUBSET Models :
          held = [m \in S |-> IF IsElastic(m) THEN Granted(Seed[m]) ELSE Size[m]]
    BY DEF Init, FreshPc, FreshWork, Found, Leftover
  <2>2. held \in [S -> Nat]
    BY <2>1, OrchestratorAssumption, GrantedType
  <2> QED BY <2>2 DEF Init, FreshPc, FreshWork, Found, CardOK, IsByteCount
<1> QED BY <1>1, <1>2, <1>3, <1>4, TypeParts

\* Every variable keeps its type, and the card is never overfull: what the
\* engines and the rest of the box hold never exceeds what there is.
THEOREM TypeInvariant == Spec => []TypeOK
<1>1. TypeOK /\ Lock /\ [Next]_vars => TypeOK'
  <2> SUFFICES ASSUME TypeOK, Lock, [Next]_vars PROVE TypeOK'
    OBVIOUS
  <2>1. LockTypeOK'
    BY LockStep DEF Lock
  <2>2. WorkOK' /\ BooksOK' /\ CardOK'
    BY TypeStep
  <2> QED BY <2>1, <2>2 DEF TypeOK, LockTypeOK, WorkOK, BooksOK, CardOK
<1> QED BY <1>1, TypeInit, LockInvariant, PTL DEF Spec

=============================================================================
