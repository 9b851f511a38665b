--------------------------- MODULE AdmissionProofs ---------------------------
(***************************************************************************)
(* What the mutex is worth: theorems about a load from its measurement to  *)
(* the start of its engine, and about the models it may evict.             *)
(***************************************************************************)
EXTENDS OrchestratorProofs

(***************************************************************************)
(* A step of one task seen by the others.                                  *)
(***************************************************************************)
\* While one task is inside, no other is, nor has the mutex.
LEMMA Exclusive ==
  ASSUME Lock, NEW t \in Task, pc[t] \in Inside, NEW u \in Task, u # t
  PROVE  pc[u] \notin Inside /\ ~ HasMutex(u)
BY DEF Lock, HasMutex

\* A task moves itself and nobody else.
LEMMA OnlyOwnMove ==
  ASSUME TypeOK, NEW u \in Task, Advance(u), NEW t \in Task, t # u
  PROVE  pc'[t] = pc[t] /\ work'[t] = work[t]
<1>1. pc \in [Task -> Points] /\ work \in [Task -> LocalsType]
  BY DEF TypeOK
<1>2. CASE FastYes(u) \/ FastHit(u) \/ FastMiss(u) \/ FastError(u) \/ Respond(u)
  BY <1>1, <1>2 DEF FastYes, FastHit, FastMiss, FastError, Respond, GoTo, Enqueue
<1>3. CASE RecheckYes(u) \/ RecheckError(u) \/ EvictFails(u) \/ Refuse(u) \/ LoadFails(u)
           \/ LoadAnswerLost(u) \/ LoadReturns(u) \/ ProbeFails(u) \/ UnloadFails(u)
  BY <1>1, <1>3 DEF RecheckYes, RecheckError, EvictFails, Refuse, LoadFails,
       LoadAnswerLost, LoadReturns, ProbeFails, UnloadFails, Leave, GoTo
<1>4. CASE Measure(u) \/ EvictMeasure(u)
  BY <1>1, <1>4 DEF Measure, EvictMeasure, Budgeted, GoTo
<1>5. CASE \E e \in Engines : AskReserve(u, e)
  BY <1>1, <1>5 DEF AskReserve, GoTo
<1>6. CASE Decide(u) \/ EvictNext(u) \/ EvictDone(u)
  BY <1>1, <1>6 DEF Decide, EvictNext, EvictDone, GoTo
<1>7. CASE VictimGone(u) \/ VictimUp(u) \/ EvictUnload(u)
  BY <1>1, <1>7 DEF VictimGone, VictimUp, EvictUnload, GoTo
<1>8. CASE AdmitLoad(u) \/ AdmitRoom(u) \/ AdmitRefuse(u) \/ StopOccupant(u) \/ EngineLoads(u)
  BY <1>1, <1>8 DEF AdmitLoad, AdmitRoom, AdmitRefuse, StopOccupant, EngineLoads, GoTo
<1>9. CASE RoomMade(u)
  BY <1>1, <1>9 DEF RoomMade, GoTo
<1>10. CASE CheckNo(u) \/ CheckYes(u) \/ Unload(u)
  BY <1>1, <1>10 DEF CheckNo, CheckYes, Unload, Unloaded, GoTo
<1> QED BY <1>2, <1>3, <1>4, <1>5, <1>6, <1>7, <1>8, <1>9, <1>10 DEF Advance

\* Without the mutex a task leaves the card alone and forgets no model.
Harmless == held' = held /\ oob' = oob /\ DOMAIN lastUsed \subseteq DOMAIN lastUsed'

LEMMA PutAllGrows ==
  ASSUME NEW d, NEW S, NEW v
  PROVE  DOMAIN d \subseteq DOMAIN PutAll(d, S, v)
BY DEF PutAll

LEMMA OutsideHarmless ==
  ASSUME NEW u \in Task, Advance(u), pc[u] \notin Inside, ~ HasMutex(u)
  PROVE  Harmless
<1> USE DEF Inside
<1>1. FastYes(u) \/ FastHit(u) \/ FastMiss(u) \/ FastError(u) \/ Respond(u)
  <2>1. ~ (RecheckYes(u) \/ RecheckError(u) \/ Measure(u) \/ CheckNo(u) \/ CheckYes(u))
    BY DEF RecheckYes, RecheckError, Measure, CheckNo, CheckYes
  <2>2. ~ (Decide(u) \/ EvictMeasure(u) \/ EvictNext(u) \/ VictimGone(u) \/ VictimUp(u)
            \/ EvictUnload(u) \/ EvictFails(u) \/ EvictDone(u)
            \/ \E e \in Engines : AskReserve(u, e))
    BY DEF Decide, EvictMeasure, EvictNext, VictimGone, VictimUp, EvictUnload,
           EvictFails, EvictDone, AskReserve
  <2>3. ~ (AdmitLoad(u) \/ AdmitRoom(u) \/ AdmitRefuse(u) \/ RoomMade(u) \/ Refuse(u)
            \/ StopOccupant(u) \/ EngineLoads(u) \/ LoadFails(u) \/ LoadAnswerLost(u)
            \/ LoadReturns(u) \/ ProbeFails(u) \/ Unload(u) \/ UnloadFails(u))
    BY DEF AdmitLoad, AdmitRoom, AdmitRefuse, RoomMade, Refuse, StopOccupant,
           EngineLoads, LoadFails, LoadAnswerLost, LoadReturns, ProbeFails, Unload,
           UnloadFails
  <2> QED BY <2>1, <2>2, <2>3 DEF Advance
<1> QED BY <1>1, PutAllGrows
        DEF FastYes, FastHit, FastMiss, FastError, Respond, Harmless, Touch, Put, card

\* While a task is inside, a step of another one leaves it, the card and the
\* table of models as they are, but for models that are added to the table.
LEMMA OthersHarmless ==
  ASSUME TypeOK, Lock, NEW t \in Task, pc[t] \in Inside,
         NEW u \in Task, u # t, Advance(u)
  PROVE  Harmless /\ pc'[t] = pc[t] /\ work'[t] = work[t]
BY Exclusive, OnlyOwnMove, OutsideHarmless

\* So do the sweep between two models, adoption, and calls that arrive.
LEMMA SweepHarmless ==
  ASSUME TypeOK, Sweep
  PROVE  /\ Harmless
         /\ pc[Sweeper] \notin Inside /\ pc'[Sweeper] \notin Inside
         /\ \A t \in Task \ {Sweeper} : pc'[t] = pc[t] /\ work'[t] = work[t]
<1>1. pc \in [Task -> Points] /\ work \in [Task -> LocalsType] /\ Sweeper \in Task
  BY DEF TypeOK, Task
<1> USE DEF Inside
<1>2. CASE StartSweep \/ SweepNext \/ EndSweep
  BY <1>1, <1>2 DEF StartSweep, SweepNext, EndSweep, GoTo, Enqueue, Harmless, card
<1>3. CASE \E e \in Engines : Adopt(e)
  BY <1>1, <1>3, PutAllGrows DEF Adopt, GoTo, Harmless, card
<1> QED BY <1>2, <1>3 DEF Sweep

LEMMA ArriveHarmless ==
  ASSUME TypeOK, Arrive
  PROVE  /\ Harmless
         /\ \A t \in Task : \/ pc'[t] = pc[t] /\ work'[t] = work[t]
                            \/ /\ pc[t] = "idle" /\ pc'[t] \in {"fast", "check"}
                               /\ work'[t].todo = Empty
<1>1. pc \in [Task -> Points] /\ work \in [Task -> LocalsType] /\ Clients \subseteq Task
  BY DEF TypeOK, Task
<1>2. PICK t \in Clients, m \in Models : EnsureReady(t, m) \/ UnloadModel(t, m)
  BY DEF Arrive
<1> QED BY <1>1, <1>2 DEF EnsureReady, UnloadModel, Enqueue, GoTo, Locals, Harmless, card

(***************************************************************************)
(* A task's own steps between its measurement and the start of its engine. *)
(***************************************************************************)
\* What t knows of the free figure is still true, and used before it starts.
Sound(t) ==
  /\ work[t].free <= FreeNow
  /\ pc[t] = "load" => work[t].needed <= work[t].free

\* A step within the stretch keeps the model, loads nothing, and either keeps
\* the measurement while the card only gets emptier, or measures again.
Onward(t) ==
  /\ work'[t].model = work[t].model
  /\ DOMAIN held' \subseteq DOMAIN held
  /\ FreeNow <= FreeNow'
  /\ work'[t].free \in {work[t].free, FreeNow'}
  /\ \/ pc'[t] # "load"
     \/ pc[t] = "load" /\ work'[t] = work[t]
     \/ work'[t].needed <= work'[t].free

LEMMA FreeWithout ==
  ASSUME TypeOK, NEW E \in SUBSET DOMAIN held, held' = Restrict(held, E), oob' = oob
  PROVE  DOMAIN held' \subseteq DOMAIN held /\ FreeNow <= FreeNow'
<1>1. FreeNow' >= FreeNow /\ FreeNow \in Int
  BY FreeRestrict, FreeType DEF TypeOK, FreeNow
<1>2. IsByteCount(held')
  BY ByteCountRestrict DEF TypeOK
<1>3. FreeNow' \in Int
  BY <1>2, FreeType DEF TypeOK, FreeNow
<1> QED BY <1>1, <1>3 DEF Restrict

LEMMA OwnStep ==
  ASSUME TypeOK, NEW t \in Task, Advance(t), pc'[t] \in Admitting
  PROVE  Measure(t) \/ (pc[t] \in Admitting /\ Onward(t))
<1> USE DEF Admitting, Inside, Answers
<1>1. pc \in [Task -> Points] /\ work \in [Task -> LocalsType]
  BY DEF TypeOK
<1>2. FreeNow \in Int
  BY FreeType DEF TypeOK, FreeNow
<1>3. work[t] \in LocalsType /\ work[t].free \in Int /\ work[t].needed \in Nat
  BY <1>1 DEF LocalsType
<1>4. UNCHANGED card => held' = held /\ oob' = oob /\ FreeNow' = FreeNow
  BY DEF card, FreeNow
<1>5. ~ (FastYes(t) \/ FastHit(t) \/ FastMiss(t) \/ FastError(t) \/ Respond(t)
          \/ EngineLoads(t))
  BY <1>1 DEF FastYes, FastHit, FastMiss, FastError, Respond, EngineLoads, GoTo, Enqueue
<1>6. ~ (RecheckYes(t) \/ RecheckError(t) \/ EvictFails(t) \/ Refuse(t) \/ LoadFails(t)
          \/ LoadAnswerLost(t) \/ LoadReturns(t) \/ ProbeFails(t) \/ UnloadFails(t))
  BY <1>1 DEF RecheckYes, RecheckError, EvictFails, Refuse, LoadFails,
       LoadAnswerLost, LoadReturns, ProbeFails, UnloadFails, Leave, GoTo
<1>7. ~ (CheckNo(t) \/ CheckYes(t) \/ Unload(t))
  BY <1>1 DEF CheckNo, CheckYes, Unload, Unloaded, GoTo
<1>8. CASE EvictMeasure(t)
  BY <1>1, <1>2, <1>3, <1>4, <1>8 DEF EvictMeasure, Budgeted, GoTo, Onward, LocalsType
<1>9. CASE \E e \in Engines : AskReserve(t, e)
  <2> PICK e \in Engines : AskReserve(t, e)
    BY <1>9
  <2>1. /\ pc[t] \in {"reserve", "evictReserve"}
        /\ pc'[t] \in {"reserve", "evictReserve", "decide", "evict"}
        /\ UNCHANGED card
    BY <1>1 DEF AskReserve, GoTo
  <2>2. PICK listed \in Resident(e) :
          LET left == work[t].ask \ {e}
              slice == work[t].slice - Bytes([m \in listed |-> Estimate(m)])
          IN  work' = [work EXCEPT ![t].ask = left, ![t].slice = slice,
                         ![t].budget = IF left = {} THEN GreaterOf(@, slice) ELSE @]
    BY DEF AskReserve
  <2>3. work'[t].model = work[t].model /\ work'[t].free = work[t].free
    BY <1>1, <2>2 DEF LocalsType
  <2> QED BY <1>2, <1>4, <2>1, <2>3 DEF Onward
<1>10. CASE Decide(t) \/ EvictNext(t) \/ EvictDone(t)
  <2>1. /\ pc[t] \in {"decide", "evict"} /\ pc'[t] # "load"
        /\ UNCHANGED card
    BY <1>1, <1>10 DEF Decide, EvictNext, EvictDone, GoTo
  <2>2. CASE Decide(t)
    <3>1. PICK a, b : work' = [work EXCEPT ![t].needed = a, ![t].todo = b]
      BY <2>2 DEF Decide
    <3>2. work'[t].model = work[t].model /\ work'[t].free = work[t].free
      BY <1>1, <3>1 DEF LocalsType
    <3> QED BY <1>2, <1>4, <2>1, <3>2 DEF Onward
  <2>3. CASE EvictNext(t)
    <3>1. PICK a : work' = [work EXCEPT ![t].victim = a, ![t].todo = Without(@, a)]
      BY <2>3 DEF EvictNext
    <3>2. work'[t].model = work[t].model /\ work'[t].free = work[t].free
      BY <1>1, <3>1 DEF LocalsType
    <3> QED BY <1>2, <1>4, <2>1, <3>2 DEF Onward
  <2>4. CASE EvictDone(t)
    <3>1. work'[t].model = work[t].model /\ work'[t].free = FreeNow
      BY <1>1, <2>4 DEF EvictDone, LocalsType
    <3> QED BY <1>2, <1>4, <2>1, <3>1 DEF Onward
  <2> QED BY <1>10, <2>2, <2>3, <2>4
<1>11. CASE VictimGone(t) \/ VictimUp(t)
  BY <1>1, <1>2, <1>4, <1>11 DEF VictimGone, VictimUp, GoTo, Onward
<1>12. CASE EvictUnload(t)
  <2>1. /\ held' = Without(held, work[t].victim) /\ oob' = oob
        /\ pc[t] = "evictUnload" /\ pc'[t] = "settle" /\ work' = work
    BY <1>1, <1>12 DEF EvictUnload, GoTo
  <2> QED BY <2>1, FreeWithout DEF Without, Onward
<1>13. CASE AdmitLoad(t) \/ AdmitRoom(t) \/ AdmitRefuse(t)
  BY <1>1, <1>2, <1>4, <1>13 DEF AdmitLoad, AdmitRoom, AdmitRefuse, Fits, GoTo, Onward
<1>14. CASE StopOccupant(t)
  <2>1. /\ held' = Restrict(held, DOMAIN held \ InEngine(EngineOf[work[t].model]))
        /\ oob' = oob /\ pc[t] = "load" /\ work' = work
    BY <1>14 DEF StopOccupant
  <2> QED BY <2>1, FreeWithout DEF Onward
<1>15. CASE RoomMade(t)
  <2>1. PICK level \in {l \in OobLevels : l <= oob}, failed \in BOOLEAN :
          /\ oob' = level
          /\ LET free == IF failed THEN work[t].free ELSE Free(held, level)
             IN  /\ work' = [work EXCEPT ![t].free = free]
                 /\ GoTo(t, IF work[t].needed > free THEN "refuse" ELSE "load")
    BY <1>15 DEF RoomMade, Paged
  <2> DEFINE free == IF failed THEN work[t].free ELSE Free(held, level)
  <2>2. held' = held /\ pc[t] = "room"
    BY <1>15 DEF RoomMade
  <2>3. Free(held, level) = FreeNow' /\ FreeNow' \in Int
    BY <2>1, <2>2, FreeType DEF FreeNow, TypeOK
  <2>4. FreeNow <= FreeNow'
    BY <2>1, <2>2, ByteCountSum, OrchestratorAssumption, VramAssumption
    DEF TypeOK, FreeNow, Free
  <2>5. work'[t].free = free /\ work'[t].model = work[t].model
        /\ work'[t].needed = work[t].needed
    BY <1>1, <2>1 DEF LocalsType
  <2>6. pc'[t] = "load" => work[t].needed <= free
    BY <1>1, <1>3, <2>1, <2>3 DEF GoTo
  <2> QED BY <2>2, <2>3, <2>4, <2>5, <2>6 DEF Onward
<1> QED BY <1>5, <1>6, <1>7, <1>8, <1>9, <1>10, <1>11, <1>12, <1>13, <1>14, <1>15
        DEF Advance

\* Whatever a step of the tasks is, a task that is in the stretch after it was
\* just measured for, made such a step, or was left alone.
LEMMA Stretch ==
  ASSUME TypeOK, Lock, NEW t \in Task, pc'[t] \in Admitting,
         (\E u \in Task : Advance(u)) \/ Sweep \/ Arrive
  PROVE  \/ Measure(t)
         \/ pc[t] \in Admitting /\ Onward(t)
         \/ /\ pc[t] \in Admitting /\ pc'[t] = pc[t] /\ work'[t] = work[t]
            /\ held' = held /\ oob' = oob
<1> USE DEF Admitting, Inside
<1>1. ASSUME NEW u \in Task, Advance(u), u # t
      PROVE  /\ pc[t] \in Admitting /\ pc'[t] = pc[t] /\ work'[t] = work[t]
             /\ held' = held /\ oob' = oob
  BY <1>1, OnlyOwnMove, OthersHarmless DEF Harmless
<1>2. CASE Sweep
  BY <1>2, SweepHarmless DEF Harmless
<1>3. CASE Arrive
  BY <1>3, ArriveHarmless DEF Harmless
<1> QED BY <1>1, <1>2, <1>3, OwnStep

(***************************************************************************)
(* No double load.                                                         *)
(***************************************************************************)
\* The steps of the rest of the box that load nothing.
LEMMA BoxLoadsNothing ==
  ASSUME Box, "direct" \notin Faults
  PROVE  pc' = pc /\ work' = work /\ DOMAIN held' \subseteq DOMAIN held
BY DEF Box, Tick, OobMoves, EngineDrops, DirectLoad, Without, Restrict, card

\* Where health checks are truthful and nobody loads into Ollama directly, a
\* model that a task is about to load is not resident: the second is_ready,
\* under the mutex, is enough.
THEOREM NoDoubleLoadAlways ==
  ASSUME "health" \notin Faults, "direct" \notin Faults
  PROVE  Spec => []NoDoubleLoad
<1>1. Init => NoDoubleLoad
  BY DEF Init, FreshPc, FreshWork, Found, NoDoubleLoad, Admitting, Inside, Task
<1>2. TypeOK /\ Lock /\ NoDoubleLoad /\ [Next]_vars => NoDoubleLoad'
  <2> SUFFICES ASSUME TypeOK, Lock, NoDoubleLoad, [Next]_vars,
                      NEW t \in Task, pc'[t] \in Admitting
               PROVE  work'[t].model \notin DOMAIN held'
    BY DEF NoDoubleLoad
  <2>1. CASE UNCHANGED vars
    BY <2>1 DEF vars, card, NoDoubleLoad
  <2>2. CASE Box
    BY <2>2, BoxLoadsNothing DEF NoDoubleLoad
  <2>3. CASE (\E u \in Task : Advance(u)) \/ Sweep \/ Arrive
    <3>1. CASE Measure(t)
      <4>1. "no" \in IsReady(work[t].model) /\ held' = held
            /\ work'[t].model = work[t].model
        BY <3>1 DEF Measure, Budgeted, card, TypeOK, LocalsType
      <4>2. work[t].model \notin DOMAIN held
        BY <4>1 DEF IsReady
      <4> QED BY <4>1, <4>2
    <3>2. CASE pc[t] \in Admitting /\ Onward(t)
      BY <3>2 DEF Onward, NoDoubleLoad
    <3>3. CASE pc[t] \in Admitting /\ work'[t] = work[t] /\ held' = held
      BY <3>3 DEF NoDoubleLoad
    <3> QED BY <2>3, <3>1, <3>2, <3>3, Stretch
  <2> QED BY <2>1, <2>2, <2>3 DEF Next
<1> QED BY <1>1, <1>2, TypeInvariant, LockInvariant, PTL DEF Spec

(***************************************************************************)
(* The free figure.                                                        *)
(***************************************************************************)
FiguresSound == \A t \in Task : pc[t] \in Admitting => Sound(t)

LEMMA BoxTakesNothing ==
  ASSUME TypeOK, Box, "direct" \notin Faults, "oob" \notin Faults
  PROVE  pc' = pc /\ work' = work /\ FreeNow <= FreeNow'
<1>1. FreeNow \in Int
  BY FreeType DEF TypeOK, FreeNow
<1>2. CASE Tick
  BY <1>1, <1>2 DEF Tick, card, FreeNow
<1>3. CASE EngineDrops
  BY <1>3, FreeWithout DEF EngineDrops, Without
<1> QED BY <1>2, <1>3 DEF Box, OobMoves, DirectLoad

LEMMA SoundStep ==
  ASSUME TypeOK, TypeOK', Lock, FiguresSound, [Next]_vars,
         "oob" \notin Faults, "direct" \notin Faults
  PROVE  FiguresSound'
<1> SUFFICES ASSUME NEW t \in Task, pc'[t] \in Admitting PROVE Sound(t)'
  BY DEF FiguresSound
<1>1. /\ FreeNow \in Int /\ FreeNow' \in Int
      /\ work[t].free \in Int /\ work'[t].free \in Int
  BY FreeType DEF TypeOK, FreeNow, LocalsType
<1>2. CASE UNCHANGED vars
  BY <1>2 DEF vars, card, FiguresSound, Sound, FreeNow
<1>3. CASE Box
  BY <1>1, <1>3, BoxTakesNothing DEF FiguresSound, Sound
<1>4. CASE (\E u \in Task : Advance(u)) \/ Sweep \/ Arrive
  <2>1. CASE Measure(t)
    <3>1. work'[t].free = FreeNow /\ FreeNow' = FreeNow
          /\ pc'[t] \in {"reserve", "decide"}
      BY <2>1 DEF Measure, Budgeted, GoTo, card, FreeNow, TypeOK, LocalsType
    <3> QED BY <1>1, <3>1 DEF Sound
  <2>2. CASE pc[t] \in Admitting /\ Onward(t)
    BY <1>1, <2>2 DEF Onward, FiguresSound, Sound
  <2>3. CASE pc[t] \in Admitting /\ pc'[t] = pc[t] /\ work'[t] = work[t]
             /\ held' = held /\ oob' = oob
    BY <2>3 DEF FiguresSound, Sound, FreeNow
  <2> QED BY <1>4, <2>1, <2>2, <2>3, Stretch
<1> QED BY <1>2, <1>3, <1>4 DEF Next

LEMMA SoundHolds == TypeOK /\ FiguresSound => FreeFigureHolds
<1> SUFFICES ASSUME TypeOK, FiguresSound, NEW t \in Task, pc[t] = "load"
             PROVE  work[t].needed <= FreeNow
  BY DEF FreeFigureHolds
<1>1. /\ FreeNow \in Int /\ work[t].free \in Int /\ work[t].needed \in Int
  BY FreeType DEF TypeOK, FreeNow, LocalsType
<1> QED BY <1>1 DEF FiguresSound, Sound, Admitting, Inside

\* Where only coload itself adds to the card, the figure a load was admitted by
\* is still true when its engine starts, whatever awaits lie between.
THEOREM FreeFigureAlways ==
  ASSUME "oob" \notin Faults, "direct" \notin Faults
  PROVE  Spec => []FreeFigureHolds
<1>1. Init => FiguresSound
  BY DEF Init, FreshPc, FreshWork, Found, FiguresSound, Admitting, Inside, Task
<1>2. TypeOK /\ TypeOK' /\ Lock /\ FiguresSound /\ [Next]_vars => FiguresSound'
  BY SoundStep
<1> QED BY <1>1, <1>2, SoundHolds, TypeInvariant, LockInvariant, PTL DEF Spec

(***************************************************************************)
(* Eviction.                                                               *)
(***************************************************************************)
\* The stages of an eviction pass, and the points of a call outside of one.
Evicting == {"evictMeasure", "evictReserve", "evict", "victim", "evictUnload", "settle"}

Plain == ({"fast"} \cup AtDoor \cup Inside) \ Evicting

\* Outside of a pass a call has no candidates left over.  During one they are
\* tracked, and so is the victim, which is no longer one of them: what the pass
\* forgets does not take a candidate from the table.
Candid(t) ==
  /\ pc[t] \in Plain => DOMAIN work[t].todo = {}
  /\ pc[t] \in Evicting =>
       DOMAIN work[t].todo \subseteq DOMAIN lastUsed \ {work[t].model}
  /\ pc[t] \in {"victim", "evictUnload"} =>
       work[t].victim \in DOMAIN lastUsed \ ({work[t].model} \cup DOMAIN work[t].todo)

LEMMA WithoutDomain ==
  ASSUME NEW d, NEW k
  PROVE  DOMAIN Without(d, k) = DOMAIN d \ {k}
BY DEF Without, Restrict

LEMMA CandidOwn ==
  ASSUME TypeOK, NEW t \in Clients, Candid(t), Advance(t)
  PROVE  Candid(t)'
<1> USE DEF Plain, Evicting, AtDoor, Inside, Answers
<1>1. pc \in [Task -> Points] /\ work \in [Task -> LocalsType] /\ t \in Task
  BY DEF TypeOK, Task
<1>2. work[t] \in LocalsType
  BY <1>1
<1>3. DOMAIN Empty = {}
  BY DEF Empty
<1>4. t # Sweeper
  BY OrchestratorAssumption
<1>5. ASSUME pc'[t] \notin Plain \cup Evicting PROVE Candid(t)'
  BY <1>5 DEF Candid
<1>6. ASSUME work'[t].todo = work[t].todo, work'[t].model = work[t].model,
             lastUsed' = lastUsed, pc'[t] \notin {"victim", "evictUnload"},
             \/ pc[t] \in Plain /\ pc'[t] \in Plain
             \/ pc[t] \in Evicting /\ pc'[t] \in Evicting
      PROVE  Candid(t)'
  BY <1>6 DEF Candid
<1>7. CASE FastYes(t) \/ FastHit(t) \/ FastError(t) \/ Respond(t)
  BY <1>1, <1>5, <1>7 DEF FastYes, FastHit, FastError, Respond, GoTo
<1>8. CASE RecheckYes(t) \/ RecheckError(t) \/ EvictFails(t) \/ Refuse(t) \/ LoadFails(t)
           \/ LoadAnswerLost(t) \/ LoadReturns(t) \/ ProbeFails(t) \/ UnloadFails(t)
  BY <1>1, <1>5, <1>8 DEF RecheckYes, RecheckError, EvictFails, Refuse, LoadFails,
       LoadAnswerLost, LoadReturns, ProbeFails, UnloadFails, Leave, GoTo
<1>9. CASE CheckNo(t) \/ Unload(t)
  BY <1>1, <1>4, <1>5, <1>9 DEF CheckNo, Unload, Unloaded, GoTo
<1>10. CASE FastMiss(t) \/ CheckYes(t) \/ AdmitLoad(t) \/ AdmitRoom(t) \/ AdmitRefuse(t)
            \/ StopOccupant(t) \/ EngineLoads(t)
  BY <1>1, <1>6, <1>10 DEF FastMiss, CheckYes, AdmitLoad, AdmitRoom, AdmitRefuse,
       StopOccupant, EngineLoads, Enqueue, GoTo
<1>11. CASE Measure(t)
  BY <1>1, <1>2, <1>6, <1>11 DEF Measure, Budgeted, GoTo, LocalsType
<1>12. CASE EvictMeasure(t)
  BY <1>1, <1>2, <1>6, <1>12 DEF EvictMeasure, Budgeted, GoTo, LocalsType
<1>13. CASE \E e \in Engines : AskReserve(t, e)
  <2> PICK e \in Engines : AskReserve(t, e)
    BY <1>13
  <2>1. /\ lastUsed' = lastUsed
        /\ \/ pc[t] = "reserve" /\ pc'[t] \in {"reserve", "decide"}
           \/ pc[t] = "evictReserve" /\ pc'[t] \in {"evictReserve", "evict"}
    BY <1>1 DEF AskReserve, GoTo
  <2>2. PICK listed \in Resident(e) :
          LET left == work[t].ask \ {e}
              slice == work[t].slice - Bytes([m \in listed |-> Estimate(m)])
          IN  work' = [work EXCEPT ![t].ask = left, ![t].slice = slice,
                         ![t].budget = IF left = {} THEN GreaterOf(@, slice) ELSE @]
    BY DEF AskReserve
  <2>3. work'[t].model = work[t].model /\ work'[t].todo = work[t].todo
    BY <1>1, <2>2 DEF LocalsType
  <2> QED BY <1>6, <2>1, <2>3
<1>14. CASE Decide(t)
  <2> DEFINE evicting == Estimate(work[t].model) > work[t].budget /\ AutoEvict
  <2>1. /\ pc'[t] = IF evicting THEN "evictMeasure" ELSE "admit"
        /\ work'[t].model = work[t].model /\ lastUsed' = lastUsed
        /\ work'[t].todo = IF evicting THEN Without(lastUsed, work[t].model) ELSE Empty
    BY <1>1, <1>2, <1>14 DEF Decide, GoTo, LocalsType
  <2> QED BY <1>3, <2>1, WithoutDomain DEF Candid
<1>15. CASE EvictNext(t)
  <2>1. PICK v \in Oldest(work[t].todo) :
          work' = [work EXCEPT ![t].victim = v, ![t].todo = Without(@, v)]
    BY <1>15 DEF EvictNext
  <2>2. pc[t] = "evict" /\ pc'[t] = "victim" /\ lastUsed' = lastUsed
    BY <1>1, <1>15 DEF EvictNext, GoTo
  <2>3. /\ work'[t].model = work[t].model /\ work'[t].victim = v
        /\ DOMAIN work'[t].todo = DOMAIN work[t].todo \ {v}
    BY <1>1, <1>2, <2>1, WithoutDomain DEF LocalsType
  <2>4. v \in DOMAIN work[t].todo
    BY DEF Oldest
  <2> QED BY <2>2, <2>3, <2>4 DEF Candid
<1>16. CASE VictimUp(t)
  BY <1>1, <1>16 DEF VictimUp, GoTo, Candid
<1>17. CASE VictimGone(t) \/ EvictUnload(t)
  <2>1. /\ pc[t] \in {"victim", "evictUnload"} /\ pc'[t] \in {"evict", "settle"}
        /\ work' = work /\ lastUsed' = Without(lastUsed, work[t].victim)
    BY <1>1, <1>17 DEF VictimGone, EvictUnload, GoTo, Forget
  <2>2. DOMAIN lastUsed' = DOMAIN lastUsed \ {work[t].victim}
    BY <2>1, WithoutDomain
  <2>3. /\ DOMAIN work[t].todo \subseteq DOMAIN lastUsed \ {work[t].model}
        /\ work[t].victim \notin DOMAIN work[t].todo
    BY <2>1 DEF Candid
  <2> QED BY <2>1, <2>2, <2>3 DEF Candid
<1>18. CASE EvictDone(t)
  <2>1. pc'[t] = "admit" /\ work'[t].todo = Empty
    BY <1>1, <1>2, <1>18 DEF EvictDone, GoTo, LocalsType
  <2> QED BY <1>3, <2>1 DEF Candid
<1>19. CASE RoomMade(t)
  <2>1. PICK level \in {l \in OobLevels : l <= oob}, failed \in BOOLEAN :
          work' = [work EXCEPT ![t].free = IF failed THEN work[t].free ELSE Free(held, level)]
    BY <1>19 DEF RoomMade, Paged
  <2>2. pc[t] = "room" /\ pc'[t] \in {"refuse", "load"} /\ lastUsed' = lastUsed
    BY <1>1, <1>19 DEF RoomMade, GoTo
  <2>3. work'[t].model = work[t].model /\ work'[t].todo = work[t].todo
    BY <1>1, <1>2, <2>1 DEF LocalsType
  <2> QED BY <1>6, <2>2, <2>3
<1> QED BY <1>7, <1>8, <1>9, <1>10, <1>11, <1>12, <1>13, <1>14, <1>15, <1>16, <1>17,
           <1>18, <1>19 DEF Advance

\* A call that is left alone, by a step that forgets nothing if it is inside.
LEMMA CandidKept ==
  ASSUME NEW t, Candid(t), pc'[t] = pc[t], work'[t] = work[t],
         pc[t] \in Inside => DOMAIN lastUsed \subseteq DOMAIN lastUsed'
  PROVE  Candid(t)'
BY DEF Candid, Evicting, Inside

LEMMA CandidStep ==
  ASSUME TypeOK, Lock, [Next]_vars, NEW t \in Clients, Candid(t)
  PROVE  Candid(t)'
<1>1. t \in Task /\ t # Sweeper
  BY OrchestratorAssumption DEF Task
<1>2. CASE UNCHANGED vars
  BY <1>2, CandidKept DEF vars
<1>3. CASE Box
  BY <1>3, CandidKept DEF Box, Tick, OobMoves, EngineDrops, DirectLoad
<1>4. CASE Sweep
  BY <1>1, <1>4, SweepHarmless, CandidKept DEF Harmless
<1>5. CASE Arrive
  <2>1. DOMAIN Empty = {}
    BY DEF Empty
  <2>2. ASSUME pc'[t] \in {"fast", "check"}, work'[t].todo = Empty PROVE Candid(t)'
    BY <2>1, <2>2 DEF Candid, Evicting
  <2> QED BY <1>1, <1>5, <2>2, ArriveHarmless, CandidKept DEF Harmless
<1>6. ASSUME NEW u \in Task, Advance(u) PROVE Candid(t)'
  <2>1. CASE u = t
    BY <1>6, <2>1, CandidOwn
  <2>2. CASE u # t
    BY <1>1, <1>6, <2>2, OnlyOwnMove, OthersHarmless, CandidKept DEF Harmless
  <2> QED BY <2>1, <2>2
<1> QED BY <1>2, <1>3, <1>4, <1>5, <1>6 DEF Next

\* Whatever fails, and however long a pass lasts, what it may still evict is
\* tracked, and is not the model that it makes room for.
THEOREM EvictsOnlyTrackedAlways == Spec => []EvictsOnlyTracked
<1> DEFINE Inv == \A t \in Clients : Candid(t)
<1>1. Init => Inv
  BY DEF Init, FreshPc, FreshWork, Found, Candid, Plain, Evicting, AtDoor, Inside, Task
<1>2. TypeOK /\ Lock /\ Inv /\ [Next]_vars => Inv'
  BY CandidStep
<1>3. Inv => EvictsOnlyTracked
  BY DEF Candid, Plain, Evicting, EvictsOnlyTracked
<1> HIDE DEF Inv
<1> QED BY <1>1, <1>2, <1>3, TypeInvariant, LockInvariant, PTL DEF Spec

(***************************************************************************)
(* Never lost.                                                             *)
(***************************************************************************)
\* A model leaves the table only when its engine lets go of it, provided that
\* the engines tell the truth.
LEMMA ForgetsOnlyGone ==
  ASSUME TypeOK, "health" \notin Faults, [Next]_vars,
         NEW m \in DOMAIN lastUsed, m \in DOMAIN held, m \in DOMAIN held'
  PROVE  m \in DOMAIN lastUsed'
<1>1. \A v : "no" \in IsReady(v) => v # m
  BY DEF IsReady
<1>2. ASSUME NEW v, v # m, Forget(v) PROVE m \in DOMAIN lastUsed'
  BY <1>2, WithoutDomain DEF Forget
<1>3. ASSUME NEW v, Touch(v) PROVE m \in DOMAIN lastUsed'
  BY <1>3, PutAllGrows DEF Touch, Put
<1>4. ASSUME lastUsed' = lastUsed PROVE m \in DOMAIN lastUsed'
  BY <1>4
<1>5. ASSUME NEW v, held' = Without(held, v) PROVE v # m
  BY <1>5, WithoutDomain
<1>6. ASSUME NEW t \in Task, Advance(t) PROVE m \in DOMAIN lastUsed'
  <2>1. CASE FastYes(t) \/ FastHit(t) \/ FastMiss(t) \/ FastError(t) \/ Respond(t)
    BY <1>3, <1>4, <2>1 DEF FastYes, FastHit, FastMiss, FastError, Respond
  <2>2. CASE RecheckYes(t) \/ RecheckError(t) \/ EvictFails(t) \/ Refuse(t) \/ LoadFails(t)
             \/ LoadAnswerLost(t) \/ LoadReturns(t) \/ ProbeFails(t) \/ UnloadFails(t)
    BY <1>3, <1>4, <2>2 DEF RecheckYes, RecheckError, EvictFails, Refuse, LoadFails,
         LoadAnswerLost, LoadReturns, ProbeFails, UnloadFails
  <2>3. CASE Measure(t) \/ EvictMeasure(t) \/ \E e \in Engines : AskReserve(t, e)
    BY <1>4, <2>3 DEF Measure, EvictMeasure, AskReserve
  <2>4. CASE Decide(t) \/ EvictNext(t) \/ EvictDone(t) \/ VictimUp(t) \/ CheckYes(t)
    BY <1>4, <2>4 DEF Decide, EvictNext, EvictDone, VictimUp, CheckYes
  <2>5. CASE AdmitLoad(t) \/ AdmitRoom(t) \/ AdmitRefuse(t) \/ RoomMade(t)
             \/ StopOccupant(t) \/ EngineLoads(t)
    BY <1>4, <2>5 DEF AdmitLoad, AdmitRoom, AdmitRefuse, RoomMade, StopOccupant, EngineLoads
  <2>6. CASE VictimGone(t) \/ EvictUnload(t)
    BY <1>1, <1>2, <1>5, <2>6 DEF VictimGone, EvictUnload
  <2>7. CASE CheckNo(t) \/ Unload(t)
    BY <1>1, <1>2, <1>5, <2>7 DEF CheckNo, Unload, Unloaded
  <2> QED BY <1>6, <2>1, <2>2, <2>3, <2>4, <2>5, <2>6, <2>7 DEF Advance
<1>7. CASE Sweep
  BY <1>7, SweepHarmless DEF Harmless
<1>8. CASE Arrive
  BY <1>8, ArriveHarmless DEF Harmless
<1>9. CASE Box \/ UNCHANGED vars
  BY <1>4, <1>9 DEF Box, Tick, OobMoves, EngineDrops, DirectLoad, vars
<1> QED BY <1>6, <1>7, <1>8, <1>9 DEF Next

\* A model that becomes resident is one that an engine has just loaded for a call,
\* whose load is about to return.
LEMMA OnlyLoadsAdd ==
  ASSUME TypeOK, [Next]_vars, "direct" \notin Faults, "lost" \notin Faults,
         NEW m \in DOMAIN held', m \notin DOMAIN held
  PROVE  \E t \in Task : /\ EngineLoads(t) /\ work[t].model = m
                        /\ pc'[t] = "loaded" /\ work'[t].model = m
<1>1. pc \in [Task -> Points]
  BY DEF TypeOK
<1>2. ASSUME DOMAIN held' \subseteq DOMAIN held PROVE FALSE
  BY <1>2
<1>3. \A d, k, E : /\ DOMAIN Without(d, k) \subseteq DOMAIN d
                  /\ DOMAIN Restrict(d, DOMAIN d \ E) \subseteq DOMAIN d
  BY DEF Without, Restrict
<1>4. ASSUME NEW t \in Task, Advance(t) PROVE EngineLoads(t)
  <2>1. ~ (FastYes(t) \/ FastHit(t) \/ FastMiss(t) \/ FastError(t) \/ Respond(t))
    BY <1>2 DEF FastYes, FastHit, FastMiss, FastError, Respond, card
  <2>2. ~ (RecheckYes(t) \/ RecheckError(t) \/ EvictFails(t) \/ Refuse(t) \/ LoadFails(t)
            \/ LoadAnswerLost(t) \/ LoadReturns(t) \/ ProbeFails(t) \/ UnloadFails(t))
    BY <1>2 DEF RecheckYes, RecheckError, EvictFails, Refuse, LoadFails,
         LoadAnswerLost, LoadReturns, ProbeFails, UnloadFails, card
  <2>3. ~ (Measure(t) \/ EvictMeasure(t) \/ \E e \in Engines : AskReserve(t, e))
    BY <1>2 DEF Measure, EvictMeasure, AskReserve, card
  <2>4. ~ (Decide(t) \/ EvictNext(t) \/ EvictDone(t) \/ VictimGone(t) \/ VictimUp(t)
            \/ CheckNo(t) \/ CheckYes(t))
    BY <1>2 DEF Decide, EvictNext, EvictDone, VictimGone, VictimUp, CheckNo, CheckYes, card
  <2>5. ~ (AdmitLoad(t) \/ AdmitRoom(t) \/ AdmitRefuse(t) \/ RoomMade(t))
    BY <1>2 DEF AdmitLoad, AdmitRoom, AdmitRefuse, RoomMade, card
  <2>6. ~ (EvictUnload(t) \/ Unload(t) \/ StopOccupant(t))
    BY <1>2, <1>3 DEF EvictUnload, Unload, StopOccupant
  <2> QED BY <1>4, <2>1, <2>2, <2>3, <2>4, <2>5, <2>6 DEF Advance
<1>5. ~ Sweep /\ ~ Arrive
  BY <1>2, SweepHarmless, ArriveHarmless DEF Harmless
<1>6. ~ Box /\ ~ UNCHANGED vars
  BY <1>2, BoxLoadsNothing DEF vars
<1>7. PICK t \in Task : EngineLoads(t)
  BY <1>4, <1>5, <1>6 DEF Next
<1>8. pc'[t] = "loaded" /\ work' = work
  BY <1>1, <1>7 DEF EngineLoads, GoTo
<1>9. DOMAIN held' = DOMAIN held \cup {work[t].model}
  BY <1>7 DEF EngineLoads, Allocate, Put, PutAll
<1> QED BY <1>7, <1>8, <1>9

LEMMA ResidentsAreLoaded ==
  ASSUME TypeOK, [Next]_vars, "direct" \notin Faults, "lost" \notin Faults,
         NEW m \in DOMAIN held', m \notin DOMAIN held
  PROVE  \E t \in Task : pc'[t] = "loaded" /\ work'[t].model = m
BY OnlyLoadsAdd

\* A model that was just loaded is tracked once its load returns, unless the probe
\* raises then.
LEMMA LoadedIsTracked ==
  ASSUME TypeOK, [Next]_vars, NEW t \in Task, pc[t] = "loaded"
  PROVE  \/ work[t].model \in DOMAIN lastUsed'
         \/ pc'[t] = "loaded" /\ work'[t] = work[t]
         \/ pc'[t] = "error" /\ "probe" \in Faults
<1>1. pc[t] \in Inside /\ pc \in [Task -> Points]
  BY DEF Inside, TypeOK
<1>2. CASE UNCHANGED vars \/ Box
  BY <1>2 DEF vars, Box, Tick, OobMoves, EngineDrops, DirectLoad
<1>3. CASE Sweep
  BY <1>1, <1>3, SweepHarmless
<1>4. CASE Arrive
  BY <1>4, ArriveHarmless
<1>5. ASSUME NEW u \in Task, Advance(u), u # t PROVE pc'[t] = pc[t] /\ work'[t] = work[t]
  BY <1>5, OnlyOwnMove
<1>6. CASE Advance(t)
  <2>1. LoadReturns(t) \/ ProbeFails(t)
    BY <1>6 DEF Advance, FastYes, FastHit, FastMiss, FastError, RecheckYes,
         RecheckError, Measure, AskReserve, Decide, EvictMeasure, EvictNext, VictimGone,
         VictimUp, EvictUnload, EvictFails, EvictDone, AdmitLoad, AdmitRoom, AdmitRefuse,
         RoomMade, Refuse, StopOccupant, EngineLoads, LoadFails, LoadAnswerLost,
         CheckNo, CheckYes, Unload, UnloadFails, Respond, Answers
  <2>2. CASE LoadReturns(t)
    BY <2>2 DEF LoadReturns, Touch, Put, PutAll
  <2>3. CASE ProbeFails(t)
    BY <1>1, <2>3 DEF ProbeFails, Leave, GoTo
  <2> QED BY <2>1, <2>2, <2>3
<1> QED BY <1>2, <1>3, <1>4, <1>5, <1>6 DEF Next

\* A model whose engine is still to be asked at the start is so after a step, or is
\* found, if the engine tells what it has under the configured names.
LEMMA StillToAdopt ==
  ASSUME TypeOK, [Next]_vars, Faults \cap {"down", "silent"} = {},
         NEW m \in DOMAIN held \ Untagged, pc[Sweeper] = "adopt", EngineOf[m] \in work[Sweeper].ask
  PROVE  \/ m \in DOMAIN lastUsed'
         \/ pc'[Sweeper] = "adopt" /\ EngineOf[m] \in work'[Sweeper].ask
<1>1. Sweeper \in Task /\ pc \in [Task -> Points] /\ work \in [Task -> LocalsType]
  BY DEF TypeOK, Task
<1>2. CASE UNCHANGED vars \/ Box
  BY <1>2 DEF vars, Box, Tick, OobMoves, EngineDrops, DirectLoad
<1>3. CASE Arrive
  BY <1>1, <1>3, ArriveHarmless
<1>4. ASSUME NEW u \in Task, Advance(u)
      PROVE  pc'[Sweeper] = pc[Sweeper] /\ work'[Sweeper] = work[Sweeper]
  <2>1. u # Sweeper
    BY <1>4 DEF Advance, FastYes, FastHit, FastMiss, FastError, RecheckYes,
         RecheckError, Measure, AskReserve, Decide, EvictMeasure, EvictNext, VictimGone,
         VictimUp, EvictUnload, EvictFails, EvictDone, AdmitLoad, AdmitRoom, AdmitRefuse,
         RoomMade, Refuse, StopOccupant, EngineLoads, LoadFails, LoadAnswerLost,
         LoadReturns, ProbeFails, CheckNo, CheckYes, Unload, UnloadFails, Respond, Answers
  <2> QED BY <1>1, <1>4, <2>1, OnlyOwnMove
<1>5. CASE Sweep
  <2>1. PICK e \in Engines : Adopt(e)
    BY <1>5 DEF Sweep, StartSweep, SweepNext, EndSweep
  <2>2. CASE EngineOf[m] = e
    <3>1. Resident(e) = {InEngine(e) \ Untagged}
      BY DEF Resident
    <3>2. m \in InEngine(e) \ Untagged
      BY <2>2 DEF InEngine
    <3>3. lastUsed' = PutAll(lastUsed, InEngine(e) \ Untagged, now)
      BY <2>1, <3>1 DEF Adopt
    <3> QED BY <3>2, <3>3 DEF PutAll
  <2>3. CASE EngineOf[m] # e
    <3>1. /\ work[Sweeper].ask # {e}
          /\ work' = [work EXCEPT ![Sweeper].ask = @ \ {e}]
          /\ pc' = [pc EXCEPT ![Sweeper] = "adopt"]
      BY <2>1, <2>3 DEF Adopt, GoTo
    <3>2. work'[Sweeper].ask = work[Sweeper].ask \ {e}
      BY <1>1, <3>1 DEF LocalsType
    <3> QED BY <1>1, <2>3, <3>1, <3>2
  <2> QED BY <2>2, <2>3
<1> QED BY <1>2, <1>3, <1>4, <1>5 DEF Next

\* Where engines answer, and answer the truth, coload knows of every configured
\* model on the card: through loads and unloads that fail, evictions, sweeps and
\* drops, and through adoption, whatever the previous process left behind.
THEOREM NeverLosesTrackAlways ==
  ASSUME Faults \cap {"direct", "down", "health", "silent", "lost", "probe"} = {},
         Untagged = {}
  PROVE  Spec => []NeverLosesTrack
<1>1. Init => NeverLosesTrack
  <2> SUFFICES ASSUME Init, NEW m \in DOMAIN held
               PROVE  pc[Sweeper] = "adopt" /\ EngineOf[m] \in work[Sweeper].ask
    BY DEF NeverLosesTrack
  <2>1. Sweeper \in Task
    BY DEF Task
  <2>2. m \in Models
    BY DEF Init, FreshPc, FreshWork, Found, Leftover
  <2>3. pc[Sweeper] = "adopt" /\ work[Sweeper].ask = Engines
    BY <2>1 DEF Init, FreshPc, FreshWork, Found, Locals
  <2> QED BY <2>2, <2>3, OrchestratorAssumption
<1>2. TypeOK /\ Lock /\ NeverLosesTrack /\ [Next]_vars => NeverLosesTrack'
  <2> SUFFICES ASSUME TypeOK, Lock, NeverLosesTrack, [Next]_vars, NEW m \in DOMAIN held'
               PROVE  \/ m \in DOMAIN lastUsed'
                      \/ \E t \in Task : pc'[t] = "loaded" /\ work'[t].model = m
                      \/ pc'[Sweeper] = "adopt" /\ EngineOf[m] \in work'[Sweeper].ask
    BY DEF NeverLosesTrack
  <2>1. CASE m \notin DOMAIN held
    BY <2>1, ResidentsAreLoaded
  <2>2. CASE m \in DOMAIN held /\ m \in DOMAIN lastUsed
    BY <2>2, ForgetsOnlyGone
  <2>3. ASSUME NEW t \in Task, pc[t] = "loaded", work[t].model = m
        PROVE  m \in DOMAIN lastUsed' \/ (pc'[t] = "loaded" /\ work'[t].model = m)
    BY <2>3, LoadedIsTracked
  <2>4. CASE m \in DOMAIN held /\ pc[Sweeper] = "adopt" /\ EngineOf[m] \in work[Sweeper].ask
    BY <2>4, StillToAdopt
  <2> QED BY <2>1, <2>2, <2>3, <2>4 DEF NeverLosesTrack
<1> QED BY <1>1, <1>2, TypeInvariant, LockInvariant, PTL DEF Spec

=============================================================================
