---------------------------- MODULE BudgetProofs ----------------------------
(***************************************************************************)
(* What the budget is worth: theorems about the figure that a load is      *)
(* admitted by, from its measurement through every eviction of the pass to *)
(* the start of the engine, about the estimates that it is compared with,  *)
(* and about the refusals that it leads to.                                *)
(***************************************************************************)
EXTENDS AdmissionProofs

(***************************************************************************)
(* What each step of a task between its measurement and the start of its   *)
(* engine does with its own locals and with the card.                      *)
(***************************************************************************)
\* The start, or restart, of a measurement.
Measures(t) ==
  /\ pc[t] \in {"recheck", "evictMeasure", "settle"}
  /\ pc'[t] = IF pc[t] = "recheck" THEN (IF Reserve = 0 THEN "decide" ELSE "reserve")
              ELSE (IF Reserve = 0 THEN "evict" ELSE "evictReserve")
  /\ work'[t] = [work[t] EXCEPT !.free = IF pc[t] = "recheck" THEN FreeNow ELSE @,
                                !.budget = Budget(FreeNow), !.slice = Reserve,
                                !.ask = IF Reserve = 0 THEN {} ELSE Engines]
  /\ pc[t] = "recheck" => "no" \in IsReady(work[t].model)
  /\ held' = held /\ oob' = oob

\* An engine is asked what it has.
Lists(t, e, listed) ==
  LET left == work[t].ask \ {e}
      slice == work[t].slice - Bytes([m \in listed |-> Estimate(m)])
  IN  /\ work'[t] = [work[t] EXCEPT !.ask = left, !.slice = slice,
                       !.budget = IF left = {} THEN GreaterOf(@, slice) ELSE @]
      /\ pc'[t] = IF left # {} THEN pc[t]
                  ELSE IF pc[t] = "reserve" THEN "decide" ELSE "evict"

Asks(t) ==
  /\ pc[t] \in {"reserve", "evictReserve"}
  /\ \E e \in work[t].ask : \E listed \in Resident(e) : Lists(t, e, listed)
  /\ held' = held /\ oob' = oob

\* The estimate is compared with the budget.
Decides(t) ==
  LET m == work[t].model
      evicting == Estimate(m) > work[t].budget /\ AutoEvict
  IN  /\ pc[t] = "decide"
      /\ pc'[t] = IF evicting THEN "evictMeasure" ELSE "admit"
      /\ work'[t] = [work[t] EXCEPT !.needed = Estimate(m),
                       !.todo = IF evicting THEN Without(lastUsed, m) ELSE Empty]
      /\ held' = held /\ oob' = oob

\* A candidate is picked, or the pass is over.
Picks(t) ==
  /\ pc[t] = "evict" /\ ~ EvictOver(t) /\ pc'[t] = "victim"
  /\ \E v \in DOMAIN work[t].todo :
       work'[t] = [work[t] EXCEPT !.victim = v, !.todo = Without(@, v)]
  /\ held' = held /\ oob' = oob

Stops(t) ==
  /\ pc[t] = "evict" /\ EvictOver(t) /\ pc'[t] = "admit"
  /\ work'[t] = [work[t] EXCEPT !.free = FreeNow, !.todo = Empty, !.victim = None]
  /\ held' = held /\ oob' = oob

\* The victim is found gone, found there, or unloaded.
Evicts(t) ==
  /\ work'[t] = work[t] /\ oob' = oob
  /\ \/ /\ pc[t] = "victim" /\ pc'[t] = "evict"
        /\ "no" \in IsReady(work[t].victim) /\ held' = held
     \/ pc[t] = "victim" /\ pc'[t] = "evictUnload" /\ held' = held
     \/ /\ pc[t] = "evictUnload" /\ pc'[t] = "settle"
        /\ held' = Without(held, work[t].victim)

\* The load is admitted, sent to claim memory, or refused.
Admits(t) ==
  /\ pc[t] = "admit" /\ work'[t] = work[t]
  /\ held' = held /\ oob' = oob
  /\ \/ pc'[t] = "load" /\ Fits(work[t])
     \/ /\ pc'[t] = "room"
        /\ work[t].needed <= work[t].budget /\ work[t].needed > work[t].free
     \/ pc'[t] = "refuse" /\ ~ Fits(work[t])

\* Memory has been claimed, or the claim failed.
Claims(t) ==
  /\ pc[t] = "room"
  /\ pc'[t] = IF work'[t].needed > work'[t].free THEN "refuse" ELSE "load"
  /\ held' = held /\ FreeNow <= FreeNow'
  /\ \/ work'[t] = [work[t] EXCEPT !.free = FreeNow']
     \/ work'[t] = work[t] /\ FreeNow' = FreeNow

\* The process that an elastic engine had is stopped.
Clears(t) ==
  /\ pc[t] = "load" /\ pc'[t] = "load" /\ work'[t] = work[t]
  /\ IsElastic(work[t].model)
  /\ held' = Restrict(held, DOMAIN held \ InEngine(EngineOf[work[t].model]))
  /\ oob' = oob

Moves(t) == \/ Measures(t) \/ Asks(t) \/ Decides(t) \/ Picks(t) \/ Stops(t)
            \/ Evicts(t) \/ Admits(t) \/ Claims(t) \/ Clears(t)

LEMMA OwnMoves ==
  ASSUME TypeOK, NEW t \in Task, Advance(t), pc'[t] \in Admitting
  PROVE  Moves(t)
<1> USE DEF Admitting, Inside, Answers
<1>1. pc \in [Task -> Points] /\ work \in [Task -> LocalsType]
  BY DEF TypeOK
<1>2. UNCHANGED card => held' = held /\ oob' = oob
  BY DEF card
<1>3. ~ (FastYes(t) \/ FastHit(t) \/ FastMiss(t) \/ FastError(t) \/ Respond(t)
          \/ EngineLoads(t))
  BY <1>1 DEF FastYes, FastHit, FastMiss, FastError, Respond, EngineLoads, GoTo, Enqueue
<1>4. ~ (RecheckYes(t) \/ RecheckError(t) \/ EvictFails(t) \/ Refuse(t) \/ LoadFails(t)
          \/ LoadAnswerLost(t) \/ LoadReturns(t) \/ ProbeFails(t) \/ UnloadFails(t))
  BY <1>1 DEF RecheckYes, RecheckError, EvictFails, Refuse, LoadFails,
       LoadAnswerLost, LoadReturns, ProbeFails, UnloadFails, Leave, GoTo
<1>5. ~ (CheckNo(t) \/ CheckYes(t) \/ Unload(t))
  BY <1>1 DEF CheckNo, CheckYes, Unload, Unloaded, GoTo
<1>6. CASE Measure(t)
  <2>1. /\ pc[t] = "recheck" /\ "no" \in IsReady(work[t].model)
        /\ pc'[t] = IF Reserve = 0 THEN "decide" ELSE "reserve"
    BY <1>1, <1>6 DEF Measure, Budgeted, GoTo
  <2>2. work'[t] = [work[t] EXCEPT !.free = FreeNow, !.budget = Budget(FreeNow),
                      !.slice = Reserve, !.ask = IF Reserve = 0 THEN {} ELSE Engines]
    BY <1>1, <1>6 DEF Measure, Budgeted, LocalsType
  <2> QED BY <1>2, <1>6, <2>1, <2>2 DEF Measure, Measures, Moves
<1>7. CASE EvictMeasure(t)
  <2>1. /\ pc[t] \in {"evictMeasure", "settle"}
        /\ pc'[t] = IF Reserve = 0 THEN "evict" ELSE "evictReserve"
    BY <1>1, <1>7 DEF EvictMeasure, Budgeted, GoTo
  <2>2. work'[t] = [work[t] EXCEPT !.budget = Budget(FreeNow), !.slice = Reserve,
                      !.ask = IF Reserve = 0 THEN {} ELSE Engines]
    BY <1>1, <1>7 DEF EvictMeasure, Budgeted, LocalsType
  <2>3. work'[t] = [work[t] EXCEPT !.free = @, !.budget = Budget(FreeNow),
                      !.slice = Reserve, !.ask = IF Reserve = 0 THEN {} ELSE Engines]
    BY <1>1, <2>2 DEF LocalsType
  <2> QED BY <1>2, <1>7, <2>1, <2>3 DEF EvictMeasure, Measures, Moves
<1>8. CASE \E e \in Engines : AskReserve(t, e)
  <2>1. PICK e \in Engines : AskReserve(t, e)
    BY <1>8
  <2>2. PICK listed \in Resident(e) :
          LET left == work[t].ask \ {e}
              slice == work[t].slice - Bytes([m \in listed |-> Estimate(m)])
          IN  work' = [work EXCEPT ![t].ask = left, ![t].slice = slice,
                         ![t].budget = IF left = {} THEN GreaterOf(@, slice) ELSE @]
    BY <2>1 DEF AskReserve
  <2> DEFINE left == work[t].ask \ {e}
  <2> DEFINE slice == work[t].slice - Bytes([m \in listed |-> Estimate(m)])
  <2>3. work'[t] = [work[t] EXCEPT !.ask = left, !.slice = slice,
                      !.budget = IF left = {} THEN GreaterOf(@, slice) ELSE @]
    BY <1>1, <2>2
  <2>4. /\ pc[t] \in {"reserve", "evictReserve"} /\ e \in work[t].ask
        /\ pc'[t] = IF left # {} THEN pc[t]
                    ELSE IF pc[t] = "reserve" THEN "decide" ELSE "evict"
    BY <1>1, <2>1 DEF AskReserve, GoTo
  <2>5. held' = held /\ oob' = oob
    BY <1>2, <2>1 DEF AskReserve
  <2> QED BY <2>3, <2>4, <2>5 DEF Lists, Asks, Moves
<1>9. CASE Decide(t)
  <2> DEFINE evicting == Estimate(work[t].model) > work[t].budget /\ AutoEvict
  <2>1. work'[t] = [work[t] EXCEPT !.needed = Estimate(work[t].model),
                      !.todo = IF evicting THEN Without(lastUsed, work[t].model) ELSE Empty]
    BY <1>1, <1>9 DEF Decide
  <2>2. pc[t] = "decide" /\ pc'[t] = IF evicting THEN "evictMeasure" ELSE "admit"
    BY <1>1, <1>9 DEF Decide, GoTo
  <2> QED BY <1>2, <1>9, <2>1, <2>2 DEF Decide, Decides, Moves
<1>10. CASE EvictNext(t)
  <2>1. PICK v \in Oldest(work[t].todo) :
          work' = [work EXCEPT ![t].victim = v, ![t].todo = Without(@, v)]
    BY <1>10 DEF EvictNext
  <2>2. v \in DOMAIN work[t].todo
    BY DEF Oldest
  <2>3. work'[t] = [work[t] EXCEPT !.victim = v, !.todo = Without(@, v)]
    BY <1>1, <2>1
  <2>4. pc[t] = "evict" /\ ~ EvictOver(t) /\ pc'[t] = "victim"
    BY <1>1, <1>10 DEF EvictNext, GoTo
  <2> QED BY <1>2, <1>10, <2>2, <2>3, <2>4 DEF EvictNext, Picks, Moves
<1>11. CASE EvictDone(t)
  <2>1. work'[t] = [work[t] EXCEPT !.free = FreeNow, !.todo = Empty, !.victim = None]
    BY <1>1, <1>11 DEF EvictDone
  <2>2. pc[t] = "evict" /\ EvictOver(t) /\ pc'[t] = "admit"
    BY <1>1, <1>11 DEF EvictDone, GoTo
  <2> QED BY <1>2, <1>11, <2>1, <2>2 DEF EvictDone, Stops, Moves
<1>12. CASE VictimGone(t) \/ VictimUp(t) \/ EvictUnload(t)
  BY <1>1, <1>2, <1>12 DEF VictimGone, VictimUp, EvictUnload, GoTo, Evicts, Moves
<1>13. CASE AdmitLoad(t) \/ AdmitRoom(t) \/ AdmitRefuse(t)
  BY <1>1, <1>2, <1>13 DEF AdmitLoad, AdmitRoom, AdmitRefuse, GoTo, Admits, Moves
<1>14. CASE StopOccupant(t)
  BY <1>1, <1>14 DEF StopOccupant, Occupied, Clears, Moves
<1>15. CASE RoomMade(t)
  <2>1. PICK level \in {l \in OobLevels : l <= oob}, failed \in BOOLEAN :
          /\ failed => level = oob
          /\ oob' = level
          /\ LET free == IF failed THEN work[t].free ELSE Free(held, level)
             IN  /\ work' = [work EXCEPT ![t].free = free]
                 /\ GoTo(t, IF work[t].needed > free THEN "refuse" ELSE "load")
    BY <1>15 DEF RoomMade, Paged
  <2> DEFINE free == IF failed THEN work[t].free ELSE Free(held, level)
  <2>2. held' = held /\ pc[t] = "room"
    BY <1>15 DEF RoomMade
  <2>3. Free(held, level) = FreeNow'
    BY <2>1, <2>2 DEF FreeNow
  <2>4. FreeNow <= FreeNow'
    BY <2>1, <2>2, ByteCountSum, OrchestratorAssumption, VramAssumption
    DEF TypeOK, FreeNow, Free
  <2>5. work'[t] = [work[t] EXCEPT !.free = free]
    BY <1>1, <2>1
  <2>6. work'[t].free = free /\ work'[t].needed = work[t].needed
    BY <1>1, <2>5 DEF LocalsType
  <2>7. pc'[t] = IF work'[t].needed > work'[t].free THEN "refuse" ELSE "load"
    BY <1>1, <2>1, <2>6 DEF GoTo
  <2>8. CASE failed
    <3>1. FreeNow' = FreeNow
      BY <2>1, <2>2, <2>8 DEF FreeNow
    <3>2. work'[t] = work[t]
      BY <1>1, <2>5, <2>8 DEF LocalsType
    <3> QED BY <2>2, <2>4, <2>7, <3>1, <3>2 DEF Claims, Moves
  <2>9. CASE ~ failed
    BY <2>2, <2>3, <2>4, <2>5, <2>7, <2>9 DEF Claims, Moves
  <2> QED BY <2>8, <2>9
<1> QED BY <1>3, <1>4, <1>5, <1>6, <1>7, <1>8, <1>9, <1>10, <1>11, <1>12, <1>13, <1>14,
           <1>15 DEF Advance

\* Estimates are learned when a load returns, and at no other time.
LEMMA LearnsOnReturn ==
  ASSUME [Next]_vars
  PROVE  learned' = learned \/ \E t \in Task : LoadReturns(t)
<1>1. ASSUME NEW t \in Task, Advance(t) PROVE learned' = learned \/ LoadReturns(t)
  <2>1. CASE FastYes(t) \/ FastHit(t) \/ FastMiss(t) \/ FastError(t) \/ Respond(t)
    BY <2>1 DEF FastYes, FastHit, FastMiss, FastError, Respond
  <2>2. CASE RecheckYes(t) \/ RecheckError(t) \/ EvictFails(t) \/ Refuse(t) \/ LoadFails(t)
             \/ LoadAnswerLost(t) \/ ProbeFails(t) \/ UnloadFails(t)
    BY <2>2 DEF RecheckYes, RecheckError, EvictFails, Refuse, LoadFails, LoadAnswerLost,
         ProbeFails, UnloadFails
  <2>3. CASE Measure(t) \/ EvictMeasure(t) \/ \E e \in Engines : AskReserve(t, e)
    BY <2>3 DEF Measure, EvictMeasure, AskReserve
  <2>4. CASE Decide(t) \/ EvictNext(t) \/ EvictDone(t) \/ VictimGone(t) \/ VictimUp(t)
             \/ EvictUnload(t) \/ CheckNo(t) \/ CheckYes(t) \/ Unload(t)
    BY <2>4 DEF Decide, EvictNext, EvictDone, VictimGone, VictimUp, EvictUnload, CheckNo,
         CheckYes, Unload
  <2>5. CASE AdmitLoad(t) \/ AdmitRoom(t) \/ AdmitRefuse(t) \/ RoomMade(t)
             \/ StopOccupant(t) \/ EngineLoads(t)
    BY <2>5 DEF AdmitLoad, AdmitRoom, AdmitRefuse, RoomMade, StopOccupant, EngineLoads
  <2> QED BY <1>1, <2>1, <2>2, <2>3, <2>4, <2>5 DEF Advance
<1>2. CASE Sweep
  BY <1>2 DEF Sweep, StartSweep, SweepNext, EndSweep, Adopt
<1>3. CASE Arrive
  BY <1>3 DEF Arrive, EnsureReady, UnloadModel
<1>4. CASE Box \/ UNCHANGED vars
  BY <1>4 DEF Box, Tick, OobMoves, EngineDrops, DirectLoad, vars
<1> QED BY <1>1, <1>2, <1>3, <1>4 DEF Next

\* While a call is on its way to its engine no estimate changes.
LEMMA NothingLearned ==
  ASSUME TypeOK, Lock, [Next]_vars, NEW t \in Task, pc[t] \in Admitting \cup {"recheck"},
         pc'[t] \in Admitting
  PROVE  learned' = learned
<1> USE DEF Admitting, Inside
<1> SUFFICES ASSUME NEW u \in Task, LoadReturns(u) PROVE FALSE
  BY LearnsOnReturn
<1>1. pc[u] = "loaded" /\ pc \in [Task -> Points] /\ pc'[u] = "url"
  BY DEF LoadReturns, Leave, GoTo, TypeOK
<1>2. u # t
  BY <1>1
<1>3. pc'[t] = pc[t]
  BY <1>1, <1>2 DEF LoadReturns, Leave, GoTo, TypeOK
<1>4. pc[t] \in Inside
  BY <1>3
<1> QED BY <1>1, <1>2, <1>4, Exclusive

\* Whatever a step of the tasks is, a task that is on its way to its engine after
\* it made such a move, or was left alone.
LEMMA Underway ==
  ASSUME TypeOK, Lock, NEW t \in Task, pc'[t] \in Admitting,
         (\E u \in Task : Advance(u)) \/ Sweep \/ Arrive
  PROVE  /\ \/ Moves(t)
            \/ /\ pc[t] \in Admitting /\ pc'[t] = pc[t] /\ work'[t] = work[t]
               /\ held' = held /\ oob' = oob
         /\ pc[t] \in Admitting \cup {"recheck"}
         /\ learned' = learned
<1> USE DEF Admitting, Inside
<1>1. ASSUME NEW u \in Task, Advance(u), u # t
      PROVE  /\ pc[t] \in Admitting /\ pc'[t] = pc[t] /\ work'[t] = work[t]
             /\ held' = held /\ oob' = oob
  BY <1>1, OnlyOwnMove, OthersHarmless DEF Harmless
<1>2. CASE Sweep
  BY <1>2, SweepHarmless, NothingLearned DEF Harmless, Next
<1>3. CASE Arrive
  BY <1>3, ArriveHarmless, NothingLearned DEF Harmless, Next
<1>4. Moves(t) => pc[t] \in Admitting \cup {"recheck"}
  BY DEF Moves, Measures, Asks, Decides, Picks, Stops, Evicts, Admits, Claims, Clears
<1>5. CASE \E u \in Task : Advance(u)
  BY <1>1, <1>4, <1>5, OwnMoves, NothingLearned DEF Next
<1> QED BY <1>2, <1>3, <1>5

(***************************************************************************)
(* No needless eviction.                                                   *)
(***************************************************************************)
\* The figures of a task are numbers.
LEMMA Figures ==
  ASSUME TypeOK, NEW t \in Task
  PROVE  /\ work[t] \in LocalsType
         /\ work[t].needed \in Nat /\ work[t].budget \in Nat
         /\ work[t].free \in Int /\ work[t].slice \in Int
         /\ FreeNow \in Int /\ FreeNow >= 0 /\ Budget(FreeNow) \in Nat
BY FreeType, BudgetType DEF TypeOK, FreeNow, LocalsType

LEMMA FiguresAfter ==
  ASSUME TypeOK', NEW t \in Task
  PROVE  /\ work'[t].needed \in Nat /\ work'[t].budget \in Nat
         /\ work'[t].free \in Int /\ work'[t].slice \in Int
         /\ FreeNow' \in Int /\ FreeNow' >= 0 /\ Budget(FreeNow') \in Nat
<1>1. IsByteCount(held') /\ oob' \in OobLevels /\ FreeNow' >= 0
  BY DEF TypeOK, IsByteCount
<1>2. FreeNow' \in Int
  BY <1>1, FreeType DEF FreeNow
<1> QED BY <1>1, <1>2, BudgetType DEF TypeOK, LocalsType

\* More that is free is no smaller a budget, and a budget is free.
LEMMA BudgetGrows ==
  ASSUME NEW a \in Int, NEW b \in Int, a <= b
  PROVE  Budget(a) <= Budget(b)
BY VramAssumption DEF Budget

LEMMA BudgetIsFree ==
  ASSUME NEW a \in Int, a >= 0
  PROVE  Budget(a) <= a /\ (Budget(a) > 0 => Budget(a) = a - Buffer)
BY VramAssumption DEF Budget

\* An answer about residents can only raise the budget, and the last one does if
\* there is slice left.
LEMMA AsksEffect ==
  ASSUME TypeOK, TypeOK', NEW t \in Task, Asks(t)
  PROVE  \E e \in work[t].ask : \E listed \in Resident(e) :
           /\ pc[t] \in {"reserve", "evictReserve"}
           /\ pc'[t] \in {pc[t], IF pc[t] = "reserve" THEN "decide" ELSE "evict"}
           /\ pc'[t] = pc[t] <=> work'[t].ask # {}
           /\ work'[t].ask = work[t].ask \ {e}
           /\ work'[t].slice = work[t].slice - Bytes([m \in listed |-> Estimate(m)])
           /\ \/ work'[t].budget = work[t].budget
              \/ work'[t].ask = {} /\ work'[t].budget = work'[t].slice
           /\ work[t].budget <= work'[t].budget /\ work'[t].budget \in Nat
           /\ work'[t].needed = work[t].needed /\ work'[t].free = work[t].free
           /\ work'[t].model = work[t].model /\ work'[t].todo = work[t].todo
           /\ held' = held /\ oob' = oob
<1>1. PICK e \in work[t].ask : \E listed \in Resident(e) : Lists(t, e, listed)
  BY DEF Asks
<1>2. PICK listed \in Resident(e) : Lists(t, e, listed)
  BY <1>1
<1> DEFINE left == work[t].ask \ {e}
<1> DEFINE slice == work[t].slice - Bytes([m \in listed |-> Estimate(m)])
<1>3. work[t] \in LocalsType /\ work[t].budget \in Nat
  BY Figures
<1>4. /\ work'[t].ask = left /\ work'[t].slice = slice
      /\ work'[t].budget = IF left = {} THEN GreaterOf(work[t].budget, slice)
                           ELSE work[t].budget
      /\ work'[t].needed = work[t].needed /\ work'[t].free = work[t].free
      /\ work'[t].model = work[t].model /\ work'[t].todo = work[t].todo
  BY <1>2, <1>3 DEF Lists, LocalsType
<1>5. slice \in Int /\ work'[t].budget \in Nat
  BY <1>4, FiguresAfter
<1>6. /\ work[t].budget <= work'[t].budget
      /\ \/ work'[t].budget = work[t].budget
         \/ work'[t].ask = {} /\ work'[t].budget = work'[t].slice
  BY <1>3, <1>4, <1>5 DEF GreaterOf
<1>7. /\ pc[t] \in {"reserve", "evictReserve"} /\ held' = held /\ oob' = oob
      /\ pc'[t] = IF left # {} THEN pc[t]
                  ELSE IF pc[t] = "reserve" THEN "decide" ELSE "evict"
  BY <1>2 DEF Asks, Lists
<1> QED BY <1>4, <1>5, <1>6, <1>7

\* What an eviction is decided by is no less than the budget is now, and the
\* victim is needed.
Tight(t) ==
  /\ pc[t] \in {"evictReserve", "evict", "victim", "evictUnload"} =>
       Budget(FreeNow) <= work[t].budget
  /\ pc[t] \in {"victim", "evictUnload"} => work[t].needed > work[t].budget

LEMMA TightMoves ==
  ASSUME TypeOK, TypeOK', NEW t \in Task, Moves(t), Tight(t)
  PROVE  Tight(t)'
<1>1. /\ work[t] \in LocalsType
      /\ work[t].needed \in Nat /\ work[t].budget \in Nat /\ Budget(FreeNow) \in Nat
  BY Figures
<1>2. held' = held /\ oob' = oob => FreeNow' = FreeNow
  BY DEF FreeNow
<1>3. CASE Measures(t)
  BY <1>1, <1>2, <1>3 DEF Measures, Tight, LocalsType
<1>4. CASE Asks(t)
  <2>1. /\ pc[t] \in {"reserve", "evictReserve"}
        /\ pc'[t] \in {pc[t], IF pc[t] = "reserve" THEN "decide" ELSE "evict"}
        /\ work[t].budget <= work'[t].budget /\ work'[t].budget \in Nat
        /\ FreeNow' = FreeNow
    BY <1>2, <1>4, AsksEffect
  <2> QED BY <1>1, <2>1 DEF Tight
<1>5. CASE Picks(t)
  <2>1. work'[t].budget = work[t].budget /\ work'[t].needed = work[t].needed
    BY <1>1, <1>5 DEF Picks, LocalsType
  <2> QED BY <1>1, <1>2, <1>5, <2>1 DEF Picks, EvictOver, Tight
<1>6. CASE Evicts(t)
  BY <1>2, <1>6 DEF Evicts, Tight
<1>7. CASE Decides(t) \/ Stops(t) \/ Admits(t) \/ Claims(t) \/ Clears(t)
  BY <1>7 DEF Decides, Stops, Admits, Claims, Clears, Tight
<1> QED BY <1>3, <1>4, <1>5, <1>6, <1>7 DEF Moves

\* Where nothing is freed but by coload itself, a model is evicted only while the
\* one that it makes way for does not fit: neither a failed pass, nor the await
\* between the choice of a victim and its unload, takes a model down for nothing.
THEOREM NoNeedlessEvictionAlways ==
  ASSUME "oob" \notin Faults, "drop" \notin Faults
  PROVE  Spec => NoNeedlessEviction
<1> DEFINE Inv == \A t \in Task : Tight(t)
<1> DEFINE Due == \A t \in Clients : pc[t] = "evictUnload" /\ pc'[t] = "settle"
                    => work[t].needed > Budget(FreeNow)
<1>1. Init => Inv
  BY DEF Init, FreshPc, Tight, Task
<1>2. TypeOK /\ TypeOK' /\ Lock /\ Inv /\ [Next]_vars => Inv'
  <2> SUFFICES ASSUME TypeOK, TypeOK', Lock, Inv, [Next]_vars, NEW t \in Task
               PROVE  Tight(t)'
    OBVIOUS
  <2>1. CASE UNCHANGED vars
    BY <2>1 DEF vars, card, Tight, FreeNow
  <2>2. CASE Box
    <3>1. FreeNow' <= FreeNow
      <4>1. CASE Tick
        BY <4>1, Figures DEF Tick, card, FreeNow
      <4>2. CASE DirectLoad
        <5>1. PICK m \in Models \ DOMAIN held : held' = Put(held, m, Footprint(m, 0))
          BY <4>2 DEF DirectLoad
        <5>2. CardOK
          BY TypeParts
        <5>3. Footprint(m, 0) \in Nat
          BY <5>2, FootprintType
        <5>4. FreeNow' = FreeNow - Footprint(m, 0)
          BY <4>2, <5>1, <5>3, FreePut DEF DirectLoad, FreeNow, TypeOK
        <5> QED BY <5>3, <5>4, Figures
      <4> QED BY <2>2, <4>1, <4>2 DEF Box, OobMoves, EngineDrops
    <3>2. FreeNow \in Int /\ FreeNow' \in Int
      BY Figures, FiguresAfter
    <3>3. Budget(FreeNow') <= Budget(FreeNow)
      BY <3>1, <3>2, BudgetGrows
    <3>4. pc' = pc /\ work' = work
      BY <2>2 DEF Box, Tick, OobMoves, EngineDrops, DirectLoad
    <3>5. /\ Budget(FreeNow) \in Nat /\ Budget(FreeNow)' \in Nat
          /\ Budget(FreeNow)' = Budget(FreeNow') /\ work[t].budget \in Nat
      BY Figures, FiguresAfter DEF Budget
    <3> QED BY <3>3, <3>4, <3>5 DEF Tight
  <2>3. CASE (\E u \in Task : Advance(u)) \/ Sweep \/ Arrive
    <3>1. CASE pc'[t] \notin Admitting
      BY <3>1 DEF Tight, Admitting, Inside
    <3>2. CASE Moves(t)
      BY <3>2, TightMoves
    <3>3. CASE pc'[t] = pc[t] /\ work'[t] = work[t] /\ held' = held /\ oob' = oob
      BY <3>3 DEF Tight, FreeNow
    <3> QED BY <2>3, <3>1, <3>2, <3>3, Underway
  <2> QED BY <2>1, <2>2, <2>3 DEF Next
<1>3. TypeOK /\ Inv => Due
  <2> SUFFICES ASSUME TypeOK, Inv, NEW t \in Clients, pc[t] = "evictUnload"
               PROVE  work[t].needed > Budget(FreeNow)
    OBVIOUS
  <2>1. t \in Task
    BY DEF Task
  <2> QED BY <2>1, Figures DEF Tight
<1> HIDE DEF Inv
<1>4. TypeOK /\ Inv /\ [Next]_vars => [Due]_vars
  BY <1>3
<1> QED BY <1>1, <1>2, <1>4, TypeInvariant, LockInvariant, PTL DEF Spec, NoNeedlessEviction

(***************************************************************************)
(* Under the line.                                                         *)
(***************************************************************************)
\* No reserve, a card that only coload adds to and only coload frees, and
\* estimates that are no smaller than what an Ollama model needs.
Undisturbed ==
  /\ Reserve = 0
  /\ Faults \cap {"oob", "direct", "drop"} = {}
  /\ \A m \in Models : ~ IsElastic(m) => Size[m] <= Seed[m]

\* The points that a call reaches once it has its estimate.
Decided == {"evictMeasure", "evictReserve", "evict", "victim", "evictUnload", "settle",
            "admit", "room", "load", "refuse"}

\* The budget in hand is still there; it covers what the model needs once the
\* load is admitted; the estimate covers the weights; the measurement that the
\* load is learned from is no smaller than what is free, and once an Ollama has
\* loaded the difference covers the weights.
Lined(t) ==
  LET w == work[t]
      m == w.model
  IN  /\ pc[t] \notin {"reserve", "evictReserve"}
      /\ pc[t] \in Admitting => w.budget <= Budget(FreeNow)
      /\ pc[t] \in Admitting /\ ~ IsElastic(m) => m \notin DOMAIN held
      /\ pc[t] \in {"room", "load"} => w.needed <= w.budget
      /\ pc[t] \in Decided => w.needed > 0 /\ (~ IsElastic(m) => Size[m] <= w.needed)
      /\ pc[t] \in {"decide", "admit", "room", "load"} /\ ~ IsElastic(m) => FreeNow <= w.free
      /\ pc[t] = "loaded" /\ ~ IsElastic(m) => Size[m] <= w.free - FreeNow

\* What is learned is learned of Ollama's models, and covers their weights.
Learnt == \A m \in DOMAIN learned : ~ IsElastic(m) /\ Size[m] <= learned[m]

\* So every estimate is positive, and covers the weights of an Ollama model.
LEMMA EstimateCovers ==
  ASSUME TypeOK, Learnt, Undisturbed, NEW m \in Models
  PROVE  /\ Estimate(m) \in Nat /\ Estimate(m) > 0
         /\ ~ IsElastic(m) => Size[m] <= Estimate(m)
<1>1. Size[m] \in Nat \ {0} /\ Seed[m] \in Nat \ {0}
  BY OrchestratorAssumption
<1>2. Estimate(m) \in Nat
  BY EstimateType, TypeParts
<1> QED BY <1>1, <1>2 DEF Estimate, Learnt, Undisturbed

\* A model of an Ollama that says "no" is not resident.
LEMMA NoMeansGone ==
  ASSUME NEW m, ~ IsElastic(m), "no" \in IsReady(m)
  PROVE  m \notin DOMAIN held
BY DEF IsReady

\* An engine that lets go leaves at least as large a budget.
LEMMA BudgetWithout ==
  ASSUME TypeOK, NEW E \in SUBSET DOMAIN held, held' = Restrict(held, E), oob' = oob
  PROVE  /\ DOMAIN held' \subseteq DOMAIN held
         /\ FreeNow' \in Int /\ FreeNow <= FreeNow' /\ Budget(FreeNow) <= Budget(FreeNow')
         /\ Budget(FreeNow') \in Nat
<1>1. FreeNow \in Int
  BY FreeType DEF TypeOK, FreeNow
<1>2. IsByteCount(held')
  BY ByteCountRestrict DEF TypeOK
<1>3. FreeNow' \in Int
  BY <1>2, FreeType DEF TypeOK, FreeNow
<1>4. DOMAIN held' \subseteq DOMAIN held /\ FreeNow <= FreeNow'
  BY FreeWithout
<1> QED BY <1>1, <1>3, <1>4, BudgetGrows, BudgetType

LEMMA LinedMoves ==
  ASSUME TypeOK, TypeOK', Undisturbed, Learnt, NEW t \in Task, Moves(t), Lined(t)
  PROVE  Lined(t)'
<1> USE DEF Admitting, Inside, Decided
<1>1. /\ work[t] \in LocalsType
      /\ work[t].needed \in Nat /\ work[t].budget \in Nat /\ work[t].free \in Int
      /\ FreeNow \in Int /\ FreeNow >= 0 /\ Budget(FreeNow) \in Nat
  BY Figures
<1>2. /\ work'[t].needed \in Nat /\ work'[t].budget \in Nat /\ work'[t].free \in Int
      /\ FreeNow' \in Int /\ FreeNow' >= 0 /\ Budget(FreeNow') \in Nat
  BY FiguresAfter
<1>3. held' = held /\ oob' = oob => FreeNow' = FreeNow
  BY DEF FreeNow
<1>4. Budget(FreeNow)' = Budget(FreeNow') /\ (\A m : IsElastic(m)' <=> IsElastic(m))
  BY DEF Budget, IsElastic
<1>5. CASE Measures(t)
  <2>1. /\ work'[t].budget = Budget(FreeNow) /\ work'[t].model = work[t].model
        /\ work'[t].needed = work[t].needed
        /\ pc[t] = "recheck" => work'[t].free = FreeNow
    BY <1>1, <1>5 DEF Measures, LocalsType
  <2>2. /\ \/ pc[t] = "recheck" /\ pc'[t] = "decide" /\ "no" \in IsReady(work[t].model)
           \/ pc[t] \in {"evictMeasure", "settle"} /\ pc'[t] = "evict"
        /\ held' = held /\ FreeNow' = FreeNow
    BY <1>3, <1>5 DEF Measures, Undisturbed
  <2> QED BY <1>1, <1>2, <1>4, <2>1, <2>2, NoMeansGone DEF Lined
<1>6. CASE Asks(t)
  BY <1>6 DEF Asks, Lined
<1>7. CASE Decides(t)
  <2>1. work[t].model \in Models /\ pc[t] = "decide" /\ held' = held /\ FreeNow' = FreeNow
    BY <1>3, <1>7 DEF Decides, TypeOK, Asking, AtDoor
  <2>2. /\ work'[t].needed = Estimate(work[t].model) /\ work'[t].model = work[t].model
        /\ work'[t].budget = work[t].budget /\ work'[t].free = work[t].free
    BY <1>1, <1>7 DEF Decides, LocalsType
  <2>3. pc'[t] \in {"evictMeasure", "admit"}
    BY <1>7 DEF Decides
  <2>4. /\ work'[t].needed > 0
        /\ ~ IsElastic(work[t].model) => Size[work[t].model] <= work'[t].needed
    BY <2>1, <2>2, EstimateCovers
  <2> QED BY <1>1, <1>4, <2>1, <2>2, <2>3, <2>4 DEF Lined
<1>8. CASE Picks(t)
  <2>1. /\ work'[t].needed = work[t].needed /\ work'[t].model = work[t].model
        /\ work'[t].budget = work[t].budget
    BY <1>1, <1>8 DEF Picks, LocalsType
  <2> QED BY <1>1, <1>3, <1>4, <1>8, <2>1 DEF Picks, Lined
<1>9. CASE Stops(t)
  <2>1. /\ work'[t].needed = work[t].needed /\ work'[t].model = work[t].model
        /\ work'[t].budget = work[t].budget /\ work'[t].free = FreeNow
    BY <1>1, <1>9 DEF Stops, LocalsType
  <2> QED BY <1>1, <1>3, <1>4, <1>9, <2>1 DEF Stops, Lined
<1>10. CASE Evicts(t)
  <2>1. CASE held' = held
    BY <1>1, <1>3, <1>4, <1>10, <2>1 DEF Evicts, Lined
  <2>2. CASE /\ pc[t] = "evictUnload" /\ pc'[t] = "settle"
             /\ held' = Without(held, work[t].victim)
    <3>1. DOMAIN held' \subseteq DOMAIN held /\ Budget(FreeNow) <= Budget(FreeNow')
      BY <1>10, <2>2, BudgetWithout DEF Evicts, Without
    <3> QED BY <1>1, <1>2, <1>4, <1>10, <2>2, <3>1 DEF Evicts, Lined
  <2> QED BY <1>10, <2>1, <2>2 DEF Evicts
<1>11. CASE Admits(t)
  BY <1>1, <1>3, <1>4, <1>11 DEF Admits, Fits, Lined
<1>12. CASE Claims(t)
  <2>2. /\ work'[t].needed = work[t].needed /\ work'[t].model = work[t].model
        /\ work'[t].budget = work[t].budget
        /\ work'[t].free = FreeNow' \/ (work'[t].free = work[t].free /\ FreeNow' = FreeNow)
    BY <1>1, <1>12 DEF Claims, LocalsType
  <2>3. /\ pc[t] = "room" /\ pc'[t] \in {"load", "refuse"}
        /\ held' = held /\ FreeNow <= FreeNow'
    BY <1>12 DEF Claims
  <2>4. Budget(FreeNow) <= Budget(FreeNow')
    BY <1>1, <1>2, <2>3, BudgetGrows
  <2> QED BY <1>1, <1>2, <1>4, <2>2, <2>3, <2>4 DEF Lined
<1>13. CASE Clears(t)
  <2>1. DOMAIN held' \subseteq DOMAIN held /\ Budget(FreeNow) <= Budget(FreeNow')
    BY <1>13, BudgetWithout DEF Clears
  <2> QED BY <1>1, <1>2, <1>4, <1>13, <2>1 DEF Clears, Lined
<1> QED BY <1>5, <1>6, <1>7, <1>8, <1>9, <1>10, <1>11, <1>12, <1>13 DEF Moves

\* What an engine does to the card when it loads: it takes what it was handed, or
\* what the weights need, and the card stays under the line.
LEMMA EngineTakes ==
  ASSUME TypeOK, Undisturbed, NEW t \in Task, EngineLoads(t), Lined(t)
  PROVE  LET m == work[t].model
             n == IF IsElastic(m) THEN Granted(work[t].needed) ELSE Size[m]
         IN  /\ m \in Models /\ m \notin DOMAIN held /\ n \in Nat
             /\ held' = Put(held, m, n)
             /\ FreeNow' = FreeNow - n
             /\ 2 * (Buffer - FreeNow') <= Grain
             /\ ~ IsElastic(m) => Size[m] <= work[t].free - FreeNow'
<1> DEFINE m == work[t].model
<1> DEFINE n == IF IsElastic(m) THEN Granted(work[t].needed) ELSE Size[m]
<1> USE DEF Admitting, Inside, Decided
<1>1. /\ work[t].needed \in Nat /\ work[t].budget \in Nat /\ work[t].free \in Int
      /\ FreeNow \in Int /\ FreeNow >= 0 /\ Budget(FreeNow) \in Nat
  BY Figures
<1>2. pc[t] = "load" /\ m \in Models /\ Size[m] \in Nat
  BY OrchestratorAssumption DEF EngineLoads, TypeOK, Asking
<1>3. m \notin DOMAIN held
  <2>1. CASE IsElastic(m)
    BY <2>1 DEF EngineLoads, Occupied, InEngine
  <2>2. CASE ~ IsElastic(m)
    BY <1>2, <2>2 DEF Lined
  <2> QED BY <2>1, <2>2
<1>4. /\ work[t].needed > 0 /\ work[t].needed <= work[t].budget
      /\ work[t].budget <= Budget(FreeNow)
      /\ ~ IsElastic(m) => Size[m] <= work[t].needed /\ FreeNow <= work[t].free
  BY <1>2 DEF Lined
<1>5. /\ Budget(FreeNow) = FreeNow - Buffer /\ work[t].needed <= FreeNow - Buffer
      /\ Buffer \in Nat
  BY <1>1, <1>4, BudgetIsFree, VramAssumption
<1>6. Handed(work[t]) = work[t].needed
  BY <1>1, <1>4 DEF Handed, LesserOf
<1>7. Footprint(m, Handed(work[t])) = n /\ n \in Nat
  <2>1. CASE IsElastic(m)
    BY <1>1, <1>6, <2>1, GrantedType DEF Footprint
  <2>2. CASE ~ IsElastic(m)
    BY <1>1, <1>2, <1>4, <1>5, <2>2 DEF Footprint, LesserOf
  <2> QED BY <2>1, <2>2
<1>8. held' = Put(held, m, n) /\ oob' = oob
  BY <1>3, <1>7 DEF EngineLoads, Allocate
<1>9. FreeNow' = FreeNow - n
  BY <1>2, <1>3, <1>7, <1>8, FreePut DEF FreeNow, TypeOK
<1>10. 2 * (n - work[t].needed) <= Grain
  <2>1. CASE IsElastic(m)
    BY <1>1, <2>1, GrantedRounds
  <2>2. CASE ~ IsElastic(m)
    BY <1>1, <1>2, <1>4, <2>2, VramAssumption
  <2> QED BY <2>1, <2>2
<1>11. 2 * (Buffer - FreeNow') <= Grain
  <2> HIDE DEF n
  <2> QED BY <1>1, <1>5, <1>7, <1>9, <1>10, VramAssumption
<1>12. ~ IsElastic(m) => Size[m] <= work[t].free - FreeNow'
  BY <1>1, <1>2, <1>4, <1>9
<1> QED BY <1>2, <1>3, <1>7, <1>8, <1>9, <1>11, <1>12

\* A task that has just had its model loaded, and one that waits for the answer.
LEMMA LoadedBy ==
  ASSUME TypeOK, NEW t \in Task, Advance(t), pc'[t] = "loaded"
  PROVE  EngineLoads(t)
<1>1. pc \in [Task -> Points]
  BY DEF TypeOK
<1>2. ~ (FastYes(t) \/ FastHit(t) \/ FastMiss(t) \/ FastError(t) \/ Respond(t))
  BY <1>1 DEF FastYes, FastHit, FastMiss, FastError, Respond, GoTo, Enqueue
<1>3. ~ (RecheckYes(t) \/ RecheckError(t) \/ EvictFails(t) \/ Refuse(t) \/ LoadFails(t)
          \/ LoadAnswerLost(t) \/ LoadReturns(t) \/ ProbeFails(t) \/ UnloadFails(t))
  BY <1>1 DEF RecheckYes, RecheckError, EvictFails, Refuse, LoadFails,
       LoadAnswerLost, LoadReturns, ProbeFails, UnloadFails, Leave, GoTo
<1>4. ~ (CheckNo(t) \/ CheckYes(t) \/ Unload(t))
  BY <1>1 DEF CheckNo, CheckYes, Unload, Unloaded, GoTo
<1>5. ~ (Measure(t) \/ EvictMeasure(t) \/ \E e \in Engines : AskReserve(t, e))
  BY <1>1 DEF Measure, EvictMeasure, AskReserve, Budgeted, GoTo
<1>6. ~ (Decide(t) \/ EvictNext(t) \/ EvictDone(t) \/ VictimGone(t) \/ VictimUp(t)
          \/ EvictUnload(t))
  BY <1>1 DEF Decide, EvictNext, EvictDone, VictimGone, VictimUp, EvictUnload, GoTo
<1>7. ~ (AdmitLoad(t) \/ AdmitRoom(t) \/ AdmitRefuse(t) \/ RoomMade(t) \/ StopOccupant(t))
  BY <1>1 DEF AdmitLoad, AdmitRoom, AdmitRefuse, RoomMade, StopOccupant, GoTo
<1> QED BY <1>2, <1>3, <1>4, <1>5, <1>6, <1>7 DEF Advance

LEMMA Waiting ==
  ASSUME TypeOK, Lock, NEW t \in Task, pc'[t] = "loaded",
         (\E u \in Task : Advance(u)) \/ Sweep \/ Arrive
  PROVE  \/ EngineLoads(t)
         \/ pc[t] = "loaded" /\ work'[t] = work[t] /\ held' = held /\ oob' = oob
<1>1. ASSUME NEW u \in Task, Advance(u), u # t
      PROVE  pc[t] = "loaded" /\ work'[t] = work[t] /\ held' = held /\ oob' = oob
  <2>1. pc'[t] = pc[t] /\ work'[t] = work[t]
    BY <1>1, OnlyOwnMove
  <2>2. pc[t] \in Inside
    BY <2>1 DEF Inside
  <2> QED BY <1>1, <2>1, <2>2, OthersHarmless DEF Harmless
<1>2. CASE Sweep
  BY <1>2, SweepHarmless DEF Harmless, Inside
<1>3. CASE Arrive
  BY <1>3, ArriveHarmless DEF Harmless
<1> QED BY <1>1, <1>2, <1>3, LoadedBy

LEMMA LinedStep ==
  ASSUME TypeOK, TypeOK', Lock, Undisturbed, Learnt, [Next]_vars,
         NEW t \in Task, Lined(t)
  PROVE  Lined(t)'
<1>1. ASSUME pc'[t] = pc[t], work'[t] = work[t], held' = held, oob' = oob
      PROVE  Lined(t)'
  BY <1>1 DEF Lined, FreeNow, IsElastic
<1>2. CASE UNCHANGED vars \/ Box
  BY <1>1, <1>2 DEF vars, card, Box, Tick, OobMoves, EngineDrops, DirectLoad, Undisturbed
<1>3. CASE (\E u \in Task : Advance(u)) \/ Sweep \/ Arrive
  <2>1. CASE pc'[t] \in Admitting
    BY <1>1, <1>3, <2>1, Underway, LinedMoves
  <2>2. CASE pc'[t] = "loaded"
    <3>1. CASE EngineLoads(t)
      <4>1. ~ IsElastic(work[t].model) => Size[work[t].model] <= work[t].free - FreeNow'
        BY <3>1, EngineTakes
      <4>2. work' = work
        BY <3>1 DEF EngineLoads
      <4> QED BY <2>2, <4>1, <4>2 DEF Lined, Admitting, Decided, IsElastic
    <3> QED BY <1>1, <1>3, <2>2, <3>1, Waiting
  <2>3. CASE pc'[t] \notin Admitting \cup {"loaded"}
    BY <2>3 DEF Lined, Admitting, Inside, Decided
  <2> QED BY <2>1, <2>2, <2>3
<1> QED BY <1>2, <1>3 DEF Next

LEMMA LearntStep ==
  ASSUME TypeOK, [Next]_vars, Learnt, \A t \in Task : Lined(t)
  PROVE  Learnt'
<1>1. CASE learned' = learned
  BY <1>1 DEF Learnt, IsElastic
<1>2. ASSUME NEW t \in Task, LoadReturns(t) PROVE Learnt'
  <2> DEFINE m == work[t].model
  <2> DEFINE measured == work[t].free - FreeNow
  <2>1. CASE IsElastic(m)
    BY <1>1, <1>2, <2>1 DEF LoadReturns
  <2>2. CASE ~ IsElastic(m)
    <3>1. Size[m] <= measured
      BY <1>2, <2>2 DEF LoadReturns, Lined
    <3>2. Observe(m, measured)
      BY <1>2, <2>2 DEF LoadReturns
    <3>3. learned' = learned \/ learned' = Put(learned, m, measured)
      BY <3>2 DEF Observe
    <3>4. ASSUME learned' = Put(learned, m, measured) PROVE Learnt'
      BY <2>2, <3>1, <3>4 DEF Put, PutAll, Learnt, IsElastic
    <3> QED BY <1>1, <3>3, <3>4
  <2> QED BY <2>1, <2>2
<1> QED BY <1>1, <1>2, LearnsOnReturn

\* A load holds on to the budget it was admitted on: nothing that happens between
\* the fit check of _ensure_ready_locked and the load makes the budget smaller.
THEOREM LinedAlways ==
  ASSUME Undisturbed
  PROVE  Spec => [](Learnt /\ \A t \in Task : Lined(t))
<1> DEFINE Inv == Learnt /\ \A t \in Task : Lined(t)
<1>1. Init => Inv
  BY DEF Init, FreshPc, Learnt, Empty, Lined, Admitting, Inside, Decided, Task
<1>2. TypeOK /\ TypeOK' /\ Lock /\ Inv /\ [Next]_vars => Inv'
  BY LinedStep, LearntStep
<1> HIDE DEF Inv
<1>3. Spec => []Inv
  BY <1>1, <1>2, TypeInvariant, LockInvariant, PTL DEF Spec
<1> QED BY <1>3 DEF Inv

\* "Loads made through coload are safe by construction": where coload alone fills
\* and frees the card, no load takes it over the line that the buffer draws by more
\* than half a grain, whatever was evicted, learned, refused or failed before, and
\* whatever health checks and other answers said on the way.
THEOREM LoadsStayUnderTheLineAlways ==
  ASSUME Undisturbed
  PROVE  Spec => LoadsStayUnderTheLine
<1> DEFINE Inv == Learnt /\ \A t \in Task : Lined(t)
<1> DEFINE Due == \A t \in Task : pc[t] = "load" /\ pc'[t] = "loaded"
                    => 2 * (Buffer - FreeNow') <= Grain
<1>1. TypeOK /\ Lock /\ Inv /\ [Next]_vars => [Due]_vars
  <2> SUFFICES ASSUME TypeOK, Lock, Inv, Next, NEW t \in Task, pc[t] = "load",
                      pc'[t] = "loaded"
               PROVE  2 * (Buffer - FreeNow') <= Grain
    OBVIOUS
  <2>1. ~ Box
    BY DEF Box, Tick, OobMoves, EngineDrops, DirectLoad
  <2>2. EngineLoads(t)
    BY <2>1, Waiting DEF Next
  <2> QED BY <2>2, EngineTakes
<1> HIDE DEF Inv, Due
<1>2. Spec => []Inv
  BY LinedAlways DEF Inv
<1>3. Spec => [][Due]_vars
  BY <1>1, <1>2, TypeInvariant, LockInvariant, PTL DEF Spec
<1> QED BY <1>3 DEF Due, LoadsStayUnderTheLine

(***************************************************************************)
(* The reserve.                                                            *)
(***************************************************************************)
\* What a set of models is estimated at, given what is learned, and the residents
\* of some engines that the configuration knows by the engine's name for them.
EstimateOf(l, S) == Bytes([m \in S |-> IF m \in DOMAIN l THEN l[m] ELSE Seed[m]])

HeldBy(h, Es) == {m \in DOMAIN h \ Untagged : EngineOf[m] \in Es}

\* Sums of estimates are numbers, that add up and grow with the set.
LEMMA EstimatesAddUp ==
  ASSUME TypeOK, NEW S \in SUBSET Models, NEW T \in SUBSET Models, S \cap T = {}
  PROVE  /\ EstimateOf(learned, S) \in Nat /\ EstimateOf(learned, T) \in Nat
         /\ EstimateOf(learned, S \cup T) = EstimateOf(learned, S) + EstimateOf(learned, T)
<1> DEFINE f == [m \in Models |-> IF m \in DOMAIN learned THEN learned[m] ELSE Seed[m]]
<1>1. f \in [Models -> Nat]
  BY OrchestratorAssumption DEF TypeOK, IsByteCount
<1>2. IsFiniteSet(Models) /\ IsFiniteSet(S) /\ IsFiniteSet(T)
  BY OrchestratorAssumption, FS_Subset
<1>3. \A R \in SUBSET Models : EstimateOf(learned, R) = Bytes([m \in R |-> f[m]])
  <2> SUFFICES ASSUME NEW R \in SUBSET Models
               PROVE  [m \in R |-> IF m \in DOMAIN learned THEN learned[m] ELSE Seed[m]]
                        = [m \in R |-> f[m]]
    BY Zenon DEF EstimateOf
  <2> QED OBVIOUS
<1> HIDE DEF f
<1>4. \A R \in SUBSET Models : [m \in R |-> f[m]] \in [R -> Nat]
  BY <1>1
<1>5. Bytes([m \in S |-> f[m]]) \in Nat /\ Bytes([m \in T |-> f[m]]) \in Nat
  BY <1>2, <1>4, BytesType
<1>6. Bytes([m \in S \cup T |-> f[m]]) = Bytes([m \in S |-> f[m]]) + Bytes([m \in T |-> f[m]])
  BY <1>1, <1>2, BytesSplit
<1>7. S \cup T \in SUBSET Models
  OBVIOUS
<1> QED BY <1>3, <1>5, <1>6, <1>7

LEMMA EstimatesGrow ==
  ASSUME TypeOK, NEW T \in SUBSET Models, NEW S \in SUBSET T
  PROVE  /\ EstimateOf(learned, S) \in Nat /\ EstimateOf(learned, T) \in Nat
         /\ EstimateOf(learned, S) <= EstimateOf(learned, T)
<1>1. S \in SUBSET Models /\ T \ S \in SUBSET Models /\ S \cap (T \ S) = {}
      /\ S \cup (T \ S) = T
  OBVIOUS
<1>2. /\ EstimateOf(learned, S) \in Nat /\ EstimateOf(learned, T \ S) \in Nat
      /\ EstimateOf(learned, S \cup (T \ S))
           = EstimateOf(learned, S) + EstimateOf(learned, T \ S)
  BY <1>1, EstimatesAddUp
<1>3. EstimateOf(learned, S \cup (T \ S)) = EstimateOf(learned, T)
  BY <1>1
<1> QED BY <1>2, <1>3

LEMMA HeldBySome ==
  ASSUME TypeOK, NEW Es, NEW e
  PROVE  /\ DOMAIN held \in SUBSET Models
         /\ HeldBy(held, Es) \in SUBSET DOMAIN held
         /\ InEngine(e) \ Untagged \in SUBSET DOMAIN held
         /\ HeldBy(held, Es \cup {e}) = HeldBy(held, Es) \cup (InEngine(e) \ Untagged)
         /\ e \notin Es => HeldBy(held, Es) \cap (InEngine(e) \ Untagged) = {}
         /\ HeldBy(held, {}) = {} /\ HeldBy(held, Engines) = DOMAIN held \ Untagged
BY OrchestratorAssumption DEF TypeOK, IsByteCount, HeldBy, InEngine

\* While the engines are asked, the budget is the measured one, and the slice is
\* what the residents found so far leave of the reserve; afterwards one of the two
\* covers the budget, and the budget covers an admitted load.
Within(t) ==
  LET w == work[t]
  IN  /\ pc[t] \in {"reserve", "evictReserve"} =>
           /\ w.budget <= Budget(FreeNow)
           /\ w.slice + EstimateOf(learned, HeldBy(held, Engines \ w.ask)) <= Reserve
      /\ pc[t] \in Admitting \ {"reserve", "evictReserve"} =>
           \/ w.budget <= Budget(FreeNow)
           \/ w.budget + EstimateOf(learned, DOMAIN held \ Untagged) <= Reserve
      /\ pc[t] \in {"room", "load"} => w.needed <= w.budget

\* A step that adds nothing to the card, and no estimate.
Emptier == DOMAIN held' \subseteq DOMAIN held /\ FreeNow <= FreeNow' /\ learned' = learned

LEMMA EmptierBounds ==
  ASSUME TypeOK, TypeOK', Emptier
  PROVE  /\ Budget(FreeNow) \in Nat /\ Budget(FreeNow') \in Nat
         /\ Budget(FreeNow) <= Budget(FreeNow')
         /\ EstimateOf(learned, DOMAIN held \ Untagged) \in Nat
         /\ EstimateOf(learned', DOMAIN held' \ Untagged) \in Nat
         /\ EstimateOf(learned', DOMAIN held' \ Untagged) <= EstimateOf(learned, DOMAIN held \ Untagged)
         /\ \A Es : /\ EstimateOf(learned, HeldBy(held, Es)) \in Nat
                    /\ EstimateOf(learned', HeldBy(held', Es)) \in Nat
                    /\ EstimateOf(learned', HeldBy(held', Es))
                         <= EstimateOf(learned, HeldBy(held, Es))
<1>1. FreeNow \in Int /\ FreeNow' \in Int
  BY FreeType DEF TypeOK, FreeNow
<1>2. DOMAIN held \in SUBSET Models /\ DOMAIN held' \in SUBSET DOMAIN held
  BY HeldBySome DEF Emptier
<1>3. \A Es : /\ HeldBy(held, Es) \in SUBSET Models
              /\ HeldBy(held', Es) \in SUBSET HeldBy(held, Es)
  BY <1>2 DEF HeldBy
<1> QED BY <1>1, <1>2, <1>3, BudgetGrows, BudgetType, EstimatesGrow DEF Emptier

LEMMA WithinKept ==
  ASSUME TypeOK, TypeOK', Emptier, NEW t \in Task, Within(t),
         pc'[t] = pc[t], work'[t] = work[t]
  PROVE  Within(t)'
<1>1. work[t].budget \in Nat /\ work[t].slice \in Int /\ Reserve \in Nat
  BY Figures, OrchestratorAssumption
<1>2. Budget(FreeNow)' = Budget(FreeNow')
  BY DEF Budget
<1> QED BY <1>1, <1>2, EmptierBounds DEF Within

\* No move of a task to its engine adds anything to the card.
LEMMA MovesEmpty ==
  ASSUME TypeOK, NEW t \in Task, Moves(t)
  PROVE  DOMAIN held' \subseteq DOMAIN held /\ FreeNow <= FreeNow'
<1>1. FreeNow \in Int
  BY Figures
<1>2. CASE held' = held /\ oob' = oob
  BY <1>1, <1>2 DEF FreeNow
<1>3. CASE Claims(t)
  BY <1>3 DEF Claims
<1>4. CASE Clears(t)
  BY <1>4, FreeWithout DEF Clears
<1>5. CASE held' = Without(held, work[t].victim) /\ oob' = oob
  BY <1>5, FreeWithout DEF Without
<1> QED BY <1>2, <1>3, <1>4, <1>5
        DEF Moves, Measures, Asks, Decides, Picks, Stops, Evicts, Admits

\* Engines that report what they have.
Reporting == Faults \cap {"down", "silent"} = {}

LEMMA ReportsAll ==
  ASSUME Reporting, NEW e, NEW listed \in Resident(e)
  PROVE  /\ listed = InEngine(e) \ Untagged
         /\ Bytes([m \in listed |-> Estimate(m)]) = EstimateOf(learned, InEngine(e) \ Untagged)
BY DEF Reporting, Resident, EstimateOf, Estimate

\* One answer: the slice shrinks by what that engine is found to hold.
LEMMA WithinAsks ==
  ASSUME TypeOK, TypeOK', Reporting, learned' = learned,
         NEW t \in Task, Asks(t), Within(t)
  PROVE  Within(t)'
<1>1. PICK e \in work[t].ask : \E listed \in Resident(e) :
           /\ pc[t] \in {"reserve", "evictReserve"}
           /\ pc'[t] \in {pc[t], IF pc[t] = "reserve" THEN "decide" ELSE "evict"}
           /\ pc'[t] = pc[t] <=> work'[t].ask # {}
           /\ work'[t].ask = work[t].ask \ {e}
           /\ work'[t].slice = work[t].slice - Bytes([m \in listed |-> Estimate(m)])
           /\ \/ work'[t].budget = work[t].budget
              \/ work'[t].ask = {} /\ work'[t].budget = work'[t].slice
           /\ work'[t].budget \in Nat
           /\ held' = held /\ oob' = oob
  BY AsksEffect
<1>2. /\ pc[t] \in {"reserve", "evictReserve"}
      /\ pc'[t] \in {pc[t], "decide", "evict"}
      /\ pc'[t] = pc[t] <=> work'[t].ask # {}
      /\ work'[t].ask = work[t].ask \ {e}
      /\ work'[t].slice = work[t].slice - EstimateOf(learned, InEngine(e) \ Untagged)
      /\ \/ work'[t].budget = work[t].budget
         \/ work'[t].ask = {} /\ work'[t].budget = work'[t].slice
      /\ work'[t].budget \in Nat
      /\ held' = held /\ FreeNow' = FreeNow
  BY <1>1, ReportsAll DEF FreeNow
<1>3. /\ work[t].budget \in Nat /\ work[t].slice \in Int /\ Budget(FreeNow) \in Nat
      /\ work[t].ask \subseteq Engines /\ Reserve \in Nat
  BY Figures, OrchestratorAssumption DEF LocalsType
<1> DEFINE Es == Engines \ work[t].ask
<1>4. Engines \ work'[t].ask = Es \cup {e} /\ e \notin Es
  BY <1>2, <1>3
<1>5. /\ HeldBy(held, Es) \in SUBSET Models /\ InEngine(e) \ Untagged \in SUBSET Models
      /\ HeldBy(held, Es) \cap (InEngine(e) \ Untagged) = {}
      /\ HeldBy(held, Es \cup {e}) = HeldBy(held, Es) \cup (InEngine(e) \ Untagged)
      /\ HeldBy(held, Engines) = DOMAIN held \ Untagged
  BY <1>4, HeldBySome
<1>6. /\ EstimateOf(learned, HeldBy(held, Es)) \in Nat
      /\ EstimateOf(learned, InEngine(e) \ Untagged) \in Nat
      /\ EstimateOf(learned, HeldBy(held, Es \cup {e}))
           = EstimateOf(learned, HeldBy(held, Es)) + EstimateOf(learned, InEngine(e) \ Untagged)
  BY <1>5, EstimatesAddUp
<1>7. /\ work[t].budget <= Budget(FreeNow)
      /\ work[t].slice + EstimateOf(learned, HeldBy(held, Es)) <= Reserve
  BY <1>2 DEF Within
<1>8. work'[t].slice + EstimateOf(learned, HeldBy(held, Engines \ work'[t].ask)) <= Reserve
  <2>1. work'[t].slice + EstimateOf(learned, HeldBy(held, Es \cup {e})) <= Reserve
    BY <1>2, <1>3, <1>6, <1>7
  <2> QED BY <1>4, <2>1
<1>9. CASE pc'[t] = pc[t]
  <2>1. work'[t].budget = work[t].budget /\ pc'[t] \in {"reserve", "evictReserve"}
    BY <1>2, <1>9
  <2>2. work'[t].budget <= Budget(FreeNow')
    BY <1>2, <1>7, <2>1
  <2> QED BY <1>2, <1>8, <2>1, <2>2 DEF Within, Budget
<1>10. CASE pc'[t] # pc[t]
  <2>1. work'[t].ask = {} /\ pc'[t] \in {"decide", "evict"}
    BY <1>2, <1>10
  <2>2. work'[t].slice + EstimateOf(learned, DOMAIN held \ Untagged) <= Reserve
    BY <1>5, <1>8, <2>1
  <2> QED BY <1>2, <1>7, <2>1, <2>2 DEF Within, Budget
<1> QED BY <1>9, <1>10

LEMMA WithinMoves ==
  ASSUME TypeOK, TypeOK', Reporting, learned' = learned,
         NEW t \in Task, Moves(t), Within(t)
  PROVE  Within(t)'
<1> USE DEF Admitting, Inside
<1>1. /\ work[t] \in LocalsType /\ work[t].needed \in Nat /\ work[t].budget \in Nat
      /\ Budget(FreeNow) \in Nat /\ Reserve \in Nat
  BY Figures, OrchestratorAssumption
<1>2. Emptier
  BY MovesEmpty DEF Emptier
<1>3. /\ Budget(FreeNow)' = Budget(FreeNow')
      /\ held' = held /\ oob' = oob => FreeNow' = FreeNow
  BY DEF Budget, FreeNow
<1>4. ASSUME work'[t].budget = work[t].budget,
             pc[t] \in Admitting \ {"reserve", "evictReserve"},
             pc'[t] \in Admitting \ {"reserve", "evictReserve"},
             pc'[t] \in {"room", "load"} => work'[t].needed <= work'[t].budget
      PROVE  Within(t)'
  BY <1>1, <1>2, <1>3, <1>4, EmptierBounds DEF Within
<1>5. CASE Measures(t)
  <2>1. /\ work'[t].budget = Budget(FreeNow) /\ work'[t].slice = Reserve
        /\ work'[t].ask = IF Reserve = 0 THEN {} ELSE Engines
    BY <1>1, <1>5 DEF Measures, LocalsType
  <2>2. /\ pc'[t] \in IF Reserve = 0 THEN {"decide", "evict"} ELSE {"reserve", "evictReserve"}
        /\ held' = held /\ FreeNow' = FreeNow
    BY <1>3, <1>5 DEF Measures
  <2>3. CASE Reserve = 0
    BY <1>1, <1>3, <2>1, <2>2, <2>3 DEF Within
  <2>4. CASE Reserve # 0
    <3>1. Engines \ work'[t].ask = {}
      BY <2>1, <2>4
    <3>2. HeldBy(held', {}) = {}
      BY <2>2, HeldBySome
    <3>3. EstimateOf(learned', {}) = 0
      BY BytesNone DEF EstimateOf
    <3>4. EstimateOf(learned', HeldBy(held', Engines \ work'[t].ask)) = 0
      BY <3>1, <3>2, <3>3
    <3> QED BY <1>1, <1>3, <2>1, <2>2, <2>4, <3>4 DEF Within
  <2> QED BY <2>3, <2>4
<1>6. CASE Asks(t)
  BY <1>6, WithinAsks
<1>7. CASE Decides(t) \/ Picks(t) \/ Stops(t)
  <2>1. work'[t].budget = work[t].budget
    BY <1>1, <1>7 DEF Decides, Picks, Stops, LocalsType
  <2>2. pc[t] \in {"decide", "evict"} /\ pc'[t] \in {"evictMeasure", "victim", "admit"}
    BY <1>7 DEF Decides, Picks, Stops
  <2> QED BY <1>4, <2>1, <2>2
<1>8. CASE Evicts(t)
  BY <1>4, <1>8 DEF Evicts
<1>9. CASE Admits(t)
  BY <1>4, <1>9 DEF Admits, Fits
<1>10. CASE Claims(t)
  <2>1. work'[t].budget = work[t].budget /\ work'[t].needed = work[t].needed
    BY <1>1, <1>10 DEF Claims, LocalsType
  <2>2. pc[t] = "room" /\ pc'[t] \in {"load", "refuse"}
    BY <1>10 DEF Claims
  <2>3. work[t].needed <= work[t].budget
    BY <2>2 DEF Within
  <2> QED BY <1>4, <2>1, <2>2, <2>3
<1>11. CASE Clears(t)
  <2>1. work[t].needed <= work[t].budget
    BY <1>11 DEF Clears, Within
  <2> QED BY <1>4, <1>11, <2>1 DEF Clears
<1> QED BY <1>5, <1>6, <1>7, <1>8, <1>9, <1>10, <1>11 DEF Moves

LEMMA WithinStep ==
  ASSUME TypeOK, TypeOK', Lock, Reporting, Faults \cap {"oob", "direct"} = {},
         [Next]_vars, NEW t \in Task, Within(t)
  PROVE  Within(t)'
<1>1. FreeNow \in Int
  BY Figures
<1>2. CASE UNCHANGED vars
  BY <1>1, <1>2, WithinKept DEF vars, card, Emptier, FreeNow
<1>3. CASE Box
  <2>1. pc' = pc /\ work' = work /\ FreeNow <= FreeNow'
    BY <1>3, BoxTakesNothing
  <2>2. DOMAIN held' \subseteq DOMAIN held
    BY <1>3, BoxLoadsNothing
  <2>3. learned' = learned
    BY <1>3 DEF Box, Tick, OobMoves, EngineDrops, DirectLoad
  <2> QED BY <2>1, <2>2, <2>3, WithinKept DEF Emptier
<1>4. CASE (\E u \in Task : Advance(u)) \/ Sweep \/ Arrive
  <2>1. CASE pc'[t] \notin Admitting
    BY <2>1 DEF Within, Admitting, Inside
  <2>2. CASE pc'[t] \in Admitting
    <3>1. CASE Moves(t)
      BY <1>4, <2>2, <3>1, Underway, WithinMoves
    <3>2. CASE pc'[t] = pc[t] /\ work'[t] = work[t] /\ held' = held /\ oob' = oob
      <4>1. Emptier
        BY <1>1, <1>4, <2>2, <3>2, Underway DEF Emptier, FreeNow
      <4> QED BY <3>2, <4>1, WithinKept
    <3> QED BY <1>4, <2>2, <3>1, <3>2, Underway
  <2> QED BY <2>1, <2>2
<1> QED BY <1>2, <1>3, <1>4 DEF Next

LEMMA WithinHolds == TypeOK /\ (\A t \in Task : Within(t)) => SliceNotOverdrawn
<1> SUFFICES ASSUME TypeOK, NEW t \in Task, Within(t), pc[t] = "load"
             PROVE  \/ work[t].needed <= Budget(FreeNow)
                    \/ work[t].needed + Bytes([m \in DOMAIN held \ Untagged |-> Estimate(m)]) <= Reserve
  BY DEF SliceNotOverdrawn
<1>1. /\ work[t].needed \in Nat /\ work[t].budget \in Nat /\ Budget(FreeNow) \in Nat
      /\ Reserve \in Nat
  BY Figures, OrchestratorAssumption
<1>2. EstimateOf(learned, DOMAIN held \ Untagged) \in Nat
  BY EstimatesGrow, HeldBySome
<1>3. Bytes([m \in DOMAIN held \ Untagged |-> Estimate(m)]) = EstimateOf(learned, DOMAIN held \ Untagged)
  BY DEF EstimateOf, Estimate
<1>4. /\ work[t].needed <= work[t].budget
      /\ \/ work[t].budget <= Budget(FreeNow)
         \/ work[t].budget + EstimateOf(learned, DOMAIN held \ Untagged) <= Reserve
  BY DEF Within, Admitting, Inside
<1> QED BY <1>1, <1>2, <1>3, <1>4

\* The reserve is a floor for the budget and not an addition to it: where coload
\* alone fills the card and the engines report what they have, a load is admitted
\* within what is measured, or within the reserve together with the estimates of
\* every resident whose configured name is the engine's own, whatever is dropped,
\* evicted or paged out and whatever fails.
THEOREM SliceNotOverdrawnAlways ==
  ASSUME Reporting, Faults \cap {"oob", "direct"} = {}
  PROVE  Spec => []SliceNotOverdrawn
<1> DEFINE Inv == \A t \in Task : Within(t)
<1>1. Init => Inv
  BY DEF Init, FreshPc, Within, Admitting, Inside, Task
<1>2. TypeOK /\ TypeOK' /\ Lock /\ Inv /\ [Next]_vars => Inv'
  BY WithinStep
<1>3. TypeOK /\ Inv => SliceNotOverdrawn
  BY WithinHolds
<1> HIDE DEF Inv
<1> QED BY <1>1, <1>2, <1>3, TypeInvariant, LockInvariant, PTL DEF Spec

(***************************************************************************)
(* Honest refusals.                                                        *)
(***************************************************************************)
\* A box on which loads and unloads may fail, and nothing else goes wrong.
Behaving ==
  /\ Faults \subseteq {"fail"}
  /\ Untagged = {}
  /\ Reserve = 0

\* Nobody calls before every engine has been asked what it has.
Adopted == pc[Sweeper] = "adopt" => \A t \in Clients : pc[t] = "idle"

\* A coroutine that moves is neither between two calls nor in adoption, and does
\* not end up there but by finishing a call.
LEMMA MovesAreCalls ==
  ASSUME TypeOK, NEW t \in Task, Advance(t)
  PROVE  pc[t] \notin {"idle", "adopt"} /\ pc'[t] # "adopt"
<1>1. pc \in [Task -> Points]
  BY DEF TypeOK
<1>2. CASE FastYes(t) \/ FastHit(t) \/ FastMiss(t) \/ FastError(t) \/ Respond(t)
  BY <1>1, <1>2 DEF FastYes, FastHit, FastMiss, FastError, Respond, GoTo, Enqueue, Answers
<1>3. CASE RecheckYes(t) \/ RecheckError(t) \/ EvictFails(t) \/ Refuse(t) \/ LoadFails(t)
           \/ LoadAnswerLost(t) \/ LoadReturns(t) \/ ProbeFails(t) \/ UnloadFails(t)
  BY <1>1, <1>3 DEF RecheckYes, RecheckError, EvictFails, Refuse, LoadFails,
       LoadAnswerLost, LoadReturns, ProbeFails, UnloadFails, Leave, GoTo
<1>4. CASE CheckNo(t) \/ CheckYes(t) \/ Unload(t)
  BY <1>1, <1>4 DEF CheckNo, CheckYes, Unload, Unloaded, GoTo
<1>5. CASE Measure(t) \/ EvictMeasure(t) \/ \E e \in Engines : AskReserve(t, e)
  BY <1>1, <1>5 DEF Measure, EvictMeasure, AskReserve, Budgeted, GoTo
<1>6. CASE Decide(t) \/ EvictNext(t) \/ EvictDone(t) \/ VictimGone(t) \/ VictimUp(t)
           \/ EvictUnload(t)
  BY <1>1, <1>6 DEF Decide, EvictNext, EvictDone, VictimGone, VictimUp, EvictUnload, GoTo
<1>7. CASE AdmitLoad(t) \/ AdmitRoom(t) \/ AdmitRefuse(t) \/ RoomMade(t) \/ StopOccupant(t)
           \/ EngineLoads(t)
  BY <1>1, <1>7 DEF AdmitLoad, AdmitRoom, AdmitRefuse, RoomMade, StopOccupant, EngineLoads,
       GoTo
<1> QED BY <1>2, <1>3, <1>4, <1>5, <1>6, <1>7 DEF Advance

LEMMA AdoptedInit == Init => Adopted
BY OrchestratorAssumption DEF Init, FreshPc, Adopted, Task

LEMMA AdoptedStep ==
  ASSUME TypeOK, [Next]_vars, Adopted
  PROVE  Adopted'
<1> USE DEF Adopted
<1>1. /\ Clients \subseteq Task /\ Sweeper \in Task /\ Sweeper \notin Clients
      /\ pc \in [Task -> Points]
  BY OrchestratorAssumption DEF TypeOK, Task
<1>2. ASSUME NEW u \in Task, Advance(u) PROVE Adopted'
  <2>1. \A t \in Task \ {u} : pc'[t] = pc[t]
    BY <1>2, OnlyOwnMove
  <2> QED BY <1>1, <1>2, <2>1, MovesAreCalls
<1>3. CASE Sweep
  <2>1. \A t \in Clients : pc'[t] = pc[t]
    BY <1>1, <1>3, SweepHarmless
  <2>2. pc'[Sweeper] = "adopt" => pc[Sweeper] = "adopt"
    BY <1>1, <1>3 DEF Sweep, StartSweep, SweepNext, EndSweep, Adopt, GoTo, Enqueue
  <2> QED BY <2>1, <2>2
<1>4. CASE Arrive
  BY <1>1, <1>4 DEF Arrive, EnsureReady, UnloadModel, GoTo, Enqueue
<1>5. CASE Box \/ UNCHANGED vars
  BY <1>5 DEF Box, Tick, OobMoves, EngineDrops, DirectLoad, vars
<1> QED BY <1>2, <1>3, <1>4, <1>5 DEF Next

\* The lifespan adopts what the engines hold before it serves: no request is
\* under way while adopt_running() is.
THEOREM AdoptedAlways == Spec => []Adopted
BY AdoptedInit, AdoptedStep, TypeInvariant, PTL DEF Spec

\* The budget in hand is the budget, and the measurement in hand is what is free;
\* what is refused does not fit; and an eviction pass has every resident model
\* among its candidates, so that nothing is resident once it has no more.
Honest(t) ==
  LET w == work[t]
  IN  /\ pc[t] \notin {"reserve", "evictReserve", "room"}
      /\ pc[t] \in {"decide", "evict", "victim", "evictUnload", "admit", "refuse"} =>
           w.budget = Budget(FreeNow)
      /\ pc[t] \in {"decide", "admit"} => w.free = FreeNow
      /\ pc[t] = "refuse" => w.needed > w.budget
      /\ pc[t] \in {"evictMeasure", "evict", "settle"} => DOMAIN held \subseteq DOMAIN w.todo
      /\ pc[t] \in {"victim", "evictUnload"} =>
           DOMAIN held \subseteq DOMAIN w.todo \cup {w.victim}
      /\ pc[t] \in {"admit", "refuse"} /\ AutoEvict /\ w.needed > w.budget =>
           DOMAIN held = {}

\* At the decision the table has every resident model.
LEMMA TableIsComplete ==
  ASSUME TypeOK, Lock, Adopted, NeverLosesTrack, NoDoubleLoad,
         NEW t \in Task, pc[t] \in Admitting
  PROVE  DOMAIN held \subseteq DOMAIN lastUsed \ {work[t].model}
<1> USE DEF Admitting, Inside
<1>1. work[t].model \notin DOMAIN held
  BY DEF NoDoubleLoad
<1>2. \A u \in Task : pc[u] # "loaded"
  BY LockExcludes DEF OneLoadAtATime
<1>3. pc[Sweeper] # "adopt"
  BY DEF Adopted, Task
<1> QED BY <1>1, <1>2, <1>3 DEF NeverLosesTrack

LEMMA HonestMoves ==
  ASSUME TypeOK, TypeOK', Behaving, NEW t \in Task, Moves(t), Honest(t),
         pc[t] = "decide" => DOMAIN held \subseteq DOMAIN lastUsed \ {work[t].model}
  PROVE  Honest(t)'
<1>1. /\ work[t] \in LocalsType
      /\ work[t].needed \in Nat /\ work[t].budget \in Nat /\ work[t].free \in Int
      /\ FreeNow \in Int /\ FreeNow >= 0 /\ Budget(FreeNow) \in Nat
  BY Figures
<1>2. /\ Budget(FreeNow)' = Budget(FreeNow')
      /\ held' = held /\ oob' = oob => FreeNow' = FreeNow
  BY DEF Budget, FreeNow
<1>3. CASE Measures(t)
  <2>1. /\ work'[t].budget = Budget(FreeNow) /\ work'[t].todo = work[t].todo
        /\ pc[t] = "recheck" => work'[t].free = FreeNow
    BY <1>1, <1>3 DEF Measures, LocalsType
  <2>2. /\ \/ pc[t] = "recheck" /\ pc'[t] = "decide"
           \/ pc[t] \in {"evictMeasure", "settle"} /\ pc'[t] = "evict"
        /\ held' = held /\ FreeNow' = FreeNow
    BY <1>2, <1>3 DEF Measures, Behaving
  <2> QED BY <1>2, <2>1, <2>2 DEF Honest
<1>4. CASE Asks(t)
  BY <1>4 DEF Asks, Honest
<1>5. CASE Decides(t)
  <2> DEFINE m == work[t].model
  <2> DEFINE evicting == Estimate(m) > work[t].budget /\ AutoEvict
  <2>1. /\ work'[t].needed = Estimate(m) /\ work'[t].free = work[t].free
        /\ work'[t].budget = work[t].budget
        /\ evicting => work'[t].todo = Without(lastUsed, m)
    BY <1>1, <1>5 DEF Decides, LocalsType
  <2>2. /\ pc[t] = "decide" /\ pc'[t] = IF evicting THEN "evictMeasure" ELSE "admit"
        /\ held' = held /\ FreeNow' = FreeNow
    BY <1>2, <1>5 DEF Decides
  <2>3. CASE evicting
    <3>1. DOMAIN held' \subseteq DOMAIN work'[t].todo
      BY <2>1, <2>2, <2>3, WithoutDomain
    <3> QED BY <2>2, <2>3, <3>1 DEF Honest
  <2>4. CASE ~ evicting
    <3>1. ~ (AutoEvict /\ work'[t].needed > work'[t].budget)
      BY <2>1, <2>4
    <3> QED BY <1>2, <2>1, <2>2, <2>4, <3>1 DEF Honest
  <2> QED BY <2>3, <2>4
<1>6. CASE Picks(t)
  <2>1. PICK v \in DOMAIN work[t].todo :
          work'[t] = [work[t] EXCEPT !.victim = v, !.todo = Without(@, v)]
    BY <1>6 DEF Picks
  <2>2. /\ work'[t].victim = v /\ work'[t].budget = work[t].budget
        /\ DOMAIN work'[t].todo = DOMAIN work[t].todo \ {v}
    BY <1>1, <2>1, WithoutDomain DEF LocalsType
  <2>3. /\ pc[t] = "evict" /\ pc'[t] = "victim" /\ held' = held /\ FreeNow' = FreeNow
    BY <1>2, <1>6 DEF Picks
  <2> QED BY <1>2, <2>2, <2>3 DEF Honest
<1>7. CASE Stops(t)
  <2>1. /\ work'[t].needed = work[t].needed /\ work'[t].budget = work[t].budget
        /\ work'[t].free = FreeNow
    BY <1>1, <1>7 DEF Stops, LocalsType
  <2>2. /\ pc[t] = "evict" /\ pc'[t] = "admit" /\ held' = held /\ FreeNow' = FreeNow
    BY <1>2, <1>7 DEF Stops
  <2>3. work[t].needed > work[t].budget => DOMAIN held = {}
    <3>1. EvictOver(t) /\ DOMAIN held \subseteq DOMAIN work[t].todo
      BY <1>7, <2>2 DEF Stops, Honest
    <3>2. work[t].needed <= work[t].budget \/ DOMAIN work[t].todo = {}
      BY <3>1 DEF EvictOver
    <3>3. DOMAIN work[t].todo = {} => DOMAIN held = {}
      BY <3>1
    <3>4. work[t].needed <= work[t].budget => ~ (work[t].needed > work[t].budget)
      BY <1>1
    <3> QED BY <3>2, <3>3, <3>4
  <2> QED BY <1>2, <2>1, <2>2, <2>3 DEF Honest
<1>8. CASE Evicts(t)
  <2>1. CASE pc[t] = "victim" /\ pc'[t] = "evict"
    <3>1. work[t].victim \notin DOMAIN held /\ held' = held /\ FreeNow' = FreeNow
      BY <1>2, <1>8, <2>1 DEF Evicts, IsReady, Behaving
    <3> QED BY <1>2, <1>8, <2>1, <3>1 DEF Evicts, Honest
  <2>2. CASE pc[t] = "victim" /\ pc'[t] = "evictUnload" /\ held' = held
    BY <1>2, <1>8, <2>2 DEF Evicts, Honest
  <2>3. CASE /\ pc[t] = "evictUnload" /\ pc'[t] = "settle"
             /\ held' = Without(held, work[t].victim)
    <3>1. DOMAIN held' = DOMAIN held \ {work[t].victim}
      BY <2>3, WithoutDomain
    <3> QED BY <1>8, <2>3, <3>1 DEF Evicts, Honest
  <2> QED BY <1>8, <2>1, <2>2, <2>3 DEF Evicts
<1>9. CASE Admits(t)
  <2>1. /\ pc[t] = "admit" /\ work'[t] = work[t] /\ held' = held /\ FreeNow' = FreeNow
    BY <1>2, <1>9 DEF Admits
  <2>2. work[t].free = FreeNow /\ work[t].budget = Budget(FreeNow)
    BY <2>1 DEF Honest
  <2>3. work[t].needed <= work[t].budget => work[t].needed <= work[t].free
    BY <1>1, <2>2, BudgetIsFree
  <2>4. \/ pc'[t] = "load"
        \/ pc'[t] = "refuse" /\ work[t].needed > work[t].budget
    BY <1>1, <1>9, <2>3 DEF Admits, Fits
  <2> QED BY <1>2, <2>1, <2>4 DEF Honest
<1>10. CASE Claims(t)
  BY <1>10 DEF Claims, Honest
<1>11. CASE Clears(t)
  BY <1>11 DEF Clears, Honest
<1> QED BY <1>3, <1>4, <1>5, <1>6, <1>7, <1>8, <1>9, <1>10, <1>11 DEF Moves

LEMMA HonestStep ==
  ASSUME TypeOK, TypeOK', Lock, Behaving, Adopted, NeverLosesTrack, NoDoubleLoad,
         [Next]_vars, NEW t \in Task, Honest(t)
  PROVE  Honest(t)'
<1>1. ASSUME pc'[t] = pc[t], work'[t] = work[t], held' = held, oob' = oob
      PROVE  Honest(t)'
  BY <1>1 DEF Honest, FreeNow, Budget
<1>2. CASE UNCHANGED vars \/ Box
  BY <1>1, <1>2 DEF vars, card, Box, Tick, OobMoves, EngineDrops, DirectLoad, Behaving
<1>3. CASE (\E u \in Task : Advance(u)) \/ Sweep \/ Arrive
  <2>1. CASE pc'[t] \notin Admitting
    BY <2>1 DEF Honest, Admitting, Inside
  <2>2. CASE pc'[t] \in Admitting /\ Moves(t)
    <3>1. pc[t] = "decide" => DOMAIN held \subseteq DOMAIN lastUsed \ {work[t].model}
      BY TableIsComplete DEF Admitting, Inside
    <3> QED BY <2>2, <3>1, HonestMoves
  <2> QED BY <1>1, <1>3, <2>1, <2>2, Underway
<1> QED BY <1>2, <1>3 DEF Next

\* What _ensure_ready_locked decides on is true of the card when it decides, and
\* it refuses only when the model does not fit and no candidate is left.
THEOREM HonestAlways ==
  ASSUME Behaving
  PROVE  Spec => [](\A t \in Task : Honest(t))
<1> DEFINE Inv == \A t \in Task : Honest(t)
<1>1. Init => Inv
  BY DEF Init, FreshPc, Honest, Task
<1>2. TypeOK /\ TypeOK' /\ Lock /\ Adopted /\ NeverLosesTrack /\ NoDoubleLoad /\ Inv
        /\ [Next]_vars => Inv'
  BY HonestStep
<1>3. Spec => []NeverLosesTrack /\ []NoDoubleLoad
  BY NeverLosesTrackAlways, NoDoubleLoadAlways DEF Behaving
<1> HIDE DEF Inv
<1>4. Spec => []Inv
  BY <1>1, <1>2, <1>3, AdoptedAlways, TypeInvariant, LockInvariant, PTL DEF Spec
<1> QED BY <1>4 DEF Inv

\* "Refusals are honest": on a box that behaves, but for loads and unloads that
\* fail, a call is refused only when the model does not fit into what is free, and
\* with auto-eviction only when nothing is left on the card that could go.
THEOREM RefusalsAreHonestAlways ==
  ASSUME Behaving
  PROVE  Spec => []RefusalsAreHonest
<1>1. (\A t \in Task : Honest(t)) => RefusalsAreHonest
  BY DEF Honest, RefusalsAreHonest, Task
<1> QED BY <1>1, HonestAlways, PTL

=============================================================================
