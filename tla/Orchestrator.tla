---------------------------- MODULE Orchestrator ----------------------------
(***************************************************************************)
(* The admission controller: orchestrator.py, with the engines it drives   *)
(* seen through the Backend interface (backends/base.py) and the card they *)
(* share seen through vram.py.                                             *)
(*                                                                         *)
(* coload is one asyncio process.  A task is one coroutine: a client's     *)
(* call of ensure_ready or unload_model, or the idle sweep.  pc[t] names   *)
(* the await at which t is suspended, so a step is what a coroutine does   *)
(* from one await to the next.  Where such a stretch has several stages,   *)
(* its inner points are the members of Running: while a task is at one of  *)
(* them no other coroutine runs, though the rest of the box does.          *)
(*                                                                         *)
(* A behaviour is the life of one coload process.  It starts with whatever *)
(* a previous life left on the card, and adopts it before serving.         *)
(***************************************************************************)
EXTENDS Vram, Sequences, Functions

CONSTANTS
  Models,       \* the configured models
  Engines,      \* the configured engines
  EngineOf,     \* Config.engine_for_model
  Elastic,      \* engines with sizes_to_budget (vLLM): one process, one model
  Untagged,     \* models of an Ollama engine configured without their tag
  Seed,         \* est_vram_bytes of each model
  Size,         \* what the weights of each model really take
  Clients,      \* the calls that can be in flight at once
  Sweeper,      \* the task that runs run_ttl_loop
  None,         \* no model
  Reserve,      \* reserve_bytes; 0 is reserve_gb unset
  AutoEvict,    \* auto_evict_idle
  MakeRoom,     \* make_room
  Ttl,          \* idle_ttl_seconds in ticks; 0 disables the sweep
  MaxTime,      \* bound on the clock
  OobLevels,    \* what everything coload does not manage may occupy
  Faults        \* what may go wrong, a subset of FaultKinds

FaultKinds ==
  { "oob",     \* out-of-band usage moves during the run
    "direct",  \* a user loads a configured model into Ollama directly
    "drop",    \* an engine lets go of a model by itself (pin TTL, crash)
    "down",    \* Ollama's API fails or times out: is_ready raises
    "health",  \* vLLM's /health fails for a moment while the engine lives
    "silent",  \* the same under resident_models of a detached vLLM
    "fail",    \* a load or an unload fails
    "lost",    \* Ollama loads the model, but its answer is lost
    "probe" }  \* VramProbe.read raises

ASSUME OrchestratorAssumption ==
  /\ IsFiniteSet(Models) /\ IsFiniteSet(Engines)
  /\ EngineOf \in [Models -> Engines]
  /\ Elastic \subseteq Engines
  /\ Untagged \subseteq {m \in Models : EngineOf[m] \notin Elastic}
  /\ Seed \in [Models -> Nat \ {0}]
  /\ Size \in [Models -> Nat \ {0}]
  /\ Sweeper \notin Clients
  /\ None \notin Models
  /\ Reserve \in Nat /\ Ttl \in Nat /\ MaxTime \in Nat
  /\ AutoEvict \in BOOLEAN /\ MakeRoom \in BOOLEAN
  /\ OobLevels \subseteq Nat
  /\ Faults \subseteq FaultKinds

Task == Clients \cup {Sweeper}

VARIABLES
  pc,        \* task -> the await it is suspended at
  work,      \* task -> the local variables of its coroutine
  mutex,     \* _load_mutex: its holder, then its waiters in order
  lastUsed,  \* _last_used: tracked model -> time of its last touch
  learned,   \* EstimateStore._learned
  held,      \* resident model -> the bytes its engine holds for it
  oob,       \* bytes in use by everything else
  now        \* _clock()

vars == <<pc, work, mutex, lastUsed, learned, held, oob, now>>
card == <<held, oob>>

(***************************************************************************)
(* The points of a coroutine.  Inside is the critical section.             *)
(***************************************************************************)
Answers == {"url", "refused", "failed", "error", "done"}

\* Waiting for the mutex, or holding it with the first is_ready in flight.
AtDoor  == {"recheck", "check"}

Inside  == { "reserve", "decide", "evictMeasure", "evictReserve", "evict",
             "victim", "evictUnload", "settle", "admit", "room", "load",
             "loaded", "refuse", "unload" }

Points  == {"idle", "adopt", "fast", "hit", "sweep"}
             \cup AtDoor \cup Inside \cup Answers

\* Points between two awaits: the coroutine has the event loop.
Running == {"decide", "evictMeasure", "evict", "admit", "sweep"}

\* The empty dictionary.
Empty == [m \in {} |-> 0]

\* The locals of a coroutine that has not computed anything yet.
Locals(m) == [ model |-> m, needed |-> 0, budget |-> 0, free |-> 0,
               ask |-> {}, slice |-> 0, todo |-> Empty, victim |-> None ]

(***************************************************************************)
(* Dictionaries.                                                           *)
(***************************************************************************)
PutAll(d, S, v) == [x \in DOMAIN d \cup S |-> IF x \in S THEN v ELSE d[x]]

\* d[k] = v
Put(d, k, v) == PutAll(d, {k}, v)

\* d.pop(k, None)
Without(d, k) == Restrict(d, DOMAIN d \ {k})

LesserOf(a, b)  == IF a < b THEN a ELSE b
GreaterOf(a, b) == IF a > b THEN a ELSE b

(***************************************************************************)
(* What the engines hold, and what they say about it.                      *)
(***************************************************************************)
FreeNow == Free(held, oob)

IsElastic(m) == EngineOf[m] \in Elastic

InEngine(e) == {m \in DOMAIN held : EngineOf[m] = e}

\* The answers backend.is_ready(m) may give now; "error" is a BackendError.
\* A health check that fails for a moment reads as "no".
IsReady(m) ==
  {IF m \in DOMAIN held THEN "yes" ELSE "no"}
    \cup (IF "down" \in Faults /\ ~ IsElastic(m) THEN {"error"} ELSE {})
    \cup (IF "health" \in Faults /\ IsElastic(m) THEN {"no"} ELSE {})

\* The configured models among the answers backend.resident_models() may give
\* now.  A caller takes an engine that raises for one that holds nothing, and
\* Ollama reports a model configured without its tag under another name.
Resident(e) ==
  {InEngine(e) \ Untagged}
    \cup (IF "down" \in Faults /\ e \notin Elastic THEN {{}} ELSE {})
    \cup (IF "silent" \in Faults /\ e \in Elastic THEN {{}} ELSE {})

\* The bytes m takes when it is loaded with `grant`: vLLM claims a share of the
\* card, Ollama what the weights need, spilling to the CPU what does not fit.
Footprint(m, grant) ==
  IF IsElastic(m) THEN Granted(grant) ELSE LesserOf(Size[m], FreeNow)

\* EstimateStore.estimate: learned beats seed.
Estimate(m) == IF m \in DOMAIN learned THEN learned[m] ELSE Seed[m]

\* EstimateStore.observe: keeps the peak, ignores a figure that is not positive.
Observe(m, measured) ==
  learned' = IF measured > (IF m \in DOMAIN learned THEN learned[m] ELSE 0)
             THEN Put(learned, m, measured) ELSE learned

Touch(m)  == lastUsed' = Put(lastUsed, m, now)
Forget(m) == lastUsed' = Without(lastUsed, m)

(***************************************************************************)
(* Moves of a coroutine.                                                   *)
(***************************************************************************)
GoTo(t, p) == pc' = [pc EXCEPT ![t] = p]

\* _load_mutex is an asyncio.Lock: waiters acquire it in the order they asked.
Enqueue(t, p) == GoTo(t, p) /\ mutex' = Append(mutex, t)

Release == mutex' = Tail(mutex)

\* Mutant: a waiter is let in while another task holds the mutex.
HasMutexShared(t) == t \in Range(mutex)

HasMutex(t) == mutex # <<>> /\ Head(mutex) = t

\* Out of the critical section by a return or an exception, locals dropped.
Leave(t, answer) ==
  /\ GoTo(t, answer)
  /\ Release
  /\ work' = [work EXCEPT ![t] = Locals(@.model)]

(***************************************************************************)
(* ensure_ready: the fast path takes no lock and reads no probe.  Its      *)
(* answer is true when the engine gives it; the coroutine acts on it when  *)
(* it resumes.                                                             *)
(***************************************************************************)
EnsureReady(t, m) ==
  /\ t \in Clients /\ pc[t] = "idle" /\ pc[Sweeper] # "adopt"
  /\ GoTo(t, "fast")
  /\ work' = [work EXCEPT ![t] = Locals(m)]
  /\ UNCHANGED <<mutex, lastUsed, learned, card, now>>

FastYes(t) ==
  /\ pc[t] = "fast" /\ "yes" \in IsReady(work[t].model)
  /\ GoTo(t, "hit")
  /\ UNCHANGED <<work, mutex, lastUsed, learned, card, now>>

FastHit(t) ==
  /\ pc[t] = "hit"
  /\ GoTo(t, "url") /\ Touch(work[t].model)
  /\ UNCHANGED <<work, mutex, learned, card, now>>

FastMiss(t) ==
  /\ pc[t] = "fast" /\ "no" \in IsReady(work[t].model)
  /\ Enqueue(t, "recheck")
  /\ UNCHANGED <<work, lastUsed, learned, card, now>>

FastError(t) ==
  /\ pc[t] = "fast" /\ "error" \in IsReady(work[t].model)
  /\ GoTo(t, "failed")
  /\ UNCHANGED <<work, mutex, lastUsed, learned, card, now>>

(***************************************************************************)
(* ensure_ready, under the mutex: check again, then measure.               *)
(***************************************************************************)
RecheckYes(t) ==
  /\ pc[t] = "recheck" /\ HasMutex(t) /\ "yes" \in IsReady(work[t].model)
  /\ Leave(t, "url") /\ Touch(work[t].model)
  /\ UNCHANGED <<learned, card, now>>

RecheckError(t) ==
  /\ pc[t] = "recheck" /\ HasMutex(t) /\ "error" \in IsReady(work[t].model)
  /\ Leave(t, "failed")
  /\ UNCHANGED <<lastUsed, learned, card, now>>

\* A measured budget, on its way through _apply_reserve: with no reserve the
\* coroutine goes straight on to `next`, otherwise it asks every engine.
Budgeted(t, locals, asking, next) ==
  /\ GoTo(t, IF Reserve = 0 THEN next ELSE asking)
  /\ work' = [work EXCEPT ![t] =
                [locals EXCEPT !.budget = Budget(FreeNow), !.slice = Reserve,
                               !.ask = IF Reserve = 0 THEN {} ELSE Engines]]

\* Mutant: no second is_ready under the mutex.
MeasureUnchecked(t) ==
  /\ pc[t] = "recheck" /\ HasMutex(t)
  /\ Budgeted(t, [work[t] EXCEPT !.free = FreeNow], "reserve", "decide")
  /\ UNCHANGED <<mutex, lastUsed, learned, card, now>>

Measure(t) ==
  /\ pc[t] = "recheck" /\ HasMutex(t) /\ "no" \in IsReady(work[t].model)
  /\ Budgeted(t, [work[t] EXCEPT !.free = FreeNow], "reserve", "decide")
  /\ UNCHANGED <<mutex, lastUsed, learned, card, now>>

\* Mutant: the slice forgets what the engines asked before already hold.
AskReserveForgets(t, e) ==
  /\ pc[t] \in {"reserve", "evictReserve"} /\ e \in work[t].ask
  /\ \E listed \in Resident(e) :
       LET left == work[t].ask \ {e}
           slice == Reserve - Bytes([m \in listed |-> Estimate(m)])
       IN  work' = [work EXCEPT ![t].ask = left, ![t].slice = slice,
                      ![t].budget = IF left = {} THEN GreaterOf(@, slice) ELSE @]
  /\ GoTo(t, IF work[t].ask # {e} THEN pc[t]
             ELSE IF pc[t] = "reserve" THEN "decide" ELSE "evict")
  /\ UNCHANGED <<mutex, lastUsed, learned, card, now>>

\* _apply_reserve, one engine: its configured residents shrink the slice by
\* their estimates.  The last answer floors the budget at what is left of it.
AskReserve(t, e) ==
  /\ pc[t] \in {"reserve", "evictReserve"} /\ e \in work[t].ask
  /\ \E listed \in Resident(e) :
       LET left == work[t].ask \ {e}
           slice == work[t].slice - Bytes([m \in listed |-> Estimate(m)])
       IN  work' = [work EXCEPT ![t].ask = left, ![t].slice = slice,
                      ![t].budget = IF left = {} THEN GreaterOf(@, slice) ELSE @]
  /\ GoTo(t, IF work[t].ask # {e} THEN pc[t]
             ELSE IF pc[t] = "reserve" THEN "decide" ELSE "evict")
  /\ UNCHANGED <<mutex, lastUsed, learned, card, now>>

\* Mutant: the requested model is a candidate like any other.
DecideWithItself(t) ==
  LET m == work[t].model
      evicting == Estimate(m) > work[t].budget /\ AutoEvict
  IN  /\ pc[t] = "decide"
      /\ GoTo(t, IF evicting THEN "evictMeasure" ELSE "admit")
      /\ work' = [work EXCEPT ![t].needed = Estimate(m),
                              ![t].todo = IF evicting THEN lastUsed ELSE Empty]
      /\ UNCHANGED <<mutex, lastUsed, learned, card, now>>

\* Mutant: auto_evict_idle is not looked at.
DecideToEvict(t) ==
  LET m == work[t].model
      evicting == Estimate(m) > work[t].budget
  IN  /\ pc[t] = "decide"
      /\ GoTo(t, IF evicting THEN "evictMeasure" ELSE "admit")
      /\ work' = [work EXCEPT ![t].needed = Estimate(m),
                              ![t].todo = IF evicting THEN Without(lastUsed, m) ELSE Empty]
      /\ UNCHANGED <<mutex, lastUsed, learned, card, now>>

\* needed > budget and auto_evict_idle: into _evict_idle_to_fit, with the
\* candidates as they are tracked now.
Decide(t) ==
  LET m == work[t].model
      evicting == Estimate(m) > work[t].budget /\ AutoEvict
  IN  /\ pc[t] = "decide"
      /\ GoTo(t, IF evicting THEN "evictMeasure" ELSE "admit")
      /\ work' = [work EXCEPT ![t].needed = Estimate(m),
                              ![t].todo = IF evicting THEN Without(lastUsed, m) ELSE Empty]
      /\ UNCHANGED <<mutex, lastUsed, learned, card, now>>

(***************************************************************************)
(* _evict_idle_to_fit.                                                     *)
(***************************************************************************)
\* Mutant: the budget is not measured again after an eviction.
EvictMeasureOnce(t) ==
  /\ \/ pc[t] = "evictMeasure" /\ Budgeted(t, work[t], "evictReserve", "evict")
     \/ pc[t] = "settle" /\ GoTo(t, "evict") /\ UNCHANGED work
  /\ UNCHANGED <<mutex, lastUsed, learned, card, now>>

\* On entry, and after each eviction once the driver's figure has settled.
EvictMeasure(t) ==
  /\ pc[t] \in {"evictMeasure", "settle"}
  /\ Budgeted(t, work[t], "evictReserve", "evict")
  /\ UNCHANGED <<mutex, lastUsed, learned, card, now>>

\* The candidates of a snapshot in sorted order; timestamps of one tick tie.
Oldest(todo) == {m \in DOMAIN todo : \A n \in DOMAIN todo : todo[m] <= todo[n]}

EvictOver(t) == work[t].needed <= work[t].budget \/ DOMAIN work[t].todo = {}

\* Mutant: a victim remains a candidate.
EvictNextAgain(t) ==
  /\ pc[t] = "evict" /\ ~ EvictOver(t)
  /\ \E v \in Oldest(work[t].todo) : work' = [work EXCEPT ![t].victim = v]
  /\ GoTo(t, "victim")
  /\ UNCHANGED <<mutex, lastUsed, learned, card, now>>

EvictNext(t) ==
  /\ pc[t] = "evict" /\ ~ EvictOver(t)
  /\ \E v \in Oldest(work[t].todo) :
       work' = [work EXCEPT ![t].victim = v, ![t].todo = Without(@, v)]
  /\ GoTo(t, "victim")
  /\ UNCHANGED <<mutex, lastUsed, learned, card, now>>

VictimGone(t) ==
  /\ pc[t] = "victim" /\ "no" \in IsReady(work[t].victim)
  /\ GoTo(t, "evict") /\ Forget(work[t].victim)
  /\ UNCHANGED <<work, mutex, learned, card, now>>

VictimUp(t) ==
  /\ pc[t] = "victim" /\ "yes" \in IsReady(work[t].victim)
  /\ GoTo(t, "evictUnload")
  /\ UNCHANGED <<work, mutex, lastUsed, learned, card, now>>

EvictUnload(t) ==
  /\ pc[t] = "evictUnload"
  /\ GoTo(t, "settle")
  /\ held' = Without(held, work[t].victim) /\ Forget(work[t].victim)
  /\ UNCHANGED <<work, mutex, learned, oob, now>>

\* is_ready or unload of the victim raises: so does ensure_ready.
EvictFails(t) ==
  /\ \/ pc[t] = "victim" /\ "error" \in IsReady(work[t].victim)
     \/ pc[t] = "evictUnload" /\ "fail" \in Faults
  /\ Leave(t, "failed")
  /\ UNCHANGED <<lastUsed, learned, card, now>>

\* Back in ensure_ready, which measures again for observe().
EvictDone(t) ==
  /\ pc[t] = "evict" /\ EvictOver(t)
  /\ GoTo(t, "admit")
  /\ work' = [work EXCEPT ![t].free = FreeNow, ![t].todo = Empty, ![t].victim = None]
  /\ UNCHANGED <<mutex, lastUsed, learned, card, now>>

(***************************************************************************)
(* ensure_ready: admit by the budget, then by the physical measurement.    *)
(***************************************************************************)
Fits(w) == w.needed <= w.budget /\ w.needed <= w.free

AdmitLoad(t) ==
  /\ pc[t] = "admit" /\ Fits(work[t])
  /\ GoTo(t, "load")
  /\ UNCHANGED <<work, mutex, lastUsed, learned, card, now>>

AdmitRoom(t) ==
  /\ pc[t] = "admit" /\ MakeRoom
  /\ work[t].needed <= work[t].budget /\ work[t].needed > work[t].free
  /\ GoTo(t, "room")
  /\ UNCHANGED <<work, mutex, lastUsed, learned, card, now>>

AdmitRefuse(t) ==
  /\ pc[t] = "admit" /\ ~ Fits(work[t])
  /\ work[t].needed <= work[t].budget => ~ MakeRoom
  /\ GoTo(t, "refuse")
  /\ UNCHANGED <<work, mutex, lastUsed, learned, card, now>>

\* What may be left of the out-of-band use once a claim has been released: the
\* driver pages some of it out, or none.
Paged == {level \in OobLevels : level <= oob}

\* Mutant: the claim is trusted, and the card not measured again.
RoomTrusted(t) ==
  /\ pc[t] = "room"
  /\ \E level \in Paged : oob' = level
  /\ GoTo(t, "load")
  /\ UNCHANGED <<work, mutex, lastUsed, learned, held, now>>

\* _make_room: the claim pages out-of-band memory out and the card is measured
\* again; a claim that fails leaves the old measurement.
RoomMade(t) ==
  /\ pc[t] = "room"
  /\ \E level \in Paged :
     \E failed \in BOOLEAN :
       /\ failed => level = oob
       /\ oob' = level
       /\ LET free == IF failed THEN work[t].free ELSE Free(held, level)
          IN  /\ work' = [work EXCEPT ![t].free = free]
              /\ GoTo(t, IF work[t].needed > free THEN "refuse" ELSE "load")
  /\ UNCHANGED <<mutex, lastUsed, learned, held, now>>

\* _refuse: asks the engines what is resident, alerts, raises NotEnoughVram.
Refuse(t) ==
  /\ pc[t] = "refuse"
  /\ Leave(t, "refused")
  /\ UNCHANGED <<lastUsed, learned, card, now>>

(***************************************************************************)
(* ensure_ready: backend.load(model, min(needed, budget), total), and what *)
(* follows it.  The engine takes its memory some time before the call      *)
(* returns, and from then on answers is_ready with "yes".                  *)
(***************************************************************************)
\* What the engine is told it may take.
Handed(w) == LesserOf(w.needed, w.budget)

\* An elastic engine serves one model: load first unloads the one it has.
Occupied(t) ==
  IsElastic(work[t].model) /\ InEngine(EngineOf[work[t].model]) # {}

StopOccupant(t) ==
  /\ pc[t] = "load" /\ Occupied(t)
  /\ held' = Restrict(held, DOMAIN held \ InEngine(EngineOf[work[t].model]))
  /\ UNCHANGED <<pc, work, mutex, lastUsed, learned, oob, now>>

\* The engine allocates.  vLLM cannot start in less than it was told to take.
Allocate(t) ==
  LET m == work[t].model
      bytes == Footprint(m, Handed(work[t]))
  IN  /\ bytes <= FreeNow
      /\ held' = Put(held, m, IF m \in DOMAIN held THEN held[m] ELSE bytes)

EngineLoads(t) ==
  /\ pc[t] = "load" /\ ~ Occupied(t)
  /\ Allocate(t)
  /\ GoTo(t, "loaded")
  /\ UNCHANGED <<work, mutex, lastUsed, learned, oob, now>>

\* BackendError, with nothing left behind on the card.
LoadFails(t) ==
  /\ pc[t] = "load" /\ ~ Occupied(t)
  /\ \/ "fail" \in Faults
     \/ Footprint(work[t].model, Handed(work[t])) > FreeNow
  /\ Leave(t, "failed")
  /\ UNCHANGED <<lastUsed, learned, card, now>>

\* BackendError, because the answer of an Ollama that did load was lost.
LoadAnswerLost(t) ==
  /\ pc[t] = "load" /\ "lost" \in Faults /\ ~ IsElastic(work[t].model)
  /\ Allocate(t)
  /\ Leave(t, "failed")
  /\ UNCHANGED <<lastUsed, learned, oob, now>>

\* Mutant: the model is not touched.
LoadReturnsUntouched(t) ==
  /\ pc[t] = "loaded"
  /\ Leave(t, "url")
  /\ UNCHANGED <<lastUsed, learned, card, now>>

\* load returned: measure again, learn from it unless the engine took what it
\* was handed, touch, return the URL.
LoadReturns(t) ==
  LET m == work[t].model IN
  /\ pc[t] = "loaded"
  /\ IF IsElastic(m) THEN UNCHANGED learned ELSE Observe(m, work[t].free - FreeNow)
  /\ Leave(t, "url") /\ Touch(m)
  /\ UNCHANGED <<card, now>>

\* A probe.read inside the critical section raises, and nothing catches it.
ProbeFails(t) ==
  /\ "probe" \in Faults
  /\ \/ pc[t] = "recheck" /\ HasMutex(t) /\ "no" \in IsReady(work[t].model)
     \/ pc[t] \in {"evictMeasure", "settle", "room", "loaded"}
     \/ pc[t] = "evict" /\ EvictOver(t)
  /\ Leave(t, "error")
  /\ UNCHANGED <<lastUsed, learned, card, now>>

(***************************************************************************)
(* unload_model, and the body of stop_idle's loop, which is the same: under*)
(* the mutex unload the model if it is ready, and in either case forget it *)
(* on the way out.  The sweep then goes on with its next model.            *)
(***************************************************************************)
UnloadModel(t, m) ==
  /\ t \in Clients /\ pc[t] = "idle" /\ pc[Sweeper] # "adopt"
  /\ Enqueue(t, "check")
  /\ work' = [work EXCEPT ![t] = Locals(m)]
  /\ UNCHANGED <<lastUsed, learned, card, now>>

Unloaded(t) ==
  /\ GoTo(t, IF t = Sweeper THEN "sweep" ELSE "done")
  /\ Release /\ Forget(work[t].model)

\* Mutant: a model that is already gone is left in the table.
CheckNoKeeps(t) ==
  /\ pc[t] = "check" /\ HasMutex(t) /\ "no" \in IsReady(work[t].model)
  /\ GoTo(t, IF t = Sweeper THEN "sweep" ELSE "done") /\ Release
  /\ UNCHANGED <<work, lastUsed, learned, card, now>>

CheckNo(t) ==
  /\ pc[t] = "check" /\ HasMutex(t) /\ "no" \in IsReady(work[t].model)
  /\ Unloaded(t)
  /\ UNCHANGED <<work, learned, card, now>>

CheckYes(t) ==
  /\ pc[t] = "check" /\ HasMutex(t) /\ "yes" \in IsReady(work[t].model)
  /\ GoTo(t, "unload")
  /\ UNCHANGED <<work, mutex, lastUsed, learned, card, now>>

Unload(t) ==
  /\ pc[t] = "unload"
  /\ held' = Without(held, work[t].model)
  /\ Unloaded(t)
  /\ UNCHANGED <<work, learned, oob, now>>

\* Mutant: the model is forgotten although its unload failed.
UnloadFailsForgets(t) ==
  /\ \/ pc[t] = "check" /\ HasMutex(t) /\ "error" \in IsReady(work[t].model)
     \/ pc[t] = "unload" /\ "fail" \in Faults
  /\ Leave(t, "failed") /\ Forget(work[t].model)
  /\ UNCHANGED <<learned, card, now>>

\* is_ready or unload raises: the call fails, or the whole sweep is abandoned.
UnloadFails(t) ==
  /\ \/ pc[t] = "check" /\ HasMutex(t) /\ "error" \in IsReady(work[t].model)
     \/ pc[t] = "unload" /\ "fail" \in Faults
  /\ Leave(t, "failed")
  /\ UNCHANGED <<lastUsed, learned, card, now>>

(***************************************************************************)
(* stop_idle.  The models to stop are picked before the first mutex        *)
(* acquisition; their order, which is any order here, is in IdleSweep.tla. *)
(***************************************************************************)
IsExpired(m) == m \in DOMAIN lastUsed /\ now - lastUsed[m] >= Ttl

Expired == {m \in Models : IsExpired(m)}

StartSweep ==
  /\ Ttl > 0 /\ pc[Sweeper] = "idle" /\ Expired # {}
  /\ GoTo(Sweeper, "sweep")
  /\ work' = [work EXCEPT ![Sweeper].todo = Restrict(lastUsed, Expired)]
  /\ UNCHANGED <<mutex, lastUsed, learned, card, now>>

\* Mutant: the model is forgotten before the mutex is waited for.
SweepNextForgets ==
  /\ pc[Sweeper] = "sweep"
  /\ \E m \in DOMAIN work[Sweeper].todo :
       /\ work' = [work EXCEPT ![Sweeper].model = m, ![Sweeper].todo = Without(@, m)]
       /\ Forget(m)
  /\ Enqueue(Sweeper, "check")
  /\ UNCHANGED <<learned, card, now>>

SweepNext ==
  /\ pc[Sweeper] = "sweep"
  /\ \E m \in DOMAIN work[Sweeper].todo :
       work' = [work EXCEPT ![Sweeper].model = m, ![Sweeper].todo = Without(@, m)]
  /\ Enqueue(Sweeper, "check")
  /\ UNCHANGED <<lastUsed, learned, card, now>>

EndSweep ==
  /\ pc[Sweeper] = "sweep" /\ DOMAIN work[Sweeper].todo = {}
  /\ GoTo(Sweeper, "idle")
  /\ work' = [work EXCEPT ![Sweeper] = Locals(None)]
  /\ UNCHANGED <<mutex, lastUsed, learned, card, now>>

\* A finished call goes back to its caller; an abandoned sweep is logged and
\* the loop sleeps again.
Respond(t) ==
  /\ pc[t] \in Answers
  /\ GoTo(t, "idle")
  /\ work' = [work EXCEPT ![t] = Locals(None)]
  /\ UNCHANGED <<mutex, lastUsed, learned, card, now>>

(***************************************************************************)
(* adopt_resident, one engine: before the gateway serves, touch what it    *)
(* lists.  An engine that raises is skipped.                               *)
(***************************************************************************)
\* Mutant: what the engine lists is not touched.
AdoptNothing(e) ==
  /\ pc[Sweeper] = "adopt" /\ e \in work[Sweeper].ask
  /\ work' = [work EXCEPT ![Sweeper].ask = @ \ {e}]
  /\ GoTo(Sweeper, IF work[Sweeper].ask = {e} THEN "idle" ELSE "adopt")
  /\ UNCHANGED <<mutex, lastUsed, learned, card, now>>

Adopt(e) ==
  /\ pc[Sweeper] = "adopt" /\ e \in work[Sweeper].ask
  /\ \E listed \in Resident(e) : lastUsed' = PutAll(lastUsed, listed, now)
  /\ work' = [work EXCEPT ![Sweeper].ask = @ \ {e}]
  /\ GoTo(Sweeper, IF work[Sweeper].ask = {e} THEN "idle" ELSE "adopt")
  /\ UNCHANGED <<mutex, learned, card, now>>

(***************************************************************************)
(* The rest of the box.                                                    *)
(***************************************************************************)
Tick ==
  /\ now < MaxTime
  /\ now' = now + 1
  /\ UNCHANGED <<pc, work, mutex, lastUsed, learned, card>>

OobMoves ==
  /\ "oob" \in Faults
  /\ \E level \in OobLevels \ {oob} : Free(held, level) >= 0 /\ oob' = level
  /\ UNCHANGED <<pc, work, mutex, lastUsed, learned, held, now>>

EngineDrops ==
  /\ "drop" \in Faults
  /\ \E m \in DOMAIN held : held' = Without(held, m)
  /\ UNCHANGED <<pc, work, mutex, lastUsed, learned, oob, now>>

DirectLoad ==
  /\ "direct" \in Faults
  /\ \E m \in Models \ DOMAIN held :
       ~ IsElastic(m) /\ held' = Put(held, m, Footprint(m, 0))
  /\ UNCHANGED <<pc, work, mutex, lastUsed, learned, oob, now>>

(***************************************************************************)
(* The specification.                                                      *)
(***************************************************************************)
\* What a previous life may have left resident: models that fit together, at
\* most one to an elastic engine.
Leftover ==
  {h \in {[m \in S |-> IF IsElastic(m) THEN Granted(Seed[m]) ELSE Size[m]] :
            S \in SUBSET Models} :
     /\ \A m, n \in DOMAIN h : EngineOf[m] = EngineOf[n] /\ IsElastic(m) => m = n}

\* A process that has just started: nobody calls, and every engine is to be asked
\* what it has.
FreshPc == [t \in Task |-> IF t = Sweeper THEN "adopt" ELSE "idle"]

FreshWork ==
  [t \in Task |-> [Locals(None) EXCEPT !.ask = IF t = Sweeper THEN Engines ELSE {}]]

\* The box at that time.
Found == held \in Leftover /\ oob \in OobLevels /\ FreeNow >= 0 /\ now = 0

Init ==
  /\ pc = FreshPc /\ work = FreshWork /\ mutex = <<>>
  /\ lastUsed = Empty /\ learned = Empty
  /\ Found

\* A coroutine in flight goes on to its next await.
Advance(t) ==
  /\ \A u \in Task \ {t} : pc[u] \notin Running
  /\ \/ FastYes(t) \/ FastHit(t) \/ FastMiss(t) \/ FastError(t)
     \/ RecheckYes(t) \/ RecheckError(t) \/ Measure(t)
     \/ \E e \in Engines : AskReserve(t, e)
     \/ Decide(t)
     \/ EvictMeasure(t) \/ EvictNext(t) \/ VictimGone(t) \/ VictimUp(t)
     \/ EvictUnload(t) \/ EvictFails(t) \/ EvictDone(t)
     \/ AdmitLoad(t) \/ AdmitRoom(t) \/ AdmitRefuse(t) \/ RoomMade(t) \/ Refuse(t)
     \/ StopOccupant(t) \/ EngineLoads(t) \/ LoadFails(t) \/ LoadAnswerLost(t)
     \/ LoadReturns(t) \/ ProbeFails(t)
     \/ CheckNo(t) \/ CheckYes(t) \/ Unload(t) \/ UnloadFails(t)
     \/ Respond(t)

Sweep ==
  /\ \A u \in Clients : pc[u] \notin Running
  /\ StartSweep \/ SweepNext \/ EndSweep \/ \E e \in Engines : Adopt(e)

Arrive ==
  /\ \A u \in Task : pc[u] \notin Running
  /\ \E t \in Clients, m \in Models : EnsureReady(t, m) \/ UnloadModel(t, m)

Box == Tick \/ OobMoves \/ EngineDrops \/ DirectLoad

Next == (\E t \in Task : Advance(t)) \/ Sweep \/ Arrive \/ Box

Spec == Init /\ [][Next]_vars

\* Every coroutine that keeps being able to run does run: the event loop takes
\* ready coroutines in turn, and every request to an engine is answered or
\* times out.  Nothing obliges a client to call or the rest of the box to act.
Fairness == (\A t \in Task : SF_vars(Advance(t))) /\ SF_vars(Sweep)

FairSpec == Spec /\ Fairness

(***************************************************************************)
(* Properties.                                                             *)
(***************************************************************************)
\* Dictionaries from models to times, and to bytes.
Stamps == UNION {[D -> 0 .. MaxTime] : D \in SUBSET Models}

IsByteCount(f) == \E D \in SUBSET Models : f \in [D -> Nat]

\* The points of a coroutine that has a model in hand.
Asking == {"fast", "hit"} \cup AtDoor \cup Inside

LocalsType ==
  [ model : Models \cup {None}, needed : Nat, budget : Nat, free : Int,
    ask : SUBSET Engines, slice : Int, todo : Stamps,
    victim : Models \cup {None} ]

TypeOK ==
  /\ pc \in [Task -> Points]
  /\ work \in [Task -> LocalsType]
  /\ \A t \in Task : pc[t] \in Asking => work[t].model \in Models
  /\ mutex \in Seq(Task)
  /\ lastUsed \in Stamps /\ now \in 0 .. MaxTime
  /\ IsByteCount(learned) /\ IsByteCount(held)
  /\ oob \in OobLevels /\ FreeNow >= 0

\* From the measurement to the answer of the engine, at most one task is in the
\* load routine: "guarded by a single load-mutex so only one load is ever in
\* flight" (README).  An exit that forgets the mutex, or takes another's, shows.
OneLoadAtATime == \A t, u \in Task : pc[t] \in Inside /\ pc[u] \in Inside => t = u

\* The points of ensure_ready between its second is_ready and the allocation.
Admitting == Inside \ {"loaded", "unload"}

\* A model that is resident is not loaded again over itself, whoever else asked
\* for it in the meantime: what the second is_ready, under the mutex, is for.
NoDoubleLoad ==
  \A t \in Task : pc[t] \in Admitting => work[t].model \notin DOMAIN held

\* "Measure immediately before allocating, inside the mutex, so the free figure
\* can't go stale under a concurrent load" (README): when the engine is started,
\* what the model needs is still physically free.
FreeFigureHolds ==
  \A t \in Task : pc[t] = "load" => work[t].needed <= FreeNow

\* "Loads made through coload are safe by construction" (watchdog.py): no load
\* takes the card over the line that the buffer draws, by more than the rounding
\* of vLLM's share.
LoadsStayUnderTheLine ==
  [][\A t \in Task : pc[t] = "load" /\ pc'[t] = "loaded"
       => 2 * (Buffer - FreeNow') <= Grain]_vars

\* "Refusals are honest" (gateway.py): when a call is refused the model does not
\* fit, and with auto-eviction nothing is left on the card that could go.
RefusalsAreHonest ==
  \A t \in Clients : pc[t] = "refuse" =>
    /\ work[t].needed > Budget(FreeNow)
    /\ AutoEvict => DOMAIN held = {}

\* With a reserve, a load is admitted only within the measured budget, or within
\* the slice: the reserve less what the residents are estimated at, but for those
\* that Ollama does not list under their configured name.
SliceNotOverdrawn ==
  \A t \in Task : pc[t] = "load" =>
    \/ work[t].needed <= Budget(FreeNow)
    \/ work[t].needed + Bytes([m \in DOMAIN held \ Untagged |-> Estimate(m)]) <= Reserve

\* "Coload must never lose track of a model it is responsible for" (tests): a
\* resident configured model is tracked, so that the sweep and auto-evict can
\* find it, unless its load is about to return or its engine is yet to adopt.
NeverLosesTrack ==
  \A m \in DOMAIN held :
    \/ m \in DOMAIN lastUsed
    \/ \E t \in Task : pc[t] = "loaded" /\ work[t].model = m
    \/ pc[Sweeper] = "adopt" /\ EngineOf[m] \in work[Sweeper].ask

\* "Only models this orchestrator has itself touched are candidates": at every
\* await of an eviction pass, however long it lasts, the models it may still
\* evict are tracked, and the model it makes room for is not among them.
EvictsOnlyTracked ==
  \A t \in Clients : pc[t] \in Inside =>
    LET doomed == DOMAIN work[t].todo
                    \cup (IF pc[t] \in {"victim", "evictUnload"} THEN {work[t].victim} ELSE {})
    IN  doomed \subseteq DOMAIN lastUsed \ {work[t].model}

\* An eviction happens only while the model does not fit: had the victim been
\* left alone the load would have been refused.
NoNeedlessEviction ==
  [][\A t \in Clients : pc[t] = "evictUnload" /\ pc'[t] = "settle"
       => work[t].needed > Budget(FreeNow)]_vars

\* Every call that is made is answered, whatever the other calls, the sweep and
\* the engines do: no exit keeps the mutex, no eviction pass goes on for ever.
EveryCallAnswered ==
  \A t \in Clients :
    pc[t] \notin Answers \cup {"idle"} ~> pc[t] \in Answers

\* "Stop a backend after this long idle" (README): a model idle past the TTL is
\* stopped and forgotten, or used again, unless sweep after sweep fails.
IdleEventuallyStopped ==
  \A m \in Models : []<>(pc[Sweeper] = "failed") \/ (IsExpired(m) ~> ~ IsExpired(m))

\* "Stop a backend after this long idle", for the models of vLLM, whose is_ready
\* never raises: an Ollama that is down does not keep the idle models of another
\* engine on the card, though every sweep fails.
OthersStillStopped ==
  \A m \in Models : IsElastic(m) => (IsExpired(m) ~> ~ IsExpired(m))

\* "Unload models idle past the TTL" (stop_idle): and no others.
SweepStopsOnlyIdle ==
  [][pc[Sweeper] = "unload" /\ pc'[Sweeper] = "sweep"
       => IsExpired(work[Sweeper].model)]_vars

=============================================================================
