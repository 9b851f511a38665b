# coload in TLA+

coload is one asyncio process that lets an Ollama and any number of vLLM
engines share one GPU: it measures the card before every load, admits a load
only if it fits, evicts or refuses otherwise, stops idle models and watches the
card for anything else that grows. This directory holds its specification.

    Vram ──┬── Orchestrator ──┬── Refinement ── MCOrchestrator   core, storm, sweep_stale,
           │                  │        │                          health_orphan, untagged
           │                  │    Admission (abstract, instantiated)
           │                  ├── IdleSweep ── MCIdleSweep       head_of_line
           │                  ├── Life ── MCLife                 rough
           │                  └── Gateway ── MCGateway           proxy, reload
           └── Watchdog ── MCWatchdog                            watchdog, silenced
    Vllm, Ollama ── Backends ── MCBackends                       backends

    VramProofs ──┬── OrchestratorProofs ── AdmissionProofs ── BudgetProofs ──┬── RefinementProofs (Refinement, IdleSweep)
                 │                                                           └── ServiceProofs (Life, Gateway)
                 └── WatchdogProofs
    BackendsProofs

Parse with SANY, check with `tlc -config <run>.cfg <MC module>`, prove with
`tlapm <X>Proofs.tla`. Paths below are relative to the repository; the Python
package is `src/coload/`.

## 1. The system

| Component | State | Operations | Talks to | Hard behaviour | Correct when |
|---|---|---|---|---|---|
| `orchestrator.py` | `_load_mutex`, `_last_used`, coroutine locals | `ensure_ready`, `unload_model`, `stop_idle`/`run_ttl_loop`, `adopt_resident`, `_evict_idle_to_fit`, `_apply_reserve`, `_make_room`, `_refuse` | backends, probe, estimates, alerter, room maker | every await lets another request, the sweep or the card move; a dozen exits from one critical section; engines raise anywhere | one load in flight, measured where it allocates, only tracked models evicted, nothing resident forgotten, every call answered |
| `vram.py` | none (a reading of the card) | `read`, `free`, `budget` | NVML, nvidia-smi | the figure is stale at once; `budget` clamps at zero | no load crosses the safe line |
| `estimates.py` | `_learned`, a JSON file | `estimate`, `observe`, `_load`, `_save` | orchestrator, disk | learning from the difference of two readings of a shared card; a restart in mid-write | an estimate never shrinks |
| `backends/base.py` | none | the `Backend` protocol | orchestrator | answers may be late, false or exceptions | |
| `backends/vllm.py` | `_process`, `_model`, `_rediscovered` | `is_ready`, `load`, `unload`, `resident_models`, `_rediscover`, `_teardown`, `_wait_healthy` | process launcher, `/health`, `/v1/models` | detached starters, one rediscovery, stop deadline, a flapping health check, a rounded share | one model per engine; what it says matches the card |
| `backends/ollama.py` | none (the daemon's) | `is_ready`, `load`, `unload`, `resident_models` | `/api/ps`, `/api/generate`, `/api/embed` | lost answers, untagged names, pin TTL | idem |
| `backends/registry.py` | none | build backends from the configuration | | none | |
| `gateway.py` | requests in flight | proxy, unload, status | orchestrator, engines | a stream outlives its admission | no answer cut by a sweep or an eviction |
| `watchdog.py` | `_over` | `check_once`, `run` | probe, alerter | edge detection around an awaited send | one alert per excursion |
| `alerts.py` | `_last_sent` | `RateLimitedAlerter.send`, `MultiAlerter.send`, sinks | log, webhook | two senders share one limiter; a sink fails or is slow | nobody is left in the dark |
| `room.py` | none (a CUDA allocation) | `make_room` | driver | pages out some memory, or none | the caller measures again |
| `runtime.py` | tasks | wiring, adopt, start, stop | everything | adoption before serving | |
| `config.py` | `Config` | validators | | pin against TTL, unique models | |
| `logs.py`, `cli.py` | none | formatting, argument parsing, HTTP client | | none | |

Everything runs on one event loop. Shared state is `_last_used`, `_load_mutex`,
`EstimateStore._learned`, the rate limiter's `_last_sent` and, outside of
Python, the card. The hazards, each at its line and with the property that
watches it, are listed in `PROJECT.json`.

## 2. What the modules model

### Vram
`VramSnapshot.free`, `.budget` (clamped at zero) and the share
`round(budget / total, 2)` that `VllmBackend.load` asks for. The card is two
variables of the modules above it: `held`, what each resident model occupies,
and `oob`, everything else. `Bytes` sums a function by counting its (key, byte)
pairs, so that sums can be reasoned about without recursion.

### Orchestrator
A **task** is a coroutine: a client's `ensure_ready` or `unload_model`, or the
sweep. `pc[t]` names the `await` it is suspended at, `work[t]` holds its locals
(`model`, `needed`, `budget`, `before.free`, the engines `_apply_reserve` still
has to ask and the slice that is left, the candidates still to try, the
victim). An action is what a coroutine does from one await to the next. Where
such a stretch has several stages, its inner points are in `Running`: while a
task is at one, `Advance`, `Sweep` and `Arrive` of the others are disabled, as
the event loop never leaves a coroutine that does not await. `Box` (clock,
other programs, engines acting by themselves) may move even then.

| Code | Actions |
|---|---|
| `ensure_ready`, fast path | `EnsureReady`, `FastYes` then `FastHit`, `FastMiss`, `FastError` |
| second `is_ready` under the mutex | `RecheckYes`, `RecheckError`, `Measure` |
| `_apply_reserve` | `AskReserve`, one engine each |
| `needed > budget` | `Decide` |
| `_evict_idle_to_fit` | `EvictMeasure`, `EvictNext`, `VictimGone`, `VictimUp`, `EvictUnload`, `EvictFails`, `EvictDone` |
| admission, `_make_room`, `_refuse` | `AdmitLoad`, `AdmitRoom`, `AdmitRefuse`, `RoomMade`, `Refuse` |
| `backend.load` and after | `StopOccupant`, `EngineLoads`, `LoadFails`, `LoadAnswerLost`, `LoadReturns` |
| `probe.read` raises | `ProbeFails` |
| `unload_model`, loop body of `stop_idle` | `UnloadModel`, `CheckNo`, `CheckYes`, `Unload`, `UnloadFails` |
| `stop_idle`, `run_ttl_loop` | `StartSweep`, `SweepNext`, `EndSweep` |
| `adopt_resident` | `Adopt` |

`mutex` is the `asyncio.Lock`: its holder first, the waiters behind it in the
order in which they asked. `fast` and `hit` are two points because the answer
of `is_ready` is true when the engine gives it and is used when the coroutine
resumes. `load` and `loaded` are two because an engine holds its memory, and
answers `is_ready`, before the call returns.

The engines are seen through the interface: `IsReady` and `Resident` are the
*sets* of answers an engine may give. `Faults` says what may go wrong in a run:
`oob`, `direct` (a user loads into Ollama), `drop` (pin TTL, crash), `down`
(Ollama raises), `health` and `silent` (a momentary `/health` failure, seen by
`is_ready` or by `resident_models`), `fail` (load or unload), `lost` (an Ollama
that loads but whose answer is lost), `probe`.

A behaviour is one life of the process. It begins with any set of models that
fits on the card, at most one per vLLM, as a previous life may have left it,
and adopts before it serves. `Life` joins several of them.

Coarser than the code, always towards more behaviours: the sweep takes expired
models, and `_apply_reserve` asks engines, in any order (the code: dictionary
order, which IdleSweep has for the sweep); candidates touched in the same tick
tie (the code: by name); an
out-of-band figure jumps among the members of `OobLevels`. `EVICT_SETTLE_S` is
taken to be long enough for the driver to settle: one measurement afterwards
reads the card as it is. `status` changes nothing and has no action.

### IdleSweep
`stop_idle` with the order of its list: `order` is the insertion order of
`_last_used` (a touch of a key that is there keeps its place, a pop and a new
touch put it last), `expired` the list that the sweep has made of it. Every
step is one of Orchestrator (`OrderedSweepIsASweep`), so the module only takes
behaviours away. It is what a property about *which* model a sweep gets to needs.

### Watchdog
`check_once` as one step up to its awaited send (`CheckOnce`), the send as one
`Deliver` per sink and a `Sent` when it returns and `_over` is assigned;
`Refuse` is the orchestrator's alert through the same `RateLimitedAlerter`.
A probe that fails is logged and changes nothing: a stutter. A refusal whose
alert is dropped is a stutter as well. `riseAt` and `told` are history
variables; no guard reads them. The watchdog is modelled apart from the
orchestrator: they share nothing but the limiter, and `Refuse` may happen
whenever no other refusal is in flight, which the load mutex sees to.

### Admission and Refinement
`Admission` says what coload promises of the card without mutex, measurement,
pass or coroutine: models come one at a time, within the line (less the
rounding of vLLM's share), never over themselves; what came is tracked for as
long as it is there; only what is tracked leaves, whether as a victim, by the
sweep, by request, or as the occupant of a vLLM that is asked for another
model. `Refinement` maps Orchestrator to it: tracked is the domain of
`_last_used`, and a load is in flight from the decision to the return
(`InFlight`). `KeepsPromise` is `Promised!Spec`: the initial state and every
step. It is stronger than the invariants taken one by one, because it relates
every two successive states: a model can leave the card only in a step that may
take it.

### Life
Orchestrator with the estimates file and restarts. `Save` follows every step in
which something was learned; `LoadUnsaved` is a `_save` that raises: the figure
is learned, the model is not touched, the caller gets an error. `Crash` drops
every coroutine, the mutex and `_last_used`, reads the file and starts with
adoption. `Read` is `_load`, which takes a file that it cannot read or make out
for an empty one (`misread` remembers that it did). A load in flight has by then
come up or been given up; one that takes longer is in Vllm (a starter under way)
and Ollama (`late`). A vLLM engine whose process coload owns (`owned`) is not
looked for by the next life: what survives of it becomes out-of-band use, within
`OobLevels` (`Survives`); what happens on its port is in Vllm (`stray`). What is
configured without its tag (`Untagged`) stays on the card and is not adopted. A
shutdown cancels the tasks and keeps nothing else, so it is a crash too. `_save`
writes a temporary file and replaces the old one by it: a crash finds either.

### Gateway
`http[t]` is the request of client t: `called` while the orchestrator has it,
`send` between the return of `ensure_ready` and its arrival at the engine,
`stream` while the answer goes out, `replied` with a status. `Reject` is a body
that is not JSON or names no model (400), names none that is configured (404) or
is no object (500), `StatusOf` the answer for each outcome. `Upstream` is the
arrival: the engine serves it, or a vLLM that is gone or serves another model
fails it; `UpstreamLoads` is an Ollama that no longer has the model and loads
it, and `UpstreamFails` a connection that fails whatever the engine holds. A vLLM that is stopped breaks
its streams (`BreakStreams`); Ollama is taken to end them first.

### Vllm
One engine, owned or detached (`detached`: there is a stop command). `engine`
is the one that coload started, `stray` an owned one that outlived the coload
which started it; a starter and a stop command are processes with their own
steps. A starter may bring its engine up, find another one there, or fail, and a
stop command may exit without having stopped anything: coload looks at neither's
exit status. `pc` is the await of the call in progress. Deadlines fire at any
moment at which they are awaited.

| Code | Actions |
|---|---|
| `_rediscover` at start-up | `NothingToRediscover` (owned), `Rediscover`, `Rediscovered` |
| `load` | `Load`, then `StopCommand` and `Torn` over an occupant, `Launch` |
| `_wait_healthy` | `PollHealthy`, `PollDead`, `HealthDeadline` |
| `unload`, `_teardown` | `Unload`, `Stopped`, `StopDeadline`, `TerminateOwned` |
| a restart of coload | `Restart` |
| the processes | `StarterExits`, `StopperExits`, `EngineUp`, `EngineDies` |

`trouble` is a history of what went wrong: `missed` (the one rediscovery came
before the engine answered), `overrun` (a stop command outlived its deadline or
coload), `unstopped` (it exited and left the engine there was), `late` (a starter
brought an engine up behind it), `stray`, `died`, `slow`. Each property names the
troubles that excuse it and thereby states which of them really break it; under
any other trouble it must hold. The lists are the least ones: without any one of
their members TLC finds the property violated.

### Ollama
The daemon's pins (`left`) against the table that coload's sweep goes by
(`idle`), both in relative time, and the time until the sweep looks again
(`nap`, at most `Period`). `Load` and `Unload` begin a request of `_keep_alive`;
the daemon refuses it (`CannotGenerate`) or does what it is asked (`Carry`),
coload goes on to the other endpoint (`FallBack`) or takes the answer
(`Answered`), and the two need not meet: `Failed` is an answer that is lost or
negative, and `Abandoned` what the daemon may still make of a request whose
caller is gone, a load that only comes later (`late`) included. `KeepAlive` is
`int(pin_ttl_s) or -1`: fractions of a second are dropped, and none left is the
indefinite pin. `Accepts` is the validator of `config.py`.

A request that was admitted is `unserved` until it reaches the daemon, and the
model may have left by then: `Serve` renews the pin of a model that is there,
`OnDemand` is a load that coload is not told of, kept for as long as Ollama keeps
models by itself (`OwnPin`). `Ready` alone, which is all that `POST /models/load`
of a resident model does, renews only coload's clock. `SweepEnds` starts the next
nap; a sweep may be at work for any time, waiting for the load mutex.

### Backends
The registry: `kind` picks the adapter. The two share no state, so one
specification runs either of them, and one run checks both.

## 3. What the runs show

The card of the orchestrator's runs has ten units, two of them headroom, one
`Grain` each; the models take three to five, so two fit and three do not, and
with one of the larger ones resident some other is admitted or refused
according to `oob`. One tick is one TTL: `Ttl = MaxTime = 1` distinguishes a
model that has just been used from one that is due. `MaxTime`, `OobLevels`, and
in Watchdog `Levels` and `MaxTime`, are the bounds; TLC explores all states
within them. Two clients and the sweep are three tasks: a holder, a waiter, and
one on the fast path, which is every role the mutex distinguishes. Clients are
symmetric where only safety is checked.

In `core` a grain is two units, so that a budget can be rounded up and down. In
`rough` there is one client, one restart, and a file with a figure above or below
the truth; three models fit on the card together and their estimates exceed the
reserve, so that the slice gets negative, and one of them has no tag. `storm`
has one client, two models and a card too small for both: with every fault at
once a second client is out of reach, and the theorems cover any number. Its sweep
takes the models in any order, that of the dictionary included. In `backends` two models share an
engine: one is an occupant for the other, and Ollama knows one as an embedding
model without its tag. A second and the interval of the sweep are two ticks, the
TTL none or two, the pin 0 (indefinite), 1 (less than a second) or 4 (the TTL and
the interval), and Ollama keeps its own loads for one tick. Two lives are what a
restart needs. In `proxy` one model is Ollama's and two are the vLLM's.

| Run | Instance | States | Result |
|---|---|---|---|
| `core` | 2 clients, Ollama + 2 vLLM models, no fault, auto-eviction | 1.7 M | `TypeOK`, `NoDoubleLoad`, `FreeFigureHolds`, `EvictsOnlyTracked`, `NeverLosesTrack`, `RefusalsAreHonest`, `LoadsStayUnderTheLine`, `NoNeedlessEviction`, `KeepsPromise` hold |
| `rough` | 1 client, 2 lives, 2 Ollama models (one untagged) + 1 vLLM model (owned or detached), reserve 8, make_room, drops, failures of engines, probe and file | 3.5 M | `SliceNotOverdrawn`, `FreeFigureHolds`, `OrphansReclaimed`, `PeaksOnDiskGrow` hold |
| `storm` | 1 client and the sweep in any order, fair, 1 Ollama + 1 vLLM model, every fault | 0.38 M | `OneLoadAtATime`, `EvictsOnlyTracked`, `EveryCallAnswered`, `IdleEventuallyStopped` hold |
| `backends` | one engine of either kind, 2 models, 2 lives, fair | 0.46 M | `TypeOK`, `Accounted`, `FailureLeavesNothing`, `ReadyIsServed`, `EveryCallReturns`, `StartIsKept` of vLLM, `OrphansExplained`, `GhostsExplained`, `DaemonIsBackstop`, `OrphansExpire` of Ollama hold |
| `proxy` | 2 clients on every route, auto-eviction and sweep off | 0.62 M | `NoSpuriousFailure`, `ProxiesUnlocked`, `NothingAutoKilled` hold |
| `watchdog` | 2 refusal keys, log and a flaky webhook, window 2 of 5 instants | 0.23 M | `TypeOK`, `Told`, `OneAlertPerExcursion`, `FollowsTheCard` hold |
| `sweep_stale` | 1 client | | `SweepStopsOnlyIdle` is violated |
| `health_orphan` | 1 client, `health` | | `NeverLosesTrack` is violated |
| `untagged` | one untagged model, no fault | | `NeverLosesTrack` is violated |
| `head_of_line` | 1 client, the sweep in dictionary order, fair, `down` | | `OthersStillStopped` is violated |
| `reload` | 2 clients proxying, auto-eviction | | `OnlyMediatedLoads` is violated |
| `silenced` | as `watchdog` | | `SustainedIsAlerted` is violated |

The properties, and what each would catch, are commented where they are
defined. Those with a precondition on the instance: `LoadsStayUnderTheLine`,
`NoNeedlessEviction`, `RefusalsAreHonest` and `KeepsPromise` are about a box
where only coload moves and engines answer truly (with a reserve the code
deliberately admits past the line, and out-of-band use may move between the
measurement and the load); `SliceNotOverdrawn` needs engines
that answer `resident_models`, and counts the residents that they report under
the configured names; `NeverLosesTrack` needs answers that are true and names
with their tags, see section 5, the findings and the hazards; `OrphansReclaimed`
speaks of what is left with Ollama and the detached vLLM engines;
`PeaksOnDiskGrow` excepts a life that could not read the file;
`IdleEventuallyStopped` a sweep that goes on failing (`head_of_line` shows that
one may); `DaemonIsBackstop` is for a pin that exceeds the TTL by the interval of
the sweep; `NothingAutoKilled` is for the settings of the
README's promise, auto-eviction and sweep off, and excepts the occupant of a
vLLM that is asked for another model, which the code does stop.
Every property of a passing run has a mutant, an operator next to the one it
replaces ("Mutant: ..."), under which TLC finds that property violated in the
same run.

**Fairness.** `FairSpec` of Orchestrator has strong fairness of each
coroutine's `Advance` and of `Sweep`. The event loop runs ready coroutines in
the order in which they became ready, the lock is first come first served, and
every request to an engine has a timeout, so a coroutine that can again and
again go on does. Strong rather than weak, because `Running` of another task
disables it for a moment. Clients need not call, the box need not move, the
clock need not tick. In Watchdog `CheckOnce` is strongly fair (the poll loop
comes round again whatever was dropped, and a failing probe does not fail for
ever), and the sends are weakly fair (each sink has a timeout or is local).
In Vllm a call goes on when its await is over, a starter exits, and an engine
that lives comes up; a stop command may hang for good, and engines may die, so
`EveryCallReturns` rests on the deadlines. In Ollama time alone is fair: coload
may never come back.

## 4. Where code and documentation disagree

* **`sweep_stale`**: `stop_idle` computes `expired` once (orchestrator.py:317),
  then waits for the mutex and never looks at `_last_used` again. A model used
  during that wait is unloaded. "Unload models idle past the TTL."
* **`health_orphan`**: `unload_model` (orchestrator.py:304) and the sweep pop
  the model even if `is_ready` said no, and `VllmBackend.is_ready` says no when
  one `/health` request fails. The model keeps its memory, and neither the
  sweep nor auto-eviction can find it. "Coload must never lose track of a model
  it is responsible for" (tests/test_orchestrator.py:537).
* **`untagged`**: `adopt_resident` (orchestrator.py:237) looks for the name that
  `/api/ps` reports, `llama3.2:latest`, among the configured ones, and passes
  over a model that is configured as `llama3.2`, as both of the shipped
  `config.yaml` are; `is_ready` knows the two for one. After a restart neither
  the sweep nor auto-eviction can find it. "So a restart does not orphan the
  models this process loaded last time" (runtime.py:75).
* **`head_of_line`**: a `BackendError` in `stop_idle` (orchestrator.py:323)
  ends the sweep, and the next begins with the same model: while Ollama is
  down, an idle vLLM model that comes after one of its models in `_last_used` is
  never stopped. "Stop a backend after this long idle" (README.md:219). In the
  trace both are adopted at start-up, Ollama's first.
* **`reload`**: a request is proxied (gateway.py:77) after `ensure_ready` has
  released the mutex, and nothing keeps its model until it arrives. If the model
  is evicted for another request in between, Ollama loads it again on demand,
  unmeasured. "Every load goes through one serialized routine, guarded by a
  single load-mutex" (README.md:30).
* **`silenced`**: the watchdog sets `_over` whether or not the limiter let the
  alert through, so an excursion that begins within 300 s of the last alert is
  never alerted, however long it lasts. "One alert per excursion over the safe
  line, re-armed when usage drops back under" (tests/test_watchdog.py:3).

Four more deviations have no run of their own. They are in the models, and a
property names each as an exception:

* A stop command that fails, or overruns its deadline, leaves the half-started
  engine of a failed load behind (vllm.py:179), against "must leave no
  half-started process behind when it raises" (backends/base.py:43). See
  `FailureLeavesNothing`.
* An owned vLLM that outlives coload is not adopted (vllm.py:156), which
  runtime.py:75 does not say, and answers on the port of the engine that is
  started next. See `OrphansReclaimed` and `ReadyIsServed`.
* An estimates file that cannot be read counts as empty (estimates.py:39), and
  the next measurement overwrites it, against "a restart keeps what real loads
  taught us" (estimates.py:3). See `PeaksOnDiskGrow`.
* The validator lets a pin exceed the TTL by less than the 30 s that the sweep
  sleeps, or by less than a second, which `int()` drops: the daemon may then
  evict first, against "so coload's own sweep is never racing the daemon's"
  (config.py:43). See `DaemonIsBackstop`.

## 5. What is proved

For every value of the constants that satisfies the modules' assumptions
(`VramAssumption`, `OrchestratorAssumption`, `RefinementAssumption`,
`GatewayAssumption`, `LifeAssumption`, `WatchdogAssumption`,
`BackendsAssumption`, each named where its constants are declared; TLC evaluates
the assumptions of a module in the runs that extend it): any number of models,
engines and clients, any card, buffer, grain, reserve and settings. Every safety
invariant and every action property of the passing runs has a theorem.

| Theorem | About | Further assumptions | States |
|---|---|---|---|
| `LockInvariant` | Orchestrator | none | the queue holds exactly the tasks at the door or inside, each once; a task inside is at its head |
| `OneLoadAtATimeAlways` | | none | `[]OneLoadAtATime` |
| `TypeInvariant` | | none | `[]TypeOK`, with it that the card is never over-full |
| `NoDoubleLoadAlways` | | no `health`, no `direct` | `[]NoDoubleLoad` |
| `FreeFigureAlways` | | no `oob`, no `direct` | `[]FreeFigureHolds` |
| `EvictsOnlyTrackedAlways` | | none | `[]EvictsOnlyTracked` |
| `NeverLosesTrackAlways` | | no `direct`, `down`, `health`, `silent`, `lost`, `probe`; no untagged name | `[]NeverLosesTrack` |
| `NoNeedlessEvictionAlways` | | no `oob`, no `drop` | `NoNeedlessEviction` |
| `LoadsStayUnderTheLineAlways` | | `Undisturbed`: no reserve, no `oob`, `direct`, `drop`; an Ollama model's seed covers its weights | `LoadsStayUnderTheLine` |
| `SliceNotOverdrawnAlways` | | `Reporting` (no `down`, `silent`); no `oob`, no `direct` | `[]SliceNotOverdrawn`, in which untagged residents do not count |
| `RefusalsAreHonestAlways` | | `Behaving`: no fault but `fail`, no reserve, no untagged name | `[]RefusalsAreHonest` |
| `KeepsPromiseAlways` | Refinement | `Behaving`, `Undisturbed` | Orchestrator implements Admission |
| `OrderedSweepIsASweep` | IdleSweep | none | IdleSweep implements Orchestrator |
| `GatewayInvariant`, `ProxiesUnlockedAlways` | Gateway | none | `[]ProxiesUnlocked` |
| `NoSpuriousFailureAlways` | | `Sturdy`: no fault but `drop`, `health`, `silent`, no reserve; a buffer of half a grain or more | `[]NoSpuriousFailure` |
| `NothingAutoKilledAlways` | | auto-eviction and sweep off; no `drop` | `NothingAutoKilled` |
| `LifeInvariant`, `PeaksOnDiskAlwaysGrow` | Life | none | `PeaksOnDiskGrow`, in the lives that could read the file |
| `OrphansReclaimedAlways` | | `Truthful`: no `direct`, `down`, `health`, `silent`, `lost` | `[]OrphansReclaimed` |
| `FreeFigureInEveryLife`, `SliceNotOverdrawnInEveryLife` | | as without restarts | `[]FreeFigureHolds`, `[]SliceNotOverdrawn` |
| `VllmInvariant`, `AccountedAlways`, `FailureLeavesNothingAlways`, `ReadyIsServedAlways` | Backends | none | the invariants of vLLM, but for four, three and five named troubles |
| `OllamaInvariant`, `OrphansExplainedAlways`, `GhostsExplainedAlways`, `DaemonIsBackstopAlways` | | none | the invariants and the action property of Ollama |
| `BackendsType` | | none | `[]TypeOK` |
| `WatchdogType`, `ToldAlways`, `OneAlertAlways` | Watchdog | none | `[]TypeOK`, `[]Told`, `OneAlertPerExcursion` |

The hypotheses about `Faults` are what the properties need, not what a run
happens to have: each excluded fault makes the property false by itself, and is
a hazard or a finding, or it is simply another owner of the card (`oob`,
`direct`). The exceptions are `Behaving`, which leaves out all the faults that
`NeverLosesTrack` does and those that make a measurement stale (`oob`, `drop`),
and `Undisturbed`, whose `drop` makes a load be learned as smaller than it is.
That an Ollama model's seed covers its weights is the user's part: README.md:154
lets the figure be rough, and a first load with a seed below the weights may
cross the line. Half a grain, the least buffer, is 0.5 % of the card, against the
10 % of the default `buffer_pct` (config.py:111); below it vLLM's rounding may
ask for more than is there.

**The mutex and the types.** `OneLoadAtATime` is not inductive: nothing in it
says that a task at the door cannot enter while another is inside. `Lock`
adds the queue: who is in it, that nobody is in it twice (or `Tail` would leave
a second entry of a task that has gone), and that whoever is inside is first.
The preservation proof has one lemma per kind of move (`LockMove`, enqueue,
release), one step per action.

`TypeOK` needs `Lock`, because a task with no model in hand must not reach the
critical section, and is proved in three parts: `WorkOK` (locals), `BooksOK`
(`_last_used`, estimates, clock) and `CardOK`. The last needs the arithmetic of
`VramProofs`: that `Bytes` of a finite function is a natural number, grows by
what is put and shrinks by what is taken, for which `Models` must be finite.

**The admission theorems** rest on one observation, stated once as `Onward`: by
`Lock` nobody else inside the critical section moves, and a task outside of it
can only touch the table or make the card emptier. `FiguresSound` strengthens
`FreeFigureHolds` to the whole stretch from the measurement to the load:
`work.free` never exceeds what is free, and at `load` it covers the need.
`Candid` strengthens `EvictsOnlyTracked` with what is true between passes (no
candidates are left over) and with victim and candidates being distinct, so
that forgetting the victim does not untrack a candidate. `NeverLosesTrack` is
inductive given `TypeOK` and `Lock`.

**The budget theorems** refine `Onward` to `Moves`, the nine shapes that a step
of a task on its way to its engine can have, each with the values it leaves in
the locals; `Underway` says that such a task made one of them or was left alone
with the card, and that nothing was learned meanwhile. Each property has an
invariant of one task over these shapes. `Tight`: what an eviction is decided by
is no less than the budget is now. `Lined` and `Learnt`: the budget in hand is
still there, it covers what is needed from the admission on, and what is learned
of an Ollama model covers its weights, because the difference of two readings
can only be too large while coload alone moves the card; so the estimate that a
load is handed is never too small, and the line holds up to the rounding
(`GrantedRounds`). `Within`: while the engines are asked, slice and estimates of
what has been found so far add up to no more than the reserve. `Honest`: the
figures in hand are the present ones, and an eviction pass has every resident
model among its candidates or has tried it, which rests on `NeverLosesTrack`
for the table and on `Adopted` for the start.

**The refinement.** `KeepsPromise` is proved for the initial states and for each
action: most steps stutter (`QuietSteps`), and the others have a lemma for the
abstract step that they are (`BeginStep`, `TakeStep`, `EndStep`, `StopStep`,
`TouchStep`, `LeavingSteps`). The invariants above supply the abstract guards:
`Lock` that there is one load in flight at most, `NoDoubleLoad` that it is not
over itself, `Lined` the line, `NeverLosesTrack` and `EvictsOnlyTracked` that
what leaves is tracked, and `Carded` that what is found fits the card.

**Gateway and Life** inherit. A step of the gateway is a step of Orchestrator
unless it is `UpstreamLoads` (`GatewayRefines`), so `Lock` and `TypeOK` carry
over, together with `InCall`: a client is in a call of the orchestrator exactly
while its request is `called`. That gives `ProxiesUnlocked`, since a task that is
idle is not in the queue. `NoSpuriousFailure` needs `Backed` (the budget in hand
is still there), for as long as nothing was reloaded; `NothingAutoKilled` needs
that without auto-eviction and sweep nobody is in a pass (`Unprompted`). A step
of Life is one of Orchestrator, a write that fails, or a crash; the latter two
leave no load under way, so that every invariant of a task carries over, and
`OnDisk` says that what is in hand is never below what is on disk, in a life that
could read it. `OrphansReclaimed` is strengthened by what adoption can find
(`Traced`): a model without its tag is never waited for.

**The adapters.** `VllmInv` says for each await which of starter, stopper and
engine may be there (`Shape`), that a call that ended in a stop left nothing as
long as stops work (`Finished`), and, as long as no trouble excuses it (`Clean`),
that coload's view is the engine's (`Agreed`). `OllamaInv` says what late loads,
reported failures and pins have to do with each other (`Owed`), that a request
which was carried out is still true when its answer is taken (`Landed`), and, for
a pin that leaves the sweep its interval, that the pin of a model whose requests
have arrived outlives what is left of its idle time and of the nap (`Outlasting`,
`Noticed`).

**The watchdog's** `Inv` joins `TypeOK`, `Past` (no alert is dated ahead),
`Fresh` (while an excursion is known or being announced, the limiter's entry is
less than a window older than the excursion), `Delivered` (since that entry
each working sink was told, or is still to come in the send under way) and
`Quiet` (a send is under way only before the flag goes up). `Told` is `Fresh`
and `Delivered` together.

**Only model-checked.** Liveness (`EveryCallAnswered`, `IdleEventuallyStopped`,
`FollowsTheCard`, `EveryCallReturns`, `StartIsKept`, `OrphansExpire`): it needs
ENABLED of the fair actions, which this prover cannot reason about. The violated
properties of section 4 have counterexamples instead.

## 6. What is not modelled

Log files and the CLI keep no state that matters. NVML, nvidia-smi and the
choice between them, the CUDA claim and the webhook's payload are I/O: they
appear by their effect or their failure. `status`, `/v1/models` and header
filtering change nothing. Parsing of the configuration and its defaults are
left out; what the validators exclude is excluded by assumptions and by
`Accepts`. A `keep_alive` in the body of a proxied request, which coload passes
on unread, is not modelled: `Serve` renews the pin that coload asked for. The
requests of a coload that ends are taken to end with it, several that are on
their way to Ollama for one model count as one, and an unload that Ollama
answered has been carried out. Time between two awaits is not measured, so a `terminate` that
blocks the event loop for up to 30 s is a step like any other, and the size of
the gateway's connection pool, a default of its library, is not bounded.
An estimates file that is JSON of another shape, which `_load` does not catch,
is not among `Files`. A cancelled call releases the lock as an exception does,
and is not distinguished from one.

## 7. Plan

What is left is proof, in this order.

1. **Life and Gateway**: the remaining invariants of Orchestrator over restarts
   (`EvictsOnlyTracked`, `NoNeedlessEviction`, `RefusalsAreHonest`), and behind
   the gateway as long as no engine has loaded a model by itself.
2. **Refinement**: that Admission by itself keeps what it stands for (nothing on
   the card untracked but for the load in flight), so that a reader can take
   either level for the other.
3. **Safety parts of liveness**: that some task can always move while a call is
   under way, stated without ENABLED as a disjunction over the points of the
   holder of the mutex.
