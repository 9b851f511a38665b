-------------------------------- MODULE Vllm --------------------------------
(***************************************************************************)
(* One vLLM engine: backends/vllm.py, and the processes it starts.         *)
(*                                                                         *)
(* coload either owns the engine (no stop command: the process it launched *)
(* is the engine) or has it started by somebody else (detached: a starter  *)
(* such as `docker compose up -d` creates the engine and exits, a stop     *)
(* command takes it down).  load and unload are called under the load      *)
(* mutex, so at most one of them is in progress; pc is the await it is     *)
(* suspended at.  is_ready and resident_models only read, but for the      *)
(* rediscovery that the first of them performs.                            *)
(*                                                                         *)
(* Deadlines are not counted: they may fire whenever they are awaited.     *)
(* `trouble` records what went wrong, so that a property can say which     *)
(* troubles excuse it; no action reads it.                                 *)
(***************************************************************************)
EXTENDS Naturals

CONSTANTS
  Served,    \* the models configured for the engine
  Nothing,   \* no model
  Lives      \* bound on the lives of the coload process

\* What an instance must satisfy.
Parameters == Nothing \notin Served /\ Lives \in Nat \ {0}

VARIABLES
  detached,      \* stop_template is not None
  model,         \* _model
  rediscovered,  \* _rediscovered
  pc,            \* the await of the call in progress
  call,          \* its locals: the model to load, what follows the stop
  answer,        \* how the last call ended
  starter,       \* the model a starter is about to create an engine for
  stopper,       \* whether a stop command is running
  engine,        \* the engine coload started, in this life or before
  stray,         \* an owned engine that outlived the coload that started it
  trouble,       \* history: what went wrong so far
  life           \* which life of coload this is

python == <<model, rediscovered, pc, call, answer>>
world  == <<starter, stopper, engine, stray>>
vars   == <<detached, python, world, trouble, life>>

Off == [model |-> Nothing, up |-> FALSE]

Booting(m) == [model |-> m, up |-> FALSE]

Idle == [model |-> Nothing, then |-> "none"]

\* _owns_process: the handle coload keeps is the engine's, not its starter's.
Owns == ~ detached

\* The port answers for whichever engine holds it.
OnPort == IF stray.up THEN stray ELSE engine

\* The answers _healthy may give now: a request can fail on a live engine.
Healthy == {OnPort.up, FALSE}

\* What is_ready(m) answers when the health check is not disturbed.
Ready(m) == model = m /\ (Owns => engine # Off) /\ OnPort.up

Blame(kinds) == trouble' = trouble \cup kinds

(***************************************************************************)
(* Start-up: adopt_resident asks for the residents before the gateway      *)
(* serves, and so triggers the one rediscovery there ever is.              *)
(***************************************************************************)
\* An owned engine is never looked for.
NothingToRediscover ==
  /\ pc = "boot" /\ Owns
  /\ pc' = "idle"
  /\ UNCHANGED <<detached, model, rediscovered, call, answer, world, trouble, life>>

\* Mutant: the gateway serves while the first rediscovery is still to come.
RediscoverLate ==
  /\ pc = "boot" /\ detached
  /\ pc' = "idle" /\ rediscovered' = TRUE
  /\ UNCHANGED <<detached, model, call, answer, world, trouble, life>>

Rediscover ==
  /\ pc = "boot" /\ detached /\ ~ rediscovered
  /\ pc' = "asking" /\ rediscovered' = TRUE
  /\ UNCHANGED <<detached, model, call, answer, world, trouble, life>>

\* /v1/models answers for an engine that is up, unless the request fails.
Rediscovered ==
  /\ pc = "asking"
  /\ \E heard \in Healthy : model' = IF heard THEN OnPort.model ELSE Nothing
  /\ Blame(IF engine # Off /\ model' = Nothing THEN {"missed"} ELSE {})
  /\ pc' = "idle"
  /\ UNCHANGED <<detached, rediscovered, call, answer, world, life>>

(***************************************************************************)
(* load.                                                                   *)
(***************************************************************************)
\* The launch, up to the first poll: a detached starter is on its way, an
\* owned process is the engine, and replaces the one just terminated.
Launch(m) ==
  /\ model' = m /\ pc' = "wait"
  /\ IF detached THEN starter' = m /\ UNCHANGED engine
     ELSE engine' = Booting(m) /\ UNCHANGED starter

\* The stop command is launched, and awaited.
StopCommand(locals) ==
  /\ stopper' = TRUE /\ pc' = "stopping" /\ call' = locals
  /\ UNCHANGED <<model, starter, engine>>

\* Mutant: the engine that is there is not unloaded first.
LoadOver(m) ==
  /\ pc = "idle"
  /\ answer' = "none"
  /\ Launch(m) /\ call' = [Idle EXCEPT !.model = m] /\ UNCHANGED stopper
  /\ UNCHANGED <<detached, rediscovered, stray, trouble, life>>

Load(m) ==
  /\ pc = "idle"
  /\ answer' = "none"
  /\ IF model # Nothing /\ detached
     THEN StopCommand([model |-> m, then |-> "launch"])
     ELSE Launch(m) /\ call' = [Idle EXCEPT !.model = m] /\ UNCHANGED stopper
  /\ UNCHANGED <<detached, rediscovered, stray, trouble, life>>

Return(result) == pc' = "idle" /\ answer' = result /\ call' = Idle

\* _wait_healthy: a poll finds the engine healthy.
PollHealthy ==
  /\ pc = "wait" /\ TRUE \in Healthy
  /\ Owns => engine # Off
  /\ Return("loaded")
  /\ UNCHANGED <<detached, model, rediscovered, world, trouble, life>>

\* _teardown of an owned engine has no await: the process is terminated.
TerminateOwned ==
  /\ engine' = Off /\ model' = Nothing
  /\ UNCHANGED <<starter, stopper>>

\* Mutant: a starter that exited is taken for an engine that died.
PollDeadStarter ==
  /\ pc = "wait"
  /\ IF detached THEN starter = Nothing ELSE engine = Off
  /\ Return("failed") /\ TerminateOwned
  /\ UNCHANGED <<detached, rediscovered, stray, trouble, life>>

\* A poll finds the process it owns dead.
PollDead ==
  /\ pc = "wait" /\ Owns /\ engine = Off
  /\ Return("failed") /\ TerminateOwned
  /\ UNCHANGED <<detached, rediscovered, stray, trouble, life>>

\* Mutant: the failed load is reported at once, the engine left to itself.
HealthDeadlineLeaves ==
  /\ pc = "wait"
  /\ Return("failed") /\ model' = Nothing /\ UNCHANGED <<starter, stopper, engine>>
  /\ Blame({"slow"})
  /\ UNCHANGED <<detached, rediscovered, stray, life>>

\* The health deadline passes: tear down, then raise.
HealthDeadline ==
  /\ pc = "wait"
  /\ IF detached THEN StopCommand([Idle EXCEPT !.then = "failed"]) /\ UNCHANGED answer
     ELSE Return("failed") /\ TerminateOwned
  /\ Blame({"slow"})
  /\ UNCHANGED <<detached, rediscovered, stray, life>>

(***************************************************************************)
(* unload, of a model that is_ready found, and the rest of _teardown.      *)
(***************************************************************************)
Unload ==
  /\ pc = "idle" /\ model # Nothing /\ Ready(model)
  /\ IF detached
     THEN StopCommand([Idle EXCEPT !.then = "unloaded"]) /\ answer' = "none"
     ELSE Return("unloaded") /\ TerminateOwned
  /\ UNCHANGED <<detached, rediscovered, stray, trouble, life>>

\* The stop command has exited: terminate a starter that still runs, forget
\* both, and go on with what the teardown was for.
Torn ==
  IF call.then = "launch"
  THEN /\ Launch(call.model)
       /\ call' = [Idle EXCEPT !.model = call.model] /\ UNCHANGED answer
  ELSE Return(call.then) /\ model' = Nothing /\ starter' = Nothing /\ UNCHANGED engine

Stopped ==
  /\ pc = "stopping" /\ ~ stopper
  /\ Torn
  /\ UNCHANGED <<detached, rediscovered, stopper, stray, trouble, life>>

\* Mutant: there is no deadline, a stop command that hangs is waited for.
StopDeadlineNever == FALSE /\ UNCHANGED vars

\* The stop deadline passes first; the command goes on by itself.
StopDeadline ==
  /\ pc = "stopping" /\ stopper
  /\ Torn /\ Blame({"overrun"})
  /\ UNCHANGED <<detached, rediscovered, stopper, stray, life>>

(***************************************************************************)
(* The processes.                                                          *)
(***************************************************************************)
\* The starter creates the engine, or finds one there, which it replaces or
\* leaves alone, or fails; in every case it exits, and nobody looks how.
StarterExits ==
  /\ starter # Nothing
  /\ engine' \in {Booting(starter), engine}
  /\ starter' = Nothing
  /\ Blame(IF pc = "stopping" /\ ~ stopper /\ engine' # Off THEN {"late"} ELSE {})
  /\ UNCHANGED <<detached, python, stopper, stray, life>>

\* The stop command takes down whatever engine there is by then, or fails, and
\* exits all the same: coload looks only at is_running.
StopperExits ==
  /\ stopper
  /\ stopper' = FALSE /\ engine' \in {Off, engine}
  /\ Blame(IF engine' # Off THEN {"unstopped"} ELSE {})
  /\ UNCHANGED <<detached, python, starter, stray, life>>

\* An engine binds the port and serves.
EngineUp ==
  /\ ~ OnPort.up
  /\ \/ engine # Off /\ engine' = [engine EXCEPT !.up = TRUE] /\ UNCHANGED stray
     \/ stray # Off /\ stray' = [stray EXCEPT !.up = TRUE] /\ UNCHANGED engine
  /\ UNCHANGED <<detached, python, starter, stopper, trouble, life>>

EngineDies ==
  /\ \/ engine # Off /\ engine' = Off /\ UNCHANGED stray
     \/ stray # Off /\ stray' = Off /\ UNCHANGED engine
  /\ Blame({"died"})
  /\ UNCHANGED <<detached, python, starter, stopper, life>>

\* coload stops, by a crash or by a shutdown, which stops no engine either.  A
\* starter under way ends with or without its engine; an owned engine may die
\* with its parent.
Restart ==
  /\ life < Lives /\ life' = life + 1
  /\ model' = Nothing /\ rediscovered' = FALSE /\ pc' = "boot"
  /\ call' = Idle /\ answer' = "none"
  /\ starter' = Nothing
  /\ IF detached
     THEN engine' \in {engine} \cup {Booting(m) : m \in {starter} \ {Nothing}} /\ UNCHANGED stray
     ELSE engine' = Off /\ stray' \in {Off, IF stray = Off THEN engine ELSE stray}
  /\ Blame((IF stray' # Off THEN {"stray"} ELSE {}) \cup (IF stopper THEN {"overrun"} ELSE {}))
  /\ UNCHANGED <<detached, stopper>>

(***************************************************************************)
(* The specification.                                                      *)
(***************************************************************************)
Init ==
  /\ detached \in BOOLEAN
  /\ model = Nothing /\ rediscovered = FALSE
  /\ pc = "boot" /\ call = Idle /\ answer = "none"
  /\ starter = Nothing /\ stopper = FALSE
  /\ engine = Off /\ stray = Off
  /\ trouble = {} /\ life = 1

Goes ==
  \/ NothingToRediscover \/ Rediscover \/ Rediscovered
  \/ PollHealthy \/ PollDead \/ HealthDeadline
  \/ Stopped \/ StopDeadline

Next ==
  \/ Goes
  \/ (\E m \in Served : Load(m)) \/ Unload
  \/ StarterExits \/ StopperExits \/ EngineUp \/ EngineDies
  \/ Restart

Spec == Init /\ [][Next]_vars

\* The event loop goes on with a call whose await is over, and every await has
\* a deadline.  An engine that is left alone comes up in the end; a stop
\* command may hang.
Fairness == WF_vars(Goes) /\ WF_vars(StarterExits) /\ WF_vars(EngineUp)

FairSpec == Spec /\ Fairness

(***************************************************************************)
(* Properties.                                                             *)
(***************************************************************************)
Engine == [model : Served \cup {Nothing}, up : BOOLEAN]

\* missed: the one rediscovery came before the engine that runs answered it.
\* overrun: a stop command outlived its deadline, or the coload that ran it.
\* unstopped: a stop command exited and left the engine there was.
\* late: a starter brought an engine up behind the stop command.
\* stray: an owned engine outlived the coload that started it.
\* died, slow: an engine died; the health deadline passed.
Troubles == {"missed", "overrun", "unstopped", "late", "stray", "died", "slow"}

TypeOK ==
  /\ detached \in BOOLEAN /\ rediscovered \in BOOLEAN /\ stopper \in BOOLEAN
  /\ model \in Served \cup {Nothing} /\ starter \in Served \cup {Nothing}
  /\ pc \in {"boot", "asking", "idle", "stopping", "wait"}
  /\ call \in [model : Served \cup {Nothing},
               then : {"none", "launch", "failed", "unloaded"}]
  /\ pc = "stopping" => call.then # "none"
  /\ answer \in {"none", "loaded", "failed", "unloaded"}
  /\ engine \in Engine /\ stray \in Engine
  /\ trouble \subseteq Troubles /\ life \in 1 .. Lives

Spared(kinds) == trouble \cap kinds = {}

\* Once coload serves, an engine it started, or rediscovered, is the one it
\* believes to have: through restarts, failed loads and engines that die.  Four
\* things break it, and they alone: a rediscovery that is not answered, and a
\* stop that leaves an engine, because its command overran its deadline, failed
\* unseen, or was overtaken by the starter.  (An owned engine that outlived its
\* coload is none that this coload started: stray.)
Accounted ==
  pc \notin {"boot", "asking"} /\ engine # Off /\ Spared({"missed", "overrun", "unstopped", "late"})
    => model = engine.model

\* "Must leave no half-started process behind when it raises" (base.py), nor a
\* starter that will bring one up later.  That holds but for the three ways in
\* which a stop leaves an engine (overrun, unstopped, late); of an engine that
\* was missed at start-up there is nothing left either.
FailureLeavesNothing ==
  pc = "idle" /\ answer = "failed" /\ Spared({"overrun", "unstopped", "late"})
    => engine = Off /\ starter = Nothing

\* "True if model is loaded and the engine can serve it now" (base.py): at every
\* await of a load or an unload, and after a restart, what is_ready affirms is
\* what the engine behind the port serves.  Five troubles break it: those of
\* Accounted, and a stray engine that answers on the port of a new one.
ReadyIsServed ==
  \A m \in Served :
    Ready(m) /\ Spared({"missed", "overrun", "unstopped", "late", "stray"})
      => engine = [model |-> m, up |-> TRUE]

\* A load, an unload and the rediscovery all come to an end, though engines and
\* stop commands may hang.
EveryCallReturns == (pc # "idle") ~> (pc = "idle")

\* A start is not given up on while the engine is still coming up: "that exit is
\* success, not death", of a detached starter.
StartIsKept ==
  (pc = "wait" /\ trouble = {}) ~> (answer = "loaded" \/ trouble # {} \/ pc = "boot")

=============================================================================
