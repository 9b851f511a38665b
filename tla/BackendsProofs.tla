--------------------------- MODULE BackendsProofs ---------------------------
(***************************************************************************)
(* Proofs about the two adapters, for any number of models, any pins and   *)
(* TTLs and any number of lives.  A step of Backends is a step of one      *)
(* adapter and changes nothing of the other, so each adapter has an        *)
(* inductive invariant of its own.                                         *)
(***************************************************************************)
EXTENDS Backends, TLAPS

\* What the proofs use of BackendsAssumption.
LEMMA Constants ==
  /\ Nothing \notin Served /\ Lives \in Nat \ {0}
  /\ EmbedOnly \subseteq Configured /\ Bare \subseteq Configured
  /\ NoModel \notin Configured
  /\ Pins \subseteq Nat /\ Ttls \subseteq Nat
  /\ Second \in Nat \ {0} /\ Period \in Nat \ {0} /\ OwnPin \in Nat \ {0}
BY BackendsAssumption DEF V!Parameters, O!Parameters

\* A step of the composition, as either adapter sees it.
LEMMA EachStep ==
  ASSUME [Next]_vars
  PROVE  [V!Next]_vllm /\ [O!Next]_ollama
BY DEF Next, IsVllm, IsOllama, vars, vllm, ollama

(***************************************************************************)
(* vLLM.  Unless something went wrong that coload is not told of, what     *)
(* exists is a function of the await the call in progress is suspended at: *)
(* a stop command only while one is awaited, a starter only while a load   *)
(* waits for its engine (or that load is being torn down), and an engine   *)
(* only under the name coload has for it.                                  *)
(***************************************************************************)
Alive(e) == e = V!Off \/ e.model \in Served

\* What holds whatever goes wrong.
Shape ==
  /\ Alive(engine) /\ Alive(stray)
  /\ detached => stray = V!Off
  /\ ~ detached => starter = Nothing /\ ~ stopper /\ pc \notin {"asking", "stopping"}
  /\ ~ detached /\ pc = "boot" => engine = V!Off
  /\ pc \in {"boot", "asking"} => answer = "none" /\ model = Nothing /\ starter = Nothing
  /\ stray # V!Off => "stray" \in trouble
  /\ pc = "wait" => model \in Served
  /\ pc = "stopping" /\ call.then = "launch" => call.model \in Served
  /\ pc = "idle" /\ answer = "failed" => model = Nothing

\* The troubles of a stop, and all those that no answer tells coload of.
Ended == V!Spared({"overrun", "unstopped", "late"})
Clean == V!Spared({"missed", "overrun", "unstopped", "late"})

\* A stop that ended well leaves nothing.
Finished ==
  /\ pc = "stopping" /\ engine # V!Off => stopper
  /\ pc = "idle" /\ answer = "failed" => engine = V!Off /\ starter = Nothing

\* What coload believes agrees with what exists.
Agreed ==
  /\ stopper => pc = "stopping"
  /\ starter # Nothing => pc \in {"wait", "stopping"} /\ starter = model
  /\ pc = "wait" /\ starter # Nothing => engine = V!Off
  /\ pc \notin {"boot", "asking"} /\ engine # V!Off => engine.model = model
  /\ pc = "stopping" /\ engine # V!Off => stopper

VllmInv == V!TypeOK /\ Shape /\ (Ended => Finished) /\ (Clean => Agreed)

\* A booting engine has a configured model.
LEMMA EngineType ==
  /\ V!Off \in V!Engine
  /\ \A m \in Served : V!Booting(m) \in V!Engine /\ V!Booting(m) # V!Off /\ V!Booting(m).model = m
  /\ \A e \in V!Engine : [e EXCEPT !.up = TRUE] \in V!Engine
                          /\ [e EXCEPT !.up = TRUE].model = e.model /\ [e EXCEPT !.up = TRUE] # V!Off
BY Constants DEF V!Off, V!Booting, V!Engine

\* The locals of a call, spelt out.
Call == [model : Served \cup {Nothing}, then : {"none", "launch", "failed", "unloaded"}]

LEMMA CallType ==
  /\ V!Idle \in Call /\ V!Idle.then = "none"
  /\ \A m \in Served :
       /\ [V!Idle EXCEPT !.model = m] \in Call
       /\ [model |-> m, then |-> "launch"] \in Call
  /\ \A t \in {"failed", "unloaded"} : [V!Idle EXCEPT !.then = t] \in Call
                                         /\ [V!Idle EXCEPT !.then = t].then = t
BY DEF V!Idle, Call

LEMMA VllmInit == V!Init => VllmInv
<1> SUFFICES ASSUME V!Init PROVE VllmInv
  OBVIOUS
<1>1. V!TypeOK
  <2>1. life \in 1 .. Lives
    BY Constants DEF V!Init
  <2> QED BY <2>1, EngineType, CallType DEF V!Init, V!TypeOK, Call
<1>2. Shape
  BY DEF V!Init, Shape, Alive
<1>3. Finished /\ Agreed
  BY DEF V!Init, Finished, Agreed
<1> QED BY <1>1, <1>2, <1>3 DEF VllmInv

LEMMA VllmTypeStep ==
  ASSUME V!TypeOK, Shape, [V!Next]_vllm
  PROVE  V!TypeOK'
<1> USE CallType DEF V!TypeOK, V!python, V!world, V!vars, Call
<1>1. CASE V!NothingToRediscover
  BY <1>1 DEF V!NothingToRediscover
<1>2. CASE V!Rediscover
  BY <1>2 DEF V!Rediscover
<1>3. CASE V!Rediscovered
  BY <1>3 DEF V!Rediscovered, V!Healthy, V!OnPort, V!Engine, V!Blame, V!Troubles
<1>4. CASE V!PollHealthy
  BY <1>4, Constants DEF V!PollHealthy, V!Return
<1>5. CASE V!PollDead
  BY <1>5, EngineType, Constants DEF V!PollDead, V!Return, V!TerminateOwned
<1>6. CASE V!HealthDeadline
  <2>1. CASE detached
    BY <1>6, <2>1, Constants DEF V!HealthDeadline, V!StopCommand, V!Blame, V!Troubles
  <2>2. CASE ~ detached
    BY <1>6, <2>2, EngineType
    DEF V!HealthDeadline, V!Return, V!TerminateOwned, V!Blame, V!Troubles
  <2> QED BY <2>1, <2>2
<1>7. CASE V!Stopped
  BY <1>7, EngineType, Constants DEF V!Stopped, V!Torn, V!Launch, V!Return, Shape
<1>8. CASE V!StopDeadline
  BY <1>8, EngineType, Constants
  DEF V!StopDeadline, V!Torn, V!Launch, V!Return, V!Blame, V!Troubles, Shape
<1>9. ASSUME NEW m \in Served, V!Load(m) PROVE V!TypeOK'
  <2>1. CASE model # Nothing /\ detached
    BY <1>9, <2>1 DEF V!Load, V!StopCommand
  <2>2. CASE ~ (model # Nothing /\ detached)
    BY <1>9, <2>2, EngineType DEF V!Load, V!Launch
  <2> QED BY <2>1, <2>2
<1>10. CASE V!Unload
  <2>1. CASE detached
    BY <1>10, <2>1 DEF V!Unload, V!StopCommand
  <2>2. CASE ~ detached
    BY <1>10, <2>2, EngineType DEF V!Unload, V!Return, V!TerminateOwned
  <2> QED BY <2>1, <2>2
<1>11. CASE V!StarterExits
  BY <1>11, EngineType, Constants DEF V!StarterExits, V!Blame, V!Troubles
<1>12. CASE V!StopperExits
  BY <1>12, EngineType DEF V!StopperExits, V!Blame, V!Troubles
<1>13. CASE V!EngineUp
  BY <1>13, EngineType DEF V!EngineUp
<1>14. CASE V!EngineDies
  BY <1>14, EngineType DEF V!EngineDies, V!Blame, V!Troubles
<1>15. CASE V!Restart
  <2>1. life' \in 1 .. Lives
    BY <1>15, Constants DEF V!Restart
  <2>2. engine' \in V!Engine /\ stray' \in V!Engine
    BY <1>15, EngineType DEF V!Restart
  <2>3. trouble' \subseteq V!Troubles
    BY <1>15 DEF V!Restart, V!Blame, V!Troubles
  <2> QED BY <1>15, <2>1, <2>2, <2>3 DEF V!Restart
<1>16. CASE UNCHANGED vllm
  BY <1>16 DEF vllm
<1> QED
  BY <1>1, <1>2, <1>3, <1>4, <1>5, <1>6, <1>7, <1>8, <1>9, <1>10, <1>11, <1>12, <1>13,
     <1>14, <1>15, <1>16
  DEF V!Next, V!Goes

LEMMA VllmShapeStep ==
  ASSUME V!TypeOK, Shape, [V!Next]_vllm
  PROVE  Shape'
<1> USE DEF Shape, Alive, V!python, V!world, V!vars
<1>1. CASE V!NothingToRediscover
  BY <1>1 DEF V!NothingToRediscover, V!Owns
<1>2. CASE V!Rediscover
  BY <1>2 DEF V!Rediscover
<1>3. CASE V!Rediscovered
  BY <1>3 DEF V!Rediscovered, V!Blame
<1>4. CASE V!PollHealthy
  BY <1>4 DEF V!PollHealthy, V!Return, V!Idle
<1>5. CASE V!PollDead
  BY <1>5 DEF V!PollDead, V!Return, V!Idle, V!TerminateOwned
<1>6. CASE V!HealthDeadline
  <2>1. CASE detached
    BY <1>6, <2>1, CallType DEF V!HealthDeadline, V!StopCommand, V!Blame
  <2>2. CASE ~ detached
    BY <1>6, <2>2 DEF V!HealthDeadline, V!Return, V!TerminateOwned, V!Blame
  <2> QED BY <2>1, <2>2
<1>7. ASSUME V!Torn, pc = "stopping", UNCHANGED <<detached, stray>>,
             trouble \subseteq trouble', stopper' \in BOOLEAN
      PROVE  Shape'
  <2>1. detached /\ call.then \in {"launch", "failed", "unloaded"}
    BY <1>7 DEF V!TypeOK
  <2>2. CASE call.then = "launch"
    BY <1>7, <2>1, <2>2 DEF V!Torn, V!Launch
  <2>3. CASE call.then # "launch"
    BY <1>7, <2>1, <2>3 DEF V!Torn, V!Return
  <2> QED BY <2>2, <2>3
<1>8. CASE V!Stopped \/ V!StopDeadline
  BY <1>7, <1>8 DEF V!Stopped, V!StopDeadline, V!Blame, V!TypeOK
<1>9. ASSUME NEW m \in Served, V!Load(m) PROVE Shape'
  <2>1. CASE model # Nothing /\ detached
    BY <1>9, <2>1 DEF V!Load, V!StopCommand
  <2>2. CASE ~ (model # Nothing /\ detached)
    BY <1>9, <2>2, EngineType DEF V!Load, V!Launch
  <2> QED BY <2>1, <2>2
<1>10. CASE V!Unload
  <2>1. CASE detached
    BY <1>10, <2>1, CallType DEF V!Unload, V!StopCommand
  <2>2. CASE ~ detached
    BY <1>10, <2>2 DEF V!Unload, V!Return, V!TerminateOwned
  <2> QED BY <2>1, <2>2
<1>11. CASE V!StarterExits
  BY <1>11, EngineType DEF V!StarterExits, V!Blame, V!TypeOK
<1>12. CASE V!StopperExits
  BY <1>12 DEF V!StopperExits, V!Blame
<1>13. CASE V!EngineUp
  BY <1>13, EngineType DEF V!EngineUp, V!TypeOK
<1>14. CASE V!EngineDies
  BY <1>14 DEF V!EngineDies, V!Blame
<1>15. CASE V!Restart
  <2>1. CASE detached
    BY <1>15, <2>1, EngineType DEF V!Restart, V!Blame, V!TypeOK
  <2>2. CASE ~ detached
    BY <1>15, <2>2 DEF V!Restart, V!Blame
  <2> QED BY <2>1, <2>2
<1>16. CASE UNCHANGED vllm
  BY <1>16 DEF vllm
<1> QED
  BY <1>1, <1>2, <1>3, <1>4, <1>5, <1>6, <1>8, <1>9, <1>10, <1>11, <1>12, <1>13,
     <1>14, <1>15, <1>16
  DEF V!Next, V!Goes

LEMMA VllmFinishedStep ==
  ASSUME V!TypeOK, Shape, Finished, Ended, Ended', [V!Next]_vllm
  PROVE  Finished'
<1> USE DEF Finished, V!python, V!world, V!vars
<1>1. CASE V!NothingToRediscover
  BY <1>1 DEF V!NothingToRediscover, Shape
<1>2. CASE V!Rediscover
  BY <1>2 DEF V!Rediscover
<1>3. CASE V!Rediscovered
  BY <1>3 DEF V!Rediscovered, Shape
<1>4. CASE V!PollHealthy
  BY <1>4 DEF V!PollHealthy, V!Return
<1>5. CASE V!PollDead
  BY <1>5 DEF V!PollDead, V!Owns, V!Return, V!TerminateOwned, Shape
<1>6. CASE V!HealthDeadline
  <2>1. CASE detached
    BY <1>6, <2>1 DEF V!HealthDeadline, V!StopCommand
  <2>2. CASE ~ detached
    BY <1>6, <2>2 DEF V!HealthDeadline, V!Return, V!TerminateOwned, Shape
  <2> QED BY <2>1, <2>2
\* The stop command has left no engine, and any starter is terminated.
<1>7. CASE V!Stopped
  <2>1. CASE call.then = "launch"
    BY <1>7, <2>1 DEF V!Stopped, V!Torn, V!Launch
  <2>2. CASE call.then # "launch"
    BY <1>7, <2>2 DEF V!Stopped, V!Torn, V!Return
  <2> QED BY <2>1, <2>2
<1>8. CASE V!StopDeadline
  BY <1>8 DEF V!StopDeadline, V!Blame, Ended, V!Spared
<1>9. ASSUME NEW m \in Served, V!Load(m) PROVE Finished'
  <2>1. CASE model # Nothing /\ detached
    BY <1>9, <2>1 DEF V!Load, V!StopCommand
  <2>2. CASE ~ (model # Nothing /\ detached)
    BY <1>9, <2>2 DEF V!Load, V!Launch
  <2> QED BY <2>1, <2>2
<1>10. CASE V!Unload
  <2>1. CASE detached
    BY <1>10, <2>1 DEF V!Unload, V!StopCommand
  <2>2. CASE ~ detached
    BY <1>10, <2>2 DEF V!Unload, V!Return, V!TerminateOwned
  <2> QED BY <2>1, <2>2
\* No starter is left behind a failure, and one that overtakes the stop command
\* is a trouble.
<1>11. CASE V!StarterExits
  <2>1. pc = "stopping" /\ engine' # V!Off => stopper
    BY <1>11 DEF V!StarterExits, V!Blame, Ended, V!Spared
  <2>2. ~ (pc = "idle" /\ answer = "failed")
    BY <1>11 DEF V!StarterExits
  <2> QED BY <1>11, <2>1, <2>2 DEF V!StarterExits
<1>12. CASE V!StopperExits
  <2>1. engine' = V!Off
    BY <1>12 DEF V!StopperExits, V!Blame, Ended, V!Spared
  <2> QED BY <1>12, <2>1 DEF V!StopperExits
<1>13. CASE V!EngineUp
  <2>1. engine' # V!Off => engine # V!Off
    BY <1>13 DEF V!EngineUp
  <2> QED BY <1>13, <2>1 DEF V!EngineUp
<1>14. CASE V!EngineDies
  BY <1>14 DEF V!EngineDies
<1>15. CASE V!Restart
  BY <1>15 DEF V!Restart
<1>16. CASE UNCHANGED vllm
  BY <1>16 DEF vllm
<1> QED
  BY <1>1, <1>2, <1>3, <1>4, <1>5, <1>6, <1>7, <1>8, <1>9, <1>10, <1>11, <1>12, <1>13,
     <1>14, <1>15, <1>16
  DEF V!Next, V!Goes

LEMMA VllmAgreedStep ==
  ASSUME V!TypeOK, Shape, Agreed, Clean, Clean', [V!Next]_vllm
  PROVE  Agreed'
<1> USE DEF Agreed, V!python, V!world, V!vars
<1>1. CASE V!NothingToRediscover
  BY <1>1 DEF V!NothingToRediscover, V!Owns, Shape
<1>2. CASE V!Rediscover
  BY <1>2 DEF V!Rediscover
\* An engine that did not answer is a trouble.
<1>3. CASE V!Rediscovered
  <2>1. detached /\ stray = V!Off
    BY <1>3 DEF V!Rediscovered, Shape
  <2>2. engine # V!Off => model' = engine.model
    <3>1. engine # V!Off => model' # Nothing
      BY <1>3 DEF V!Rediscovered, V!Blame, Clean, V!Spared
    <3>2. model' # Nothing => model' = engine.model
      BY <1>3, <2>1 DEF V!Rediscovered, V!OnPort, V!Off
    <3> QED BY <3>1, <3>2
  <2> QED BY <1>3, <2>2 DEF V!Rediscovered, Shape
\* A starter still runs only while there is no engine, and this one answers.
<1>4. CASE V!PollHealthy
  <2>1. detached => engine # V!Off
    <3> SUFFICES ASSUME detached PROVE engine # V!Off
      OBVIOUS
    <3>1. stray = V!Off /\ V!Off.up = FALSE
      BY DEF Shape, V!Off
    <3>2. V!OnPort = engine
      BY <3>1 DEF V!OnPort
    <3>3. TRUE \in {engine.up, FALSE}
      BY <1>4, <3>2 DEF V!PollHealthy, V!Healthy
    <3>4. engine.up = TRUE
      BY <3>3
    <3> QED BY <3>1, <3>4
  <2>2. starter = Nothing
    BY <1>4, <2>1 DEF V!PollHealthy, Shape
  <2> QED BY <1>4, <2>2 DEF V!PollHealthy, V!Return
<1>5. CASE V!PollDead
  BY <1>5 DEF V!PollDead, V!Owns, V!Return, V!TerminateOwned, Shape
<1>6. CASE V!HealthDeadline
  <2>1. CASE detached
    BY <1>6, <2>1 DEF V!HealthDeadline, V!StopCommand
  <2>2. CASE ~ detached
    BY <1>6, <2>2 DEF V!HealthDeadline, V!Return, V!TerminateOwned, Shape
  <2> QED BY <2>1, <2>2
\* The stop command has left no engine, and any starter is terminated.
<1>7. CASE V!Stopped
  <2>1. detached /\ engine = V!Off /\ ~ stopper' /\ engine' = V!Off
    BY <1>7 DEF V!Stopped, V!Torn, V!Launch, Shape
  <2>2. CASE call.then = "launch"
    BY <1>7, <2>1, <2>2 DEF V!Stopped, V!Torn, V!Launch
  <2>3. CASE call.then # "launch"
    BY <1>7, <2>1, <2>3 DEF V!Stopped, V!Torn, V!Return
  <2> QED BY <2>2, <2>3
<1>8. CASE V!StopDeadline
  BY <1>8 DEF V!StopDeadline, V!Blame, Clean, V!Spared
<1>9. ASSUME NEW m \in Served, V!Load(m) PROVE Agreed'
  <2>1. CASE model # Nothing /\ detached
    BY <1>9, <2>1 DEF V!Load, V!StopCommand
  <2>2. CASE model = Nothing /\ detached
    <3>1. engine = V!Off
      BY <1>9, <2>2, Constants DEF V!Load, Shape, Alive
    <3> QED BY <1>9, <2>2, <3>1 DEF V!Load, V!Launch
  <2>3. CASE ~ detached
    BY <1>9, <2>3, EngineType DEF V!Load, V!Launch, Shape
  <2> QED BY <2>1, <2>2, <2>3
<1>10. CASE V!Unload
  <2>1. CASE detached
    BY <1>10, <2>1 DEF V!Unload, V!StopCommand
  <2>2. CASE ~ detached
    BY <1>10, <2>2 DEF V!Unload, V!Return, V!TerminateOwned, Shape
  <2> QED BY <2>1, <2>2
\* An engine that a starter brings up behind the stop command is a trouble.
<1>11. CASE V!StarterExits
  <2>1. starter = model /\ pc \in {"wait", "stopping"} /\ model \in Served
    BY <1>11 DEF V!StarterExits, V!TypeOK
  <2>2. engine' # V!Off => engine'.model = model
    <3>1. CASE engine' = V!Booting(starter)
      BY <2>1, <3>1, EngineType
    <3>2. CASE engine' = engine
      BY <2>1, <3>2
    <3> QED BY <1>11, <3>1, <3>2 DEF V!StarterExits
  <2>3. pc = "stopping" /\ engine' # V!Off => stopper
    BY <1>11 DEF V!StarterExits, V!Blame, Clean, V!Spared
  <2> QED BY <1>11, <2>2, <2>3 DEF V!StarterExits
\* And so is one that the stop command leaves.
<1>12. CASE V!StopperExits
  <2>1. engine' = V!Off
    BY <1>12 DEF V!StopperExits, V!Blame, Clean, V!Spared
  <2> QED BY <1>12, <2>1 DEF V!StopperExits
<1>13. CASE V!EngineUp
  <2>1. engine # V!Off => engine'.model = engine.model
    BY <1>13, EngineType DEF V!EngineUp, V!TypeOK
  <2>2. engine' # V!Off => engine # V!Off
    BY <1>13 DEF V!EngineUp
  <2>3. UNCHANGED <<stopper, pc, starter, model>>
    BY <1>13 DEF V!EngineUp
  <2> QED BY <2>1, <2>2, <2>3
<1>14. CASE V!EngineDies
  BY <1>14 DEF V!EngineDies
<1>15. CASE V!Restart
  BY <1>15 DEF V!Restart, V!Blame, Clean, V!Spared
<1>16. CASE UNCHANGED vllm
  BY <1>16 DEF vllm
<1> QED
  BY <1>1, <1>2, <1>3, <1>4, <1>5, <1>6, <1>7, <1>8, <1>9, <1>10, <1>11, <1>12, <1>13,
     <1>14, <1>15, <1>16
  DEF V!Next, V!Goes

\* Unless something goes wrong that coload is not told of, what VllmBackend
\* believes to be served agrees with what runs, at every await of every call.
THEOREM VllmInvariant == Spec => []VllmInv
<1>1. Init => VllmInv
  BY VllmInit DEF Init
<1>2. VllmInv /\ [Next]_vars => VllmInv'
  <2> SUFFICES ASSUME VllmInv, [Next]_vars PROVE VllmInv'
    OBVIOUS
  <2>1. [V!Next]_vllm
    BY EachStep
  <2>2. V!TypeOK' /\ Shape'
    BY <2>1, VllmTypeStep, VllmShapeStep DEF VllmInv
  <2>3. (Ended' => Ended) /\ (Clean' => Clean)
    <3>1. trouble \subseteq trouble'
      BY <2>1
      DEF V!Next, V!Goes, V!NothingToRediscover, V!Rediscover, V!Rediscovered, V!PollHealthy,
          V!PollDead, V!HealthDeadline, V!Stopped, V!StopDeadline, V!Load, V!Unload,
          V!StarterExits, V!StopperExits, V!EngineUp, V!EngineDies, V!Restart, V!Blame, vllm
    <3> QED BY <3>1 DEF Ended, Clean, V!Spared
  <2>4. (Ended' => Finished') /\ (Clean' => Agreed')
    BY <2>1, <2>3, VllmFinishedStep, VllmAgreedStep DEF VllmInv
  <2> QED BY <2>2, <2>4 DEF VllmInv
<1> QED BY <1>1, <1>2, PTL DEF Spec

\* Once coload serves, an engine it started is the one it believes to have, but
\* for a rediscovery that was not answered and a stop that left an engine: its
\* command overran, failed, or was overtaken by the starter.
THEOREM AccountedAlways == Spec => []Accounted
<1>1. VllmInv => Accounted
  BY DEF VllmInv, Accounted, V!Accounted, Clean, Agreed
<1> QED BY <1>1, VllmInvariant, PTL

\* A failed load leaves no engine behind, and no starter that brings one up, but
\* for the three ways in which a stop leaves an engine.
THEOREM FailureLeavesNothingAlways == Spec => []FailureLeavesNothing
<1>1. VllmInv => FailureLeavesNothing
  BY DEF VllmInv, FailureLeavesNothing, V!FailureLeavesNothing, Ended, Finished
<1> QED BY <1>1, VllmInvariant, PTL

\* What is_ready affirms is what the engine behind the port serves, at every
\* await of every call and after a restart, but for the four troubles of
\* Accounted and a stray engine on the port.
THEOREM ReadyIsServedAlways == Spec => []ReadyIsServed
<1>1. VllmInv => ReadyIsServed
  <2> SUFFICES ASSUME VllmInv, NEW m \in Served, V!Ready(m), V!Spared({"missed", "overrun", "unstopped", "late", "stray"})
               PROVE  engine = [model |-> m, up |-> TRUE]
    BY DEF ReadyIsServed, V!ReadyIsServed
  <2>1. Clean /\ stray = V!Off /\ V!Off.up = FALSE
    BY DEF VllmInv, Shape, Clean, V!Spared, V!Off
  <2>2. engine.up = TRUE
    BY <2>1 DEF V!Ready, V!OnPort, VllmInv, V!TypeOK, V!Engine
  <2>3. model = m /\ pc \notin {"boot", "asking"}
    BY Constants DEF V!Ready, VllmInv, Shape
  <2>4. engine.model = m
    BY <2>1, <2>2, <2>3 DEF VllmInv, Agreed
  <2> QED BY <2>2, <2>4 DEF VllmInv, V!TypeOK, V!Engine
<1> QED BY <1>1, VllmInvariant, PTL

(***************************************************************************)
(* Ollama.  A load that the daemon may still carry out for a caller that   *)
(* is gone is one that coload was told failed.  And while the pin of a     *)
(* model that coload pinned runs, so does its idle time, which started no  *)
(* later, and once that is over so does the nap of the sweep.              *)
(***************************************************************************)
\* What late, excused and left have to do with each other.
Owed ==
  /\ late \subseteq excused
  /\ late \cap DOMAIN left = {}

\* Nothing is tracked while coload is down.
Quiet == ~ serving => DOMAIN idle = {}

\* The premise of DaemonIsBackstop.
Generous == ttl > 0 /\ pin - (pin % Second) >= ttl + Period

\* A sweep at work has seen what is expired.
Noticed == ttl > 0 /\ nap = 0 => \A m \in DOMAIN idle : idle[m] < ttl \/ m \in seen

\* A pin that has not been touched since it began outlives the idle time and the
\* nap.
Outlives(m) ==
  \/ left[m] = 0
  \/ idle[m] < ttl /\ left[m] + idle[m] >= ttl + Period
  \/ idle[m] = ttl /\ nap >= 1 /\ left[m] >= nap

Outlasting ==
  Generous => \A m \in (DOMAIN idle \cap DOMAIN left) \ (unserved \cup ondemand) :
                m \in seen \/ Outlives(m)

\* A request that is carried out is, until its answer is there.
Landed ==
  op.at = "done" =>
    /\ op.model \notin late
    /\ op.verb = "load" => op.model \in DOMAIN left \cup gone
    /\ op.verb = "unload" => op.model \notin DOMAIN left \/ op.model \in ondemand

\* Whom the table, the card and the debts of the daemon name.
Explained == Owed /\ Quiet /\ Landed /\ O!OrphansExplained /\ O!GhostsExplained

OllamaInv ==
  /\ O!TypeOK
  /\ Explained
  /\ Noticed
  /\ Outlasting

\* Whole seconds of the pin.
LEMMA KeepAliveType ==
  ASSUME pin \in Nat
  PROVE  O!KeepAlive \in 0 .. pin /\ O!KeepAlive = pin - (pin % Second)
BY Constants DEF O!KeepAlive

\* The tables of what is tracked, and of what is pinned.
LEMMA TableDef ==
  ASSUME NEW longest \in Nat, NEW d
  PROVE  d \in O!Table(longest)
           <=> /\ DOMAIN d \in SUBSET Configured
               /\ d \in [DOMAIN d -> 0 .. longest]
BY DEF O!Table

\* d[m] = v and d.pop(m, None).
LEMMA TableWith ==
  ASSUME NEW longest \in Nat, NEW d \in O!Table(longest), NEW m \in Configured,
         NEW v \in 0 .. longest
  PROVE  O!With(d, m, v) \in O!Table(longest)
BY TableDef DEF O!With

LEMMA TableLess ==
  ASSUME NEW longest \in Nat, NEW d \in O!Table(longest), NEW S
  PROVE  LET e == O!Restrict(d, DOMAIN d \ S)
         IN  /\ e \in O!Table(longest)
             /\ DOMAIN e = DOMAIN d \ S
             /\ \A x \in DOMAIN d \ S : e[x] = d[x]
BY TableDef DEF O!Restrict

LEMMA TableNobody ==
  ASSUME NEW longest \in Nat
  PROVE  O!Nobody \in O!Table(longest) /\ DOMAIN O!Nobody = {}
BY TableDef DEF O!Nobody

\* The numbers of a state, and the tables' entries.
LEMMA Sizes ==
  ASSUME O!TypeOK
  PROVE  /\ pin \in Nat /\ ttl \in Nat /\ pin + OwnPin \in Nat /\ nap \in 0 .. Period
         /\ idle \in O!Table(ttl) /\ DOMAIN idle \subseteq Configured
         /\ \A m \in DOMAIN idle : idle[m] \in 0 .. ttl
         /\ left \in O!Table(pin + OwnPin) /\ DOMAIN left \subseteq Configured
         /\ \A m \in DOMAIN left : left[m] \in Nat /\ left[m] <= O!Lease(m)
         /\ O!KeepAlive \in 0 .. pin /\ O!KeepAlive \in 0 .. (pin + OwnPin)
         /\ OwnPin \in 1 .. (pin + OwnPin)
<1>1. pin \in Nat /\ ttl \in Nat /\ OwnPin \in Nat \ {0} /\ pin + OwnPin \in Nat
  BY Constants DEF O!TypeOK
<1>2. idle \in O!Table(ttl) /\ left \in O!Table(pin + OwnPin)
  BY DEF O!TypeOK
<1>3. O!KeepAlive \in 0 .. pin
  BY <1>1, KeepAliveType
<1>4. /\ DOMAIN idle \subseteq Configured /\ \A m \in DOMAIN idle : idle[m] \in 0 .. ttl
      /\ DOMAIN left \subseteq Configured /\ \A m \in DOMAIN left : left[m] \in Nat
  BY <1>1, <1>2, TableDef
<1> QED BY <1>1, <1>2, <1>3, <1>4 DEF O!TypeOK

\* A call in progress.
LEMMA OpType ==
  ASSUME O!TypeOK
  PROVE  /\ op # O!None => /\ op \in [verb : {"load", "unload"}, model : Configured,
                                      at : {"generate", "refused", "embed", "done"}]
                           /\ serving
         /\ op.at # "none" => op # O!None
         /\ op.verb # "none" => op # O!None
         /\ O!Loading \subseteq Configured
BY DEF O!TypeOK, O!None, O!Loading

(***************************************************************************)
(* What the actions do to the two tables.                                  *)
(***************************************************************************)
LEMMA HoldsEffect ==
  ASSUME O!TypeOK, NEW m \in Configured, NEW n \in 0 .. (pin + OwnPin), O!Holds(m, n)
  PROVE  /\ left' \in O!Table(pin + OwnPin)
         /\ DOMAIN left' = DOMAIN left \cup {m} /\ left'[m] = n
         /\ \A x \in DOMAIN left : x # m => left'[x] = left[x]
         /\ gone' = gone \ {m}
<1> DEFINE e == O!With(left, m, n)
<1>1. left' = e /\ gone' = gone \ {m}
  BY DEF O!Holds
<1>2. pin + OwnPin \in Nat /\ left \in O!Table(pin + OwnPin)
  BY Sizes
<1>3. e \in O!Table(pin + OwnPin)
  BY <1>2, TableWith
<1>4. /\ DOMAIN e = DOMAIN left \cup {m}
      /\ \A x \in DOMAIN left \cup {m} : e[x] = IF x = m THEN n ELSE left[x]
  BY DEF O!With
<1> QED BY <1>1, <1>3, <1>4

LEMMA DropsEffect ==
  ASSUME O!TypeOK, NEW S, O!Drops(S)
  PROVE  /\ left' \in O!Table(pin + OwnPin)
         /\ DOMAIN left' = DOMAIN left \ S
         /\ \A x \in DOMAIN left' : left'[x] = left[x]
         /\ ondemand' = ondemand \ S /\ gone' = gone \cup (S \cap DOMAIN left)
<1> DEFINE e == O!Restrict(left, DOMAIN left \ S)
<1>0. pin + OwnPin \in Nat /\ left \in O!Table(pin + OwnPin)
  BY Sizes
<1>1. /\ e \in O!Table(pin + OwnPin)
      /\ DOMAIN e = DOMAIN left \ S
      /\ \A x \in DOMAIN left \ S : e[x] = left[x]
  BY <1>0, TableLess
<1>2. left' = e /\ ondemand' = ondemand \ S /\ gone' = gone \cup (S \cap DOMAIN left)
  BY DEF O!Drops
<1> QED BY <1>1, <1>2

\* A touch: a tracked model was not idle.
LEMMA TouchEffect ==
  ASSUME O!TypeOK, NEW m \in Configured, idle' = O!With(idle, m, 0)
  PROVE  /\ idle' \in O!Table(ttl)
         /\ DOMAIN idle' = DOMAIN idle \cup {m} /\ idle'[m] = 0
         /\ \A x \in DOMAIN idle : x # m => idle'[x] = idle[x]
<1> DEFINE e == O!With(idle, m, 0)
<1>1. ttl \in Nat /\ 0 \in 0 .. ttl /\ idle \in O!Table(ttl)
  BY Sizes
<1>2. e \in O!Table(ttl)
  BY <1>1, TableWith
<1>3. /\ DOMAIN e = DOMAIN idle \cup {m}
      /\ \A x \in DOMAIN idle \cup {m} : e[x] = IF x = m THEN 0 ELSE idle[x]
  BY DEF O!With
<1> QED BY <1>2, <1>3

LEMMA ForgetEffect ==
  ASSUME O!TypeOK, NEW m, idle' = O!But(idle, m)
  PROVE  /\ idle' \in O!Table(ttl)
         /\ DOMAIN idle' = DOMAIN idle \ {m}
         /\ \A x \in DOMAIN idle' : idle'[x] = idle[x]
<1> DEFINE e == O!Restrict(idle, DOMAIN idle \ {m})
<1>0. ttl \in Nat /\ idle \in O!Table(ttl)
  BY Sizes
<1>1. /\ e \in O!Table(ttl)
      /\ DOMAIN e = DOMAIN idle \ {m}
      /\ \A x \in DOMAIN idle \ {m} : e[x] = idle[x]
  BY <1>0, TableLess
<1>2. idle' = e
  BY DEF O!But
<1> QED BY <1>1, <1>2

LEMMA CarryEffect ==
  ASSUME O!TypeOK, O!Carry
  PROVE  /\ op.model \in Configured /\ op.verb \in {"load", "unload"} /\ serving
         /\ op' = [op EXCEPT !.at = "done"] /\ op'.verb = op.verb /\ op'.model = op.model
         /\ op' # O!None /\ O!Loading' = O!Loading
         /\ \/ op.verb = "load" /\ O!Holds(op.model, O!KeepAlive)
               /\ ondemand' = ondemand \ {op.model}
            \/ op.verb = "unload" /\ O!Drops({op.model})
         /\ late' = late \ {op.model}
         /\ UNCHANGED <<pin, ttl, serving, idle, nap, unserved, excused, seen>>
<1>1. op # O!None /\ op \in [verb : {"load", "unload"}, model : Configured,
                             at : {"generate", "refused", "embed", "done"}] /\ serving
  BY OpType DEF O!Carry
<1>2. op' = [op EXCEPT !.at = "done"]
  BY DEF O!Carry, O!Reaches
<1>3. op'.verb = op.verb /\ op'.model = op.model /\ op' # O!None
  BY <1>1, <1>2 DEF O!None
<1>4. O!Loading' = O!Loading
  BY <1>3 DEF O!Loading
<1> QED BY <1>1, <1>2, <1>3, <1>4 DEF O!Carry, O!Reaches

\* Further along, the request is for the same model.
LEMMA ReachesEffect ==
  ASSUME O!TypeOK, NEW at, op # O!None, O!Reaches(at)
  PROVE  O!Loading' = O!Loading /\ op'.model = op.model /\ op'.verb = op.verb
<1>1. op \in [verb : {"load", "unload"}, model : Configured,
              at : {"generate", "refused", "embed", "done"}]
  BY OpType
<1>2. op' = [op EXCEPT !.at = at]
  BY DEF O!Reaches
<1> QED BY <1>1, <1>2 DEF O!Loading

LEMMA AnsweredEffect ==
  ASSUME O!TypeOK, O!Answered
  PROVE  /\ op.model \in Configured /\ serving /\ op' = O!None
         /\ O!Loading' = {}
         /\ \/ /\ op.verb = "load" /\ O!Loading = {op.model}
               /\ idle' = O!With(idle, op.model, 0) /\ unserved' = unserved \cup {op.model}
            \/ /\ op.verb = "unload" /\ O!Loading = {}
               /\ idle' = O!But(idle, op.model) /\ unserved' = unserved
         /\ excused' = excused \ {op.model} /\ seen' = seen \ {op.model}
         /\ UNCHANGED <<pin, ttl, serving, nap, left, late, ondemand, gone>>
<1>1. op # O!None /\ op \in [verb : {"load", "unload"}, model : Configured,
                             at : {"generate", "refused", "embed", "done"}] /\ serving
  BY OpType DEF O!Answered
<1>2. op' = O!None
  BY DEF O!Answered, O!Succeed
<1>3. O!Loading' = {}
  BY <1>2 DEF O!Loading, O!None
<1> QED BY <1>1, <1>2, <1>3 DEF O!Answered, O!Succeed, O!Loading, O!daemon

LEMMA AbandonedEffect ==
  ASSUME O!TypeOK, O!Abandoned
  PROVE  /\ UNCHANGED <<left, ondemand, gone>>
         /\ \/ late' = late
            \/ /\ op # O!None /\ op.verb = "load" /\ op.model \notin DOMAIN left
               /\ op.model \in Configured /\ O!Loading = {op.model}
               /\ late' = late \cup {op.model}
BY OpType DEF O!Abandoned, O!daemon, O!history, O!Loading

LEMMA FailedEffect ==
  ASSUME O!TypeOK, O!Failed
  PROVE  /\ O!Loading' = {} /\ op' = O!None
         /\ excused' = excused \cup O!Loading
         /\ UNCHANGED <<pin, ttl, serving, idle, nap, unserved, seen>>
BY DEF O!Failed, O!Loading, O!None

LEMMA LateEffect ==
  ASSUME O!TypeOK, O!LateLoad
  PROVE  \E m \in late :
           /\ m \in Configured /\ O!Holds(m, O!KeepAlive)
           /\ late' = late \ {m} /\ ondemand' = ondemand \ {m}
           /\ UNCHANGED <<pin, ttl, serving, op, idle, nap, unserved, excused, seen>>
BY DEF O!LateLoad, O!TypeOK, O!coload

LEMMA AdoptEffect ==
  ASSUME O!TypeOK, O!Adopt
  PROVE  /\ idle' \in O!Table(ttl) /\ DOMAIN idle' \subseteq DOMAIN left
         /\ \A x \in DOMAIN idle' : idle'[x] = 0
         /\ unserved' = DOMAIN idle'
         /\ excused' = excused \cup (DOMAIN left \ DOMAIN idle')
         /\ serving'
         /\ UNCHANGED <<pin, ttl, op, nap, seen, left, late, ondemand, gone>>
<1>1. PICK listed \in {DOMAIN left \ Bare, {}} :
        /\ idle' = [m \in listed |-> 0] /\ unserved' = listed
        /\ excused' = excused \cup (DOMAIN left \ listed)
  BY DEF O!Adopt
<1>2. listed \subseteq DOMAIN left /\ DOMAIN idle' = listed /\ \A x \in listed : idle'[x] = 0
  BY <1>1
<1>3. idle' \in O!Table(ttl)
  BY <1>1, <1>2, Sizes, TableDef
<1> QED BY <1>1, <1>2, <1>3 DEF O!Adopt, O!daemon

LEMMA TickEffect ==
  ASSUME O!TypeOK, O!Tick
  PROVE  /\ DOMAIN left' = {m \in DOMAIN left : left[m] # 1}
         /\ \A m \in DOMAIN left' : left'[m] = IF left[m] = 0 THEN 0 ELSE left[m] - 1
         /\ left' \in O!Table(pin + OwnPin)
         /\ ondemand' = ondemand \cap DOMAIN left' /\ gone' = gone \cup (DOMAIN left \ DOMAIN left')
         /\ DOMAIN idle' = DOMAIN idle
         /\ \A m \in DOMAIN idle : idle'[m] = IF idle[m] < ttl THEN idle[m] + 1 ELSE ttl
         /\ idle' \in O!Table(ttl)
         /\ nap' = IF serving /\ ttl > 0 /\ nap > 0 THEN nap - 1 ELSE nap
         /\ nap' \in 0 .. Period
         /\ seen' = IF nap' = 0 THEN seen \cup {m \in DOMAIN idle : ttl > 0 /\ idle'[m] >= ttl} ELSE seen
         /\ UNCHANGED <<pin, ttl, serving, op, unserved, excused, late>>
<1>1. /\ DOMAIN left' = {m \in DOMAIN left : left[m] # 1}
      /\ \A m \in DOMAIN left' : left'[m] = IF left[m] = 0 THEN 0 ELSE left[m] - 1
      /\ left' \in [DOMAIN left' -> Nat]
  BY Sizes DEF O!Tick
<1>2. left' \in O!Table(pin + OwnPin)
  <2>1. \A m \in DOMAIN left' : left'[m] \in 0 .. (pin + OwnPin)
    BY <1>1, Sizes, TableDef
  <2> QED BY <1>1, <2>1, Sizes, TableDef
<1>3. /\ DOMAIN idle' = DOMAIN idle
      /\ \A m \in DOMAIN idle : idle'[m] = IF idle[m] < ttl THEN idle[m] + 1 ELSE ttl
      /\ idle' = [m \in DOMAIN idle |-> IF idle[m] < ttl THEN idle[m] + 1 ELSE ttl]
  BY DEF O!Tick
<1>4. idle' \in O!Table(ttl)
  BY <1>3, Sizes, TableDef
<1>5. nap' = (IF serving /\ ttl > 0 /\ nap > 0 THEN nap - 1 ELSE nap) /\ nap' \in 0 .. Period
  BY Sizes, Constants DEF O!Tick
<1>6. seen' = IF nap' = 0 THEN seen \cup {m \in DOMAIN idle : ttl > 0 /\ idle'[m] >= ttl} ELSE seen
  BY <1>3 DEF O!Tick, O!Expired
<1> QED BY <1>1, <1>2, <1>3, <1>4, <1>5, <1>6 DEF O!Tick

(***************************************************************************)
(* The invariant, conjunct by conjunct.                                    *)
(***************************************************************************)
LEMMA OllamaInit == O!Init => OllamaInv
<1> SUFFICES ASSUME O!Init PROVE OllamaInv
  OBVIOUS
<1>1. pin \in Nat /\ ttl \in Nat /\ pin + OwnPin \in Nat /\ Period \in 0 .. Period
  BY Constants DEF O!Init
<1>2. DOMAIN O!Nobody = {}
  BY DEF O!Nobody
<1>3. O!TypeOK
  BY <1>1, <1>2, TableNobody DEF O!Init, O!TypeOK
<1>4. Explained /\ Noticed /\ Outlasting
  BY <1>1, <1>2 DEF O!Init, Explained, Owed, Quiet, Landed, O!None, O!OrphansExplained,
                   O!GhostsExplained, Noticed, Outlasting
<1> QED BY <1>3, <1>4 DEF OllamaInv

\* A model that is held for n ticks, n no more than its lease.
LEMMA LeaseHolds ==
  ASSUME O!TypeOK, NEW m \in Configured, NEW n \in 0 .. (pin + OwnPin), O!Holds(m, n),
         UNCHANGED pin, ondemand' \cup {m} = ondemand \cup {m},
         n <= O!Lease(m)'
  PROVE  left' \in O!Table(pin' + OwnPin) /\ \A x \in DOMAIN left' : left'[x] <= O!Lease(x)'
<1>1. /\ left' \in O!Table(pin + OwnPin)
      /\ DOMAIN left' = DOMAIN left \cup {m} /\ left'[m] = n
      /\ \A x \in DOMAIN left : x # m => left'[x] = left[x]
  BY HoldsEffect
<1>2. ASSUME NEW x \in DOMAIN left' PROVE left'[x] <= O!Lease(x)'
  <2>1. CASE x = m
    BY <1>1, <2>1
  <2>2. CASE x # m
    <3>1. x \in DOMAIN left /\ left'[x] = left[x] /\ left[x] <= O!Lease(x)
      BY <1>1, <2>2, Sizes
    <3>2. O!Lease(x)' = O!Lease(x)
      BY <2>2 DEF O!Lease
    <3> QED BY <3>1, <3>2
  <2> QED BY <2>1, <2>2
<1> QED BY <1>1, <1>2

LEMMA LeaseDrops ==
  ASSUME O!TypeOK, NEW S, O!Drops(S), UNCHANGED pin
  PROVE  left' \in O!Table(pin' + OwnPin) /\ \A x \in DOMAIN left' : left'[x] <= O!Lease(x)'
<1>1. /\ left' \in O!Table(pin + OwnPin)
      /\ DOMAIN left' = DOMAIN left \ S
      /\ \A x \in DOMAIN left' : left'[x] = left[x]
      /\ ondemand' = ondemand \ S
  BY DropsEffect
<1>2. ASSUME NEW x \in DOMAIN left' PROVE left'[x] <= O!Lease(x)'
  <2>1. x \in DOMAIN left /\ left'[x] = left[x] /\ left[x] <= O!Lease(x)
    BY <1>1, Sizes
  <2>2. O!Lease(x)' = O!Lease(x)
    BY <1>1 DEF O!Lease
  <2> QED BY <2>1, <2>2
<1> QED BY <1>1, <1>2

LEMMA OllamaTypeStep ==
  ASSUME O!TypeOK, [O!Next]_ollama
  PROVE  O!TypeOK'
<1> DEFINE Leases == left \in O!Table(pin + OwnPin) /\ \A x \in DOMAIN left : left[x] <= O!Lease(x)
           Calls  == /\ op \in {O!None} \cup [verb : {"load", "unload"}, model : Configured,
                                            at : {"generate", "refused", "embed", "done"}]
                     /\ op # O!None => serving
           Rest   == /\ pin \in Pins /\ ttl \in Ttls /\ serving \in BOOLEAN
                     /\ idle \in O!Table(ttl) /\ nap \in 0 .. Period
                     /\ late \subseteq Configured /\ unserved \subseteq Configured
                     /\ ondemand \subseteq Configured /\ excused \subseteq Configured
                     /\ gone \subseteq Configured /\ seen \subseteq Configured
<1>0. Leases /\ Calls /\ Rest /\ pin \in Nat /\ ttl \in Nat
  BY Sizes DEF O!TypeOK
<1> SUFFICES Leases' /\ Calls' /\ Rest'
  BY DEF O!TypeOK
\* Where the card is left alone.
<1>a. (UNCHANGED <<left, pin, ondemand>>) => Leases'
  BY <1>0 DEF O!Lease
<1>1. ASSUME NEW m \in Configured, O!Load(m) \/ O!Unload(m) PROVE Leases' /\ Calls' /\ Rest'
  <2>1. Calls' /\ Rest'
    BY <1>0, <1>1 DEF O!Load, O!Unload, O!Begin
  <2> QED BY <1>1, <1>a, <2>1 DEF O!Load, O!Unload, O!Begin
<1>2. ASSUME NEW m \in Configured, O!Ready(m) PROVE Leases' /\ Calls' /\ Rest'
  <2>1. idle' \in O!Table(ttl)
    BY <1>2, TouchEffect DEF O!Ready
  <2> QED BY <1>0, <1>2, <1>a, <2>1 DEF O!Ready, O!daemon
<1>3. ASSUME NEW m \in Configured, O!Gone(m) PROVE Leases' /\ Calls' /\ Rest'
  <2>1. idle' \in O!Table(ttl)
    BY <1>3, ForgetEffect DEF O!Gone
  <2> QED BY <1>0, <1>3, <1>a, <2>1 DEF O!Gone, O!daemon
<1>4. ASSUME NEW m \in Configured, O!Serve(m) PROVE Leases' /\ Calls' /\ Rest'
  <2> DEFINE n == IF m \in ondemand THEN OwnPin ELSE O!KeepAlive
  <2>1. n \in 0 .. (pin + OwnPin) /\ O!Holds(m, n) /\ n <= O!Lease(m)'
        /\ pin' = pin /\ ondemand' = ondemand
    BY <1>4, Sizes, Constants DEF O!Serve, O!Reached, O!Lease
  <2>2. Leases' /\ gone' = gone \ {m}
    BY <2>1, LeaseHolds, HoldsEffect
  <2> QED BY <1>0, <1>4, <2>2 DEF O!Serve, O!Reached
<1>5. ASSUME NEW m \in Configured, O!OnDemand(m) PROVE Leases' /\ Calls' /\ Rest'
  <2>1. OwnPin \in 0 .. (pin + OwnPin) /\ O!Holds(m, OwnPin) /\ OwnPin <= O!Lease(m)'
        /\ pin' = pin /\ ondemand' = ondemand \cup {m}
    BY <1>5, Sizes, Constants DEF O!OnDemand, O!Reached, O!Lease
  <2>2. Leases' /\ gone' = gone \ {m}
    BY <2>1, LeaseHolds, HoldsEffect
  <2> QED BY <1>0, <1>5, <2>1, <2>2 DEF O!OnDemand, O!Reached
<1>6. CASE O!CannotGenerate
  <2>1. op # O!None
    BY <1>6, OpType DEF O!CannotGenerate
  <2> QED BY <1>0, <1>6, <1>a, <2>1 DEF O!CannotGenerate, O!Reaches, O!daemon, O!None
<1>7. CASE O!FallBack
  <2>1. op # O!None
    BY <1>7, OpType DEF O!FallBack
  <2> QED BY <1>0, <1>7, <1>a, <2>1 DEF O!FallBack, O!Reaches, O!daemon, O!None
<1>8. CASE O!Carry
  <2>1. Calls' /\ op.model \in Configured /\ pin' = pin
    BY <1>0, <1>8, CarryEffect, OpType DEF O!Carry
  <2>2. Leases' /\ ondemand' \subseteq Configured /\ gone' \subseteq Configured
    <3>1. ASSUME NEW m \in Configured, O!Holds(m, O!KeepAlive), ondemand' = ondemand \ {m}
          PROVE  Leases' /\ ondemand' \subseteq Configured /\ gone' \subseteq Configured
      <4>1. O!KeepAlive \in 0 .. (pin + OwnPin) /\ O!KeepAlive <= O!Lease(m)'
        BY <2>1, <3>1, Sizes DEF O!Lease
      <4>2. Leases' /\ gone' = gone \ {m}
        BY <2>1, <3>1, <4>1, LeaseHolds, HoldsEffect
      <4> QED BY <1>0, <3>1, <4>2
    <3>2. CASE O!Drops({op.model})
      <4>1. Leases'
        BY <2>1, <3>2, LeaseDrops
      <4>2. ondemand' = ondemand \ {op.model} /\ gone' = gone \cup ({op.model} \cap DOMAIN left)
        BY <3>2, DropsEffect
      <4> QED BY <1>0, <2>1, <4>1, <4>2
    <3> QED BY <1>8, <2>1, <3>1, <3>2, CarryEffect
  <2>3. UNCHANGED <<pin, ttl, serving, idle, nap, unserved, excused, seen>> /\ late' \subseteq late
    BY <1>8, CarryEffect
  <2> QED BY <1>0, <2>1, <2>2, <2>3
<1>9. CASE O!Answered
  <2>1. op.model \in Configured /\ op' = O!None
        /\ UNCHANGED <<pin, ttl, serving, nap, left, late, ondemand, gone>>
        /\ unserved' \subseteq unserved \cup {op.model}
        /\ excused' \subseteq excused /\ seen' \subseteq seen
    BY <1>9, AnsweredEffect
  <2>2. idle' \in O!Table(ttl)
    <3>1. CASE idle' = O!With(idle, op.model, 0)
      BY <2>1, <3>1, TouchEffect
    <3>2. CASE idle' = O!But(idle, op.model)
      BY <3>2, ForgetEffect
    <3> QED BY <1>9, <3>1, <3>2, AnsweredEffect
  <2> QED BY <1>0, <1>a, <2>1, <2>2
<1>10. CASE O!Failed
  <2>1. UNCHANGED <<left, ondemand, gone>> /\ late' \subseteq Configured
    BY <1>0, <1>10, AbandonedEffect DEF O!Failed
  <2> QED BY <1>0, <1>10, <1>a, <2>1, FailedEffect, OpType
<1>11. CASE O!SweepEnds
  <2>1. Period \in 0 .. Period
    BY Constants
  <2> QED BY <1>0, <1>11, <1>a, <2>1 DEF O!SweepEnds, O!daemon
<1>12. CASE O!Stop
  <2>1. UNCHANGED <<left, ondemand, gone>> /\ late' \subseteq Configured
    BY <1>0, <1>12, AbandonedEffect DEF O!Stop
  <2>2. Period \in 0 .. Period /\ idle' \in O!Table(ttl)
    BY <1>0, <1>12, Constants, TableNobody DEF O!Stop
  <2> QED BY <1>0, <1>12, <1>a, <2>1, <2>2 DEF O!Stop
<1>13. CASE O!Adopt
  <2>1. DOMAIN left \subseteq Configured
    BY Sizes
  <2> QED BY <1>0, <1>13, <1>a, <2>1, AdoptEffect
<1>14. CASE O!Tick
  <2>1. Leases'
    <3>1. left' \in O!Table(pin' + OwnPin)
      BY <1>14, TickEffect
    <3>2. ASSUME NEW x \in DOMAIN left' PROVE left'[x] <= O!Lease(x)'
      <4>1. x \in DOMAIN left /\ left[x] \in Nat /\ left[x] <= O!Lease(x)
        BY <1>14, TickEffect, Sizes
      <4>2. left'[x] <= left[x]
        BY <1>14, <4>1, TickEffect
      <4>3. O!Lease(x)' = O!Lease(x) /\ O!Lease(x) \in Nat /\ left'[x] \in Nat
        BY <1>0, <1>14, <4>1, TickEffect, Constants DEF O!Lease
      <4> QED BY <4>1, <4>2, <4>3
    <3> QED BY <3>1, <3>2
  <2>2. DOMAIN left \subseteq Configured /\ DOMAIN idle \subseteq Configured
    BY Sizes
  <2>3. ondemand' \subseteq ondemand /\ gone' \subseteq gone \cup DOMAIN left
        /\ seen' \subseteq seen \cup DOMAIN idle
    BY <1>14, TickEffect
  <2>4. UNCHANGED <<pin, ttl, serving, op, unserved, excused, late>>
        /\ idle' \in O!Table(ttl) /\ nap' \in 0 .. Period
    BY <1>14, TickEffect
  <2> QED BY <1>0, <2>1, <2>2, <2>3, <2>4
<1>15. CASE O!LateLoad
  <2>1. PICK m \in late :
           /\ m \in Configured /\ O!Holds(m, O!KeepAlive)
           /\ late' = late \ {m} /\ ondemand' = ondemand \ {m}
           /\ UNCHANGED <<pin, ttl, serving, op, idle, nap, unserved, excused, seen>>
    BY <1>15, LateEffect
  <2>2. O!KeepAlive \in 0 .. (pin + OwnPin) /\ O!KeepAlive <= O!Lease(m)'
    BY <2>1, Sizes DEF O!Lease
  <2>3. Leases' /\ gone' = gone \ {m}
    BY <2>1, <2>2, LeaseHolds, HoldsEffect
  <2> QED BY <1>0, <2>1, <2>3
<1>16. CASE O!DaemonDies
  <2>1. O!Drops(DOMAIN left) /\ late' = {}
        /\ UNCHANGED <<pin, ttl, serving, op, idle, nap, unserved, excused, seen>>
    BY <1>16 DEF O!DaemonDies, O!coload
  <2>2. Leases' /\ ondemand' \subseteq ondemand /\ gone' \subseteq gone \cup DOMAIN left
    BY <2>1, LeaseDrops, DropsEffect
  <2> QED BY <1>0, <2>1, <2>2, Sizes
<1>17. CASE UNCHANGED ollama
  BY <1>0, <1>17, <1>a DEF ollama
<1> QED
  BY <1>1, <1>2, <1>3, <1>4, <1>5, <1>6, <1>7, <1>8, <1>9, <1>10, <1>11, <1>12, <1>13,
     <1>14, <1>15, <1>16, <1>17
  DEF O!Next

\* What comes onto the card is tracked, owed, loaded for a request or reported to
\* have failed; what is tracked and not there has left it.
LEMMA ExplainedStep ==
  ASSUME O!TypeOK, Explained, [O!Next]_ollama
  PROVE  Explained'
<1> USE DEF Explained, Owed, Quiet, Landed, O!OrphansExplained, O!GhostsExplained
\* The daemon holds one model more, and coload knows why.
<1>a. ASSUME NEW m \in Configured, NEW n \in 0 .. (pin + OwnPin), O!Holds(m, n)
      PROVE  DOMAIN left' = DOMAIN left \cup {m} /\ gone' = gone \ {m}
  BY <1>a, HoldsEffect
<1>1. ASSUME NEW m \in Configured, O!Load(m) PROVE Explained'
  <2>1. O!Loading = {} /\ O!Loading' = {m} /\ gone' = gone \ {m} /\ op'.at = "generate"
        /\ UNCHANGED <<serving, idle, left, late, ondemand, excused>>
    BY <1>1 DEF O!Load, O!Begin, O!Loading, O!None
  <2> QED BY <2>1
<1>2. ASSUME NEW m \in Configured, O!Unload(m) PROVE Explained'
  <2>1. O!Loading = {} /\ O!Loading' = {} /\ op'.at = "generate"
        /\ UNCHANGED <<serving, idle, left, late, ondemand, excused, gone>>
    BY <1>2 DEF O!Unload, O!Begin, O!Loading, O!None
  <2> QED BY <2>1
<1>3. ASSUME NEW m \in Configured, O!Ready(m) PROVE Explained'
  <2>1. DOMAIN idle' = DOMAIN idle \cup {m} /\ excused' = excused \ {m} /\ m \in DOMAIN left
        /\ serving /\ UNCHANGED <<serving, op, left, late, ondemand, gone>>
    BY <1>3, TouchEffect DEF O!Ready, O!daemon
  <2>2. O!Loading' = O!Loading
    BY <2>1 DEF O!Loading
  <2> QED BY <2>1, <2>2
<1>4. ASSUME NEW m \in Configured, O!Gone(m) PROVE Explained'
  <2>1. DOMAIN idle' = DOMAIN idle \ {m} /\ m \notin DOMAIN left
        /\ UNCHANGED <<serving, op, left, late, ondemand, excused, gone>>
    BY <1>4, ForgetEffect DEF O!Gone, O!daemon
  <2>2. O!Loading' = O!Loading
    BY <2>1 DEF O!Loading
  <2> QED BY <2>1, <2>2
<1>5. ASSUME NEW m \in Configured, O!Serve(m) PROVE Explained'
  <2> DEFINE n == IF m \in ondemand THEN OwnPin ELSE O!KeepAlive
  <2>1. n \in 0 .. (pin + OwnPin) /\ O!Holds(m, n)
    BY <1>5, Sizes, Constants DEF O!Serve
  <2>2. DOMAIN left' = DOMAIN left \cup {m} /\ gone' = gone \ {m}
    BY <1>a, <2>1
  <2>3. m \in DOMAIN left /\ UNCHANGED <<serving, op, idle, late, ondemand, excused>>
    BY <1>5 DEF O!Serve, O!Reached
  <2>4. O!Loading' = O!Loading
    BY <2>3 DEF O!Loading
  <2> QED BY <2>2, <2>3, <2>4
<1>6. ASSUME NEW m \in Configured, O!OnDemand(m) PROVE Explained'
  <2>1. OwnPin \in 0 .. (pin + OwnPin)
    BY Sizes, Constants
  <2>2. DOMAIN left' = DOMAIN left \cup {m} /\ gone' = gone \ {m} /\ ondemand' = ondemand \cup {m}
        /\ m \notin late /\ UNCHANGED <<serving, op, idle, late, excused>>
    BY <1>6, <1>a, <2>1 DEF O!OnDemand, O!Reached
  <2>3. O!Loading' = O!Loading
    BY <2>2 DEF O!Loading
  <2> QED BY <2>2, <2>3
<1>7. CASE O!CannotGenerate \/ O!FallBack
  <2>1. op # O!None /\ UNCHANGED <<serving, idle, left, late, ondemand, excused, gone>>
    BY <1>7, OpType DEF O!CannotGenerate, O!FallBack, O!Reaches, O!daemon
  <2>2. op'.at # "done"
    <3>1. op \in [verb : {"load", "unload"}, model : Configured,
                  at : {"generate", "refused", "embed", "done"}]
      BY <2>1, OpType
    <3> QED BY <1>7, <3>1 DEF O!CannotGenerate, O!FallBack, O!Reaches
  <2>3. O!Loading' = O!Loading
    BY <1>7, <2>1, ReachesEffect DEF O!CannotGenerate, O!FallBack
  <2> QED BY <2>1, <2>2, <2>3
<1>8. CASE O!Carry
  <2> DEFINE m == op.model
  <2>1. m \in Configured /\ serving /\ O!Loading' = O!Loading /\ late' = late \ {m}
        /\ op'.model = m /\ op'.verb = op.verb /\ UNCHANGED <<serving, idle, excused>>
    BY <1>8, CarryEffect
  <2>2. CASE op.verb = "load" /\ O!Holds(m, O!KeepAlive) /\ ondemand' = ondemand \ {m}
    <3>1. DOMAIN left' = DOMAIN left \cup {m} /\ gone' = gone \ {m} /\ O!Loading = {m}
      BY <1>a, <2>1, <2>2, Sizes DEF O!Loading
    <3> QED BY <2>1, <2>2, <3>1
  <2>3. CASE op.verb = "unload" /\ O!Drops({m})
    <3>1. DOMAIN left' = DOMAIN left \ {m} /\ ondemand' = ondemand \ {m}
          /\ gone' = gone \cup ({m} \cap DOMAIN left)
      BY <2>3, DropsEffect
    <3> QED BY <2>1, <2>3, <3>1
  <2> QED BY <1>8, <2>2, <2>3, CarryEffect
<1>9. CASE O!Answered
  <2> DEFINE m == op.model
  <2>1. serving /\ O!Loading' = {} /\ excused' = excused \ {m} /\ op.at = "done"
        /\ op'.at = "none"
        /\ UNCHANGED <<serving, left, late, ondemand, gone>>
    BY <1>9, AnsweredEffect DEF O!Answered, O!None
  <2>2. CASE op.verb = "load" /\ O!Loading = {m} /\ idle' = O!With(idle, m, 0)
    <3>1. DOMAIN idle' = DOMAIN idle \cup {m}
      BY <1>9, <2>2, AnsweredEffect, TouchEffect
    <3> QED BY <2>1, <2>2, <3>1
  <2>3. CASE op.verb = "unload" /\ O!Loading = {} /\ idle' = O!But(idle, m)
    <3>1. DOMAIN idle' = DOMAIN idle \ {m}
      BY <2>3, ForgetEffect
    <3> QED BY <2>1, <2>3, <3>1
  <2> QED BY <1>9, <2>2, <2>3, AnsweredEffect
<1>10. CASE O!Failed
  <2>1. O!Loading' = {} /\ op'.at = "none" /\ excused' = excused \cup O!Loading
        /\ UNCHANGED <<serving, idle, left, ondemand, gone>>
    BY <1>10, FailedEffect, AbandonedEffect DEF O!Failed, O!None
  <2>2. late' \subseteq late \cup O!Loading /\ late' \cap DOMAIN left = {}
    BY <1>10, AbandonedEffect DEF O!Failed
  <2> QED BY <2>1, <2>2
<1>11. CASE O!SweepEnds
  BY <1>11 DEF O!SweepEnds, O!daemon, O!Loading
<1>12. CASE O!Stop
  <2>1. DOMAIN idle' = {} /\ ~ serving' /\ op'.at = "none" /\ excused' = late'
    BY <1>12 DEF O!Stop, O!Nobody, O!None
  <2>2. left' = left /\ late' \cap DOMAIN left = {}
    BY <1>12, AbandonedEffect DEF O!Stop
  <2> QED BY <2>1, <2>2
<1>13. CASE O!Adopt
  <2>1. /\ DOMAIN idle' \subseteq DOMAIN left
        /\ excused' = excused \cup (DOMAIN left \ DOMAIN idle')
        /\ serving' /\ UNCHANGED <<op, left, late, ondemand, gone>>
    BY <1>13, AdoptEffect
  <2>2. O!Loading' = O!Loading
    BY <2>1 DEF O!Loading
  <2> QED BY <2>1, <2>2
<1>14. CASE O!Tick
  <2>1. /\ DOMAIN left' \subseteq DOMAIN left /\ DOMAIN idle' = DOMAIN idle
        /\ ondemand' = ondemand \cap DOMAIN left' /\ gone' = gone \cup (DOMAIN left \ DOMAIN left')
        /\ UNCHANGED <<serving, op, excused, late>>
    BY <1>14, TickEffect
  <2>2. O!Loading' = O!Loading
    BY <2>1 DEF O!Loading
  <2> QED BY <2>1, <2>2
<1>15. CASE O!LateLoad
  <2>1. PICK m \in late :
           /\ m \in Configured /\ O!Holds(m, O!KeepAlive)
           /\ late' = late \ {m} /\ ondemand' = ondemand \ {m}
           /\ UNCHANGED <<pin, ttl, serving, op, idle, nap, unserved, excused, seen>>
    BY <1>15, LateEffect
  <2>2. DOMAIN left' = DOMAIN left \cup {m} /\ gone' = gone \ {m}
    BY <1>a, <2>1, Sizes
  <2>3. O!Loading' = O!Loading
    BY <2>1 DEF O!Loading
  <2> QED BY <2>1, <2>2, <2>3
<1>16. CASE O!DaemonDies
  <2>1. O!Drops(DOMAIN left) /\ late' = {} /\ UNCHANGED <<serving, op, idle, excused>>
    BY <1>16 DEF O!DaemonDies, O!coload
  <2>2. DOMAIN left' = {} /\ gone' = gone \cup DOMAIN left
    BY <2>1, DropsEffect
  <2>3. O!Loading' = O!Loading
    BY <2>1 DEF O!Loading
  <2> QED BY <2>1, <2>2, <2>3
<1>17. CASE UNCHANGED ollama
  BY <1>17 DEF ollama, O!Loading
<1> QED
  BY <1>1, <1>2, <1>3, <1>4, <1>5, <1>6, <1>7, <1>8, <1>9, <1>10, <1>11, <1>12, <1>13,
     <1>14, <1>15, <1>16, <1>17
  DEF O!Next

(***************************************************************************)
(* The sweep and the pins.                                                 *)
(***************************************************************************)
\* The configuration stays as it is.
LEMMA Fixed ==
  ASSUME [O!Next]_ollama
  PROVE  pin' = pin /\ ttl' = ttl
BY DEF O!Next, O!Load, O!Unload, O!Begin, O!Ready, O!Gone, O!Serve, O!OnDemand, O!Reached,
       O!CannotGenerate, O!FallBack, O!Carry, O!Reaches, O!Answered, O!Succeed, O!Failed,
       O!SweepEnds, O!Stop, O!Adopt, O!Tick, O!LateLoad, O!DaemonDies, ollama

\* Where no pin begins, the nap goes on and who is touched has a request to come.
LEMMA NoPin ==
  ASSUME O!TypeOK, Noticed, Outlasting,
         UNCHANGED <<pin, ttl, nap>>,
         \A x \in DOMAIN idle' :
           \/ idle'[x] = 0 /\ x \in unserved'
           \/ /\ x \in DOMAIN idle /\ idle'[x] = idle[x]
              /\ x \in seen => x \in seen'
              /\ x \in unserved => x \in unserved',
         \A x \in DOMAIN left' :
           x \in DOMAIN left /\ left'[x] = left[x] /\ (x \in ondemand => x \in ondemand')
  PROVE  Noticed' /\ Outlasting'
<1>1. Noticed'
  BY Sizes DEF Noticed
<1>2. Outlasting'
  <2> SUFFICES ASSUME Generous, NEW x \in (DOMAIN idle' \cap DOMAIN left') \ (unserved' \cup ondemand')
               PROVE  x \in seen' \/ Outlives(x)'
    BY DEF Outlasting, Generous
  <2>1. /\ x \in (DOMAIN idle \cap DOMAIN left) \ (unserved \cup ondemand)
        /\ idle'[x] = idle[x] /\ left'[x] = left[x] /\ (x \in seen => x \in seen')
    OBVIOUS
  <2>2. x \in seen \/ Outlives(x)
    BY <2>1 DEF Outlasting
  <2> QED BY <2>1, <2>2 DEF Outlives
<1> QED BY <1>1, <1>2

\* A pin that begins now is long enough.
LEMMA NewPin ==
  ASSUME O!TypeOK, Noticed, Outlasting, NEW m \in Configured, O!Holds(m, O!KeepAlive),
         UNCHANGED <<pin, ttl, nap, idle, seen>>,
         \A x \in Configured \ {m} : x \in unserved => x \in unserved',
         \A x \in Configured \ {m} : x \in ondemand => x \in ondemand'
  PROVE  Noticed' /\ Outlasting'
<1>1. Noticed'
  BY DEF Noticed
<1>2. O!KeepAlive \in 0 .. (pin + OwnPin) /\ pin \in Nat /\ ttl \in Nat /\ nap \in 0 .. Period
      /\ DOMAIN idle \subseteq Configured /\ \A x \in DOMAIN idle : idle[x] \in 0 .. ttl
  BY Sizes
<1>3. /\ DOMAIN left' = DOMAIN left \cup {m} /\ left'[m] = O!KeepAlive
      /\ \A x \in DOMAIN left : x # m => left'[x] = left[x]
  BY <1>2, HoldsEffect
<1>4. Outlasting'
  <2> SUFFICES ASSUME Generous, NEW x \in (DOMAIN idle \cap DOMAIN left') \ (unserved' \cup ondemand'),
                      x \notin seen
               PROVE  Outlives(x)'
    BY DEF Outlasting, Generous
  <2>1. CASE x = m
    <3>1. left'[x] >= ttl + Period /\ ttl > 0
      BY <1>2, <1>3, <2>1, KeepAliveType DEF Generous
    <3>2. left'[x] \in Nat /\ idle'[x] \in 0 .. ttl /\ (idle'[x] < ttl \/ nap >= 1)
      BY <1>2, <1>3, <2>1, <3>1 DEF Noticed
    <3> QED BY <1>2, <3>1, <3>2, Constants DEF Outlives
  <2>2. CASE x # m
    <3>1. x \in (DOMAIN idle \cap DOMAIN left) \ (unserved \cup ondemand) /\ left'[x] = left[x]
      BY <1>2, <1>3, <2>2
    <3>2. Outlives(x)
      BY <3>1 DEF Outlasting
    <3> QED BY <3>1, <3>2 DEF Outlives
  <2> QED BY <2>1, <2>2
<1> QED BY <1>1, <1>4

LEMMA TickSweep ==
  ASSUME O!TypeOK, Quiet, Noticed, Outlasting, O!Tick
  PROVE  Noticed' /\ Outlasting'
<1>1. /\ DOMAIN left' = {m \in DOMAIN left : left[m] # 1}
      /\ \A m \in DOMAIN left' : left'[m] = IF left[m] = 0 THEN 0 ELSE left[m] - 1
      /\ ondemand' = ondemand \cap DOMAIN left'
      /\ DOMAIN idle' = DOMAIN idle
      /\ \A m \in DOMAIN idle : idle'[m] = IF idle[m] < ttl THEN idle[m] + 1 ELSE ttl
      /\ nap' = IF serving /\ ttl > 0 /\ nap > 0 THEN nap - 1 ELSE nap
      /\ nap' \in 0 .. Period
      /\ seen' = IF nap' = 0 THEN seen \cup {m \in DOMAIN idle : ttl > 0 /\ idle'[m] >= ttl} ELSE seen
      /\ UNCHANGED <<pin, ttl, serving, op, unserved, excused, late>>
  BY TickEffect
<1>2. /\ ttl \in Nat /\ nap \in 0 .. Period
      /\ \A m \in DOMAIN idle : idle[m] \in 0 .. ttl
      /\ \A m \in DOMAIN left : left[m] \in Nat
  BY Sizes
<1>3. Noticed'
  <2> SUFFICES ASSUME ttl > 0, nap' = 0, NEW m \in DOMAIN idle
               PROVE  idle'[m] < ttl \/ m \in seen'
    BY <1>1 DEF Noticed
  <2>1. idle'[m] \in Nat
    BY <1>1, <1>2
  <2> QED BY <1>1, <1>2, <2>1
<1>4. Outlasting'
  <2> SUFFICES ASSUME Generous, NEW m \in (DOMAIN idle \cap DOMAIN left') \ (unserved \cup ondemand),
                      m \notin seen'
               PROVE  Outlives(m)'
    BY <1>1 DEF Outlasting, Generous
  <2>1. m \in DOMAIN left /\ left[m] # 1 /\ m \notin seen /\ ttl > 0 /\ serving
    BY <1>1 DEF Generous, Quiet
  <2>2. Outlives(m)
    BY <2>1 DEF Outlasting
  <2>3. left'[m] = (IF left[m] = 0 THEN 0 ELSE left[m] - 1) /\ left[m] \in Nat /\ idle[m] \in 0 .. ttl
        /\ idle'[m] = IF idle[m] < ttl THEN idle[m] + 1 ELSE ttl
    BY <1>1, <1>2, <2>1
  <2>4. idle'[m] < ttl \/ nap' >= 1
    BY <1>1, <1>2, <2>1, <2>3
  <2>5. CASE left[m] = 0
    BY <2>3, <2>5 DEF Outlives
  <2>6. CASE left[m] # 0 /\ idle[m] < ttl
    <3>1. left[m] + idle[m] >= ttl + Period
      BY <1>2, <2>2, <2>3, <2>6, Constants DEF Outlives
    <3>2. left'[m] + idle'[m] >= ttl + Period /\ left'[m] \in Nat /\ idle'[m] \in 0 .. ttl
      BY <1>2, <2>3, <2>6, <3>1, Constants
    <3> QED BY <1>1, <1>2, <2>4, <3>2, Constants DEF Outlives
  <2>7. CASE left[m] # 0 /\ idle[m] = ttl
    <3>1. nap >= 1 /\ left[m] >= nap
      BY <1>2, <2>2, <2>7 DEF Outlives
    <3>2. nap' = nap - 1 /\ left'[m] >= nap' /\ idle'[m] = ttl
      BY <1>1, <1>2, <2>1, <2>3, <2>7, <3>1
    <3> QED BY <1>1, <1>2, <2>4, <3>2 DEF Outlives
  <2> QED BY <1>2, <2>3, <2>5, <2>6, <2>7
<1> QED BY <1>3, <1>4

LEMMA SweepStep ==
  ASSUME O!TypeOK, Quiet, Noticed, Outlasting, [O!Next]_ollama
  PROVE  Noticed' /\ Outlasting'
<1> DEFINE Done == Noticed' /\ Outlasting'
<1>1. ASSUME NEW m \in Configured, O!Load(m) \/ O!Unload(m) PROVE Done
  BY <1>1, NoPin DEF O!Load, O!Unload, O!Begin
<1>2. ASSUME NEW m \in Configured, O!Ready(m) PROVE Done
  <2>1. DOMAIN idle' = DOMAIN idle \cup {m} /\ idle'[m] = 0
        /\ \A x \in DOMAIN idle : x # m => idle'[x] = idle[x]
    BY <1>2, TouchEffect DEF O!Ready
  <2>2. seen' = seen \ {m} /\ unserved' = unserved \cup {m}
        /\ UNCHANGED <<pin, ttl, nap, left, ondemand>>
    BY <1>2 DEF O!Ready, O!daemon
  <2> QED BY <2>1, <2>2, NoPin
<1>3. ASSUME NEW m \in Configured, O!Gone(m) PROVE Done
  <2>1. DOMAIN idle' = DOMAIN idle \ {m} /\ \A x \in DOMAIN idle' : idle'[x] = idle[x]
    BY <1>3, ForgetEffect DEF O!Gone
  <2>2. seen' = seen \ {m} /\ UNCHANGED <<pin, ttl, nap, unserved, left, ondemand>>
    BY <1>3 DEF O!Gone, O!daemon
  <2> QED BY <2>1, <2>2, NoPin
<1>4. ASSUME NEW m \in Configured, O!Serve(m), m \notin ondemand PROVE Done
  BY <1>4, NewPin DEF O!Serve, O!Reached
<1>5. ASSUME NEW m \in Configured, O!Serve(m) \/ O!OnDemand(m), m \in ondemand' PROVE Done
  <2>1. PICK n \in 0 .. (pin + OwnPin) : O!Holds(m, n)
    BY <1>5, Sizes DEF O!Serve, O!OnDemand
  <2>2. /\ DOMAIN left' = DOMAIN left \cup {m}
        /\ \A x \in DOMAIN left : x # m => left'[x] = left[x]
    BY <2>1, HoldsEffect
  <2>3. unserved' = unserved \ {m} /\ ondemand \subseteq ondemand' /\ UNCHANGED <<pin, ttl, nap, idle, seen>>
    BY <1>5 DEF O!Serve, O!OnDemand, O!Reached
  <2>4. Noticed'
    BY <2>3 DEF Noticed
  <2>5. Outlasting'
    <3> SUFFICES ASSUME Generous, NEW x \in (DOMAIN idle \cap DOMAIN left') \ (unserved' \cup ondemand'),
                        x \notin seen
                 PROVE  Outlives(x)'
      BY <2>3 DEF Outlasting, Generous
    <3>1. x # m /\ x \in (DOMAIN idle \cap DOMAIN left) \ (unserved \cup ondemand) /\ left'[x] = left[x]
      BY <1>5, <2>2, <2>3
    <3>2. Outlives(x)
      BY <3>1 DEF Outlasting
    <3> QED BY <2>3, <3>1, <3>2 DEF Outlives
  <2> QED BY <2>4, <2>5
<1>6. CASE O!CannotGenerate \/ O!FallBack
  BY <1>6, NoPin DEF O!CannotGenerate, O!FallBack, O!Reaches, O!daemon
<1>7. CASE O!Carry
  <2>1. op.model \in Configured /\ UNCHANGED <<pin, ttl, nap, idle, unserved, seen>>
    BY <1>7, CarryEffect
  <2>2. ASSUME NEW m \in Configured, O!Holds(m, O!KeepAlive), ondemand' = ondemand \ {m}
        PROVE  Done
    BY <2>1, <2>2, NewPin
  <2>3. ASSUME O!Drops({op.model}) PROVE Done
    <3>1. DOMAIN left' = DOMAIN left \ {op.model} /\ ondemand' = ondemand \ {op.model}
          /\ \A x \in DOMAIN left' : left'[x] = left[x]
      BY <2>3, DropsEffect
    <3> QED BY <2>1, <3>1, NoPin
  <2> QED BY <1>7, <2>1, <2>2, <2>3, CarryEffect
<1>8. CASE O!Answered
  <2>1. op.model \in Configured /\ UNCHANGED <<pin, ttl, nap, left, ondemand>>
        /\ seen' = seen \ {op.model}
    BY <1>8, AnsweredEffect
  <2>2. ASSUME NEW m \in Configured, idle' = O!With(idle, m, 0), seen' = seen \ {m},
               unserved' = unserved \cup {m}
        PROVE  Done
    <3>1. DOMAIN idle' = DOMAIN idle \cup {m} /\ idle'[m] = 0
          /\ \A x \in DOMAIN idle : x # m => idle'[x] = idle[x]
      BY <2>2, TouchEffect
    <3> QED BY <2>1, <2>2, <3>1, NoPin
  <2>3. ASSUME NEW m \in Configured, idle' = O!But(idle, m), seen' = seen \ {m}, unserved' = unserved
        PROVE  Done
    <3>1. DOMAIN idle' = DOMAIN idle \ {m} /\ \A x \in DOMAIN idle' : idle'[x] = idle[x]
      BY <2>3, ForgetEffect
    <3> QED BY <2>1, <2>3, <3>1, NoPin
  <2> QED BY <1>8, <2>1, <2>2, <2>3, AnsweredEffect
<1>9. CASE O!Failed
  <2>1. UNCHANGED <<pin, ttl, nap, idle, seen, unserved, left, ondemand>>
    BY <1>9, AbandonedEffect DEF O!Failed
  <2> QED BY <2>1, NoPin
<1>10. CASE O!SweepEnds
  <2>1. nap = 0 /\ nap' = Period /\ UNCHANGED <<pin, ttl, idle, unserved, seen, left, ondemand>>
    BY <1>10 DEF O!SweepEnds, O!daemon
  <2>2. Noticed'
    BY <2>1, Constants DEF Noticed
  <2>3. Outlasting'
    BY <2>1, Sizes, Constants DEF Outlasting, Generous, Noticed, Outlives
  <2> QED BY <2>2, <2>3
<1>11. CASE O!Stop
  BY <1>11 DEF O!Stop, O!Nobody, Noticed, Outlasting
<1>12. CASE O!Adopt
  BY <1>12, AdoptEffect, NoPin
<1>13. CASE O!Tick
  BY <1>13, TickSweep
<1>14. CASE O!LateLoad
  BY <1>14, LateEffect, NewPin
<1>15. CASE O!DaemonDies
  <2>1. DOMAIN left' = {} /\ UNCHANGED <<pin, ttl, idle, nap, unserved, seen>>
    BY <1>15, DropsEffect DEF O!DaemonDies, O!coload
  <2> QED BY <2>1, NoPin
<1>16. CASE UNCHANGED ollama
  BY <1>16, NoPin DEF ollama
<1> QED
  <2>1. ASSUME NEW m \in Configured, O!Serve(m) PROVE m \in ondemand => m \in ondemand'
    BY <2>1 DEF O!Serve
  <2>2. ASSUME NEW m \in Configured, O!OnDemand(m) PROVE m \in ondemand'
    BY <2>2 DEF O!OnDemand
  <2> QED
    BY <1>1, <1>2, <1>3, <1>4, <1>5, <1>6, <1>7, <1>8, <1>9, <1>10, <1>11, <1>12, <1>13,
       <1>14, <1>15, <1>16, <2>1, <2>2
    DEF O!Next

THEOREM OllamaInvariant == Spec => []OllamaInv
<1>1. Init => OllamaInv
  BY OllamaInit DEF Init
<1>2. OllamaInv /\ [Next]_vars => OllamaInv'
  <2> SUFFICES ASSUME OllamaInv, [Next]_vars PROVE OllamaInv'
    OBVIOUS
  <2>1. [O!Next]_ollama
    BY EachStep
  <2>2. O!TypeOK /\ Explained /\ Quiet /\ Noticed /\ Outlasting
    BY DEF OllamaInv, Explained
  <2> QED BY <2>1, <2>2, OllamaTypeStep, ExplainedStep, SweepStep DEF OllamaInv
<1> QED BY <1>1, <1>2, PTL DEF Spec

\* What Ollama holds while coload serves is tracked, but for the named
\* exceptions.
THEOREM OrphansExplainedAlways == Spec => []OrphansExplained
<1>1. OllamaInv => OrphansExplained
  BY DEF OllamaInv, Explained, OrphansExplained
<1> QED BY <1>1, OllamaInvariant, PTL

\* What coload takes for loaded is there, or left the card since.
THEOREM GhostsExplainedAlways == Spec => []GhostsExplained
<1>1. OllamaInv => GhostsExplained
  BY DEF OllamaInv, Explained, GhostsExplained
<1> QED BY <1>1, OllamaInvariant, PTL

\* Every variable of the two adapters keeps its type.
THEOREM BackendsType == Spec => []TypeOK
<1>1. VllmInv /\ OllamaInv => TypeOK
  BY DEF VllmInv, OllamaInv, TypeOK
<1> QED BY <1>1, VllmInvariant, OllamaInvariant, PTL

\* The daemon drops no model before a sweep found it expired, when the pin leaves
\* the sweep its interval.
THEOREM DaemonIsBackstopAlways == Spec => DaemonIsBackstop
<1> DEFINE Backstop ==
      O!Tick /\ ttl > 0 /\ pin - (pin % Second) >= ttl + Period
        => \A m \in (DOMAIN idle \cap DOMAIN left) \ (DOMAIN left' \cup unserved \cup ondemand) :
             m \in seen'
<1>1. OllamaInv => Backstop
  <2> SUFFICES ASSUME OllamaInv, O!Tick, Generous,
                      NEW m \in (DOMAIN idle \cap DOMAIN left) \ (DOMAIN left' \cup unserved \cup ondemand)
               PROVE  m \in seen'
    BY DEF Generous
  <2>1. O!TypeOK /\ Quiet /\ Outlasting
    BY DEF OllamaInv, Explained
  <2>2. /\ left[m] = 1
        /\ idle'[m] = IF idle[m] < ttl THEN idle[m] + 1 ELSE ttl
        /\ nap' = IF serving /\ ttl > 0 /\ nap > 0 THEN nap - 1 ELSE nap
        /\ seen' = IF nap' = 0 THEN seen \cup {x \in DOMAIN idle : ttl > 0 /\ idle'[x] >= ttl} ELSE seen
    BY <2>1, TickEffect
  <2>3. ttl \in Nat /\ nap \in 0 .. Period /\ idle[m] \in 0 .. ttl /\ serving /\ ttl > 0
    BY <2>1, Sizes DEF Quiet, Generous
  <2>4. CASE m \in seen
    BY <2>2, <2>4
  <2>5. CASE Outlives(m)
    <3>1. idle[m] = ttl /\ nap = 1
      BY <2>2, <2>3, <2>5, Constants DEF Outlives
    <3>2. nap' = 0 /\ idle'[m] >= ttl
      BY <2>2, <2>3, <3>1
    <3> QED BY <2>2, <2>3, <3>2
  <2> QED BY <2>1, <2>4, <2>5 DEF Outlasting
<1>2. OllamaInv => [Backstop]_(O!vars)
  BY <1>1
<1> QED BY <1>2, OllamaInvariant, PTL DEF DaemonIsBackstop, O!DaemonIsBackstop

=============================================================================
