---------------------------- MODULE ServiceProofs ----------------------------
(***************************************************************************)
(* Theorems about coload as a service: what becomes of the requests that   *)
(* its gateway takes, and of the card and the estimates when the process   *)
(* is restarted.                                                           *)
(*                                                                         *)
(* Within one life, and as long as no engine has loaded a model for a      *)
(* proxied request, a step is a step of the orchestrator; so what a step   *)
(* of the orchestrator keeps is kept here as well.                         *)
(***************************************************************************)
EXTENDS Gateway, Life, BudgetProofs

(***************************************************************************)
(* The gateway.                                                            *)
(***************************************************************************)
\* A step of the gateway is one of the orchestrator, unless an engine loads.
LEMMA GatewayRefines ==
  ASSUME [GatewayNext]_gatewayVars
  PROVE  [Next]_vars \/ \E t \in Clients : UpstreamLoads(t)
<1>1. Clients \subseteq Task
  BY DEF Task
<1>2. CASE \E t \in Task : Orchestrate(t)
  BY <1>2 DEF Orchestrate, Next
<1>3. CASE (Sweep \/ Box) /\ BreakStreams /\ UNCHANGED reloaded
  BY <1>3 DEF Next
<1>4. ASSUME Quiet, NEW t \in Clients, Reject(t) \/ Accept(t) \/ Answer(t)
      PROVE  [Next]_vars
  <2>1. CASE Reject(t)
    BY <2>1 DEF Reject
  <2>2. CASE Accept(t)
    <3>1. \E m \in Models : EnsureReady(t, m) \/ UnloadModel(t, m)
      BY <2>2 DEF Accept
    <3> QED BY <1>4, <3>1 DEF Quiet, Arrive, Next
  <2>3. CASE Answer(t)
    <3>1. Respond(t)
      BY <2>3 DEF Answer
    <3> QED BY <1>1, <1>4, <3>1 DEF Quiet, Advance, Next
  <2> QED BY <1>4, <2>1, <2>2, <2>3
<1>5. ASSUME NEW t \in Clients, Upstream(t) \/ UpstreamFails(t) \/ EndStream(t) \/ Done(t)
      PROVE  UNCHANGED vars
  BY <1>5 DEF Upstream, UpstreamFails, EndStream, Done
<1>6. CASE UNCHANGED gatewayVars
  BY <1>6 DEF gatewayVars
<1> QED BY <1>2, <1>3, <1>4, <1>5, <1>6 DEF GatewayNext

\* Where a proxied request may be, and where its call is meanwhile.
Places == {"free", "called", "send", "stream", "replied"}

Request == [ route : Routes \cup {"none"}, at : Places,
             model : Models \cup {None}, status : Nat ]

\* A request has a call of the orchestrator under way until that is answered, and
\* not afterwards.
InCall ==
  /\ http \in [Clients -> Request]
  /\ \A t \in Clients : /\ http[t].at = "called" <=> pc[t] # "idle"
                        /\ http[t].at \in {"called", "send", "stream"} => http[t].model \in Models

LEMMA InCallInit == GatewayInit => InCall
<1> SUFFICES ASSUME GatewayInit PROVE InCall
  OBVIOUS
<1>1. NoRequest \in Request /\ NoRequest.at = "free"
  BY DEF NoRequest, Request, Places
<1>2. http = [t \in Clients |-> NoRequest]
  BY DEF GatewayInit
<1>3. \A t \in Clients : pc[t] = "idle"
  BY OrchestratorAssumption DEF GatewayInit, Init, FreshPc, Task
<1> QED BY <1>1, <1>2, <1>3 DEF InCall

\* A request that is replied to, or whose stream breaks, keeps its type.
LEMMA RepliedType ==
  ASSUME NEW r \in Request, NEW s \in Nat
  PROVE  Replied(r, s) \in Request /\ Replied(r, s).at = "replied"
BY DEF Replied, Request, Places

LEMMA BrokenStreams ==
  ASSUME http \in [Clients -> Request], BreakStreams
  PROVE  /\ http' \in [Clients -> Request]
         /\ \A t \in Clients : /\ http'[t].at = "called" <=> http[t].at = "called"
                               /\ http'[t].at \in {"called", "send", "stream"} => http'[t] = http[t]
<1>1. Broken \in Nat
  BY DEF Broken
<1>2. \A t \in Clients : http[t] \in Request
  OBVIOUS
<1>3. \A t \in Clients : http'[t] \in {http[t], Replied(http[t], Broken)}
                         /\ (http'[t] # http[t] => http[t].at = "stream")
  BY DEF BreakStreams
<1>4. \A t \in Clients : http'[t] \in Request
  BY <1>1, <1>2, <1>3, RepliedType
<1>5. http' \in [Clients -> Request]
  BY <1>4 DEF BreakStreams
<1>6. \A t \in Clients : http'[t] # http[t] => http'[t].at = "replied"
  BY <1>1, <1>2, <1>3, RepliedType
<1> QED BY <1>3, <1>5, <1>6

\* Nothing but the answer to a call ends it.
LEMMA StaysInCall ==
  ASSUME TypeOK, NEW t \in Task, Advance(t), pc[t] \notin Answers
  PROVE  pc'[t] # "idle"
<1>1. pc \in [Task -> Points]
  BY DEF TypeOK
<1>2. CASE FastYes(t) \/ FastHit(t) \/ FastMiss(t) \/ FastError(t) \/ Respond(t)
  BY <1>1, <1>2 DEF FastYes, FastHit, FastMiss, FastError, Respond, GoTo, Enqueue
<1>3. CASE RecheckYes(t) \/ RecheckError(t) \/ EvictFails(t) \/ Refuse(t) \/ LoadFails(t)
           \/ LoadAnswerLost(t) \/ LoadReturns(t) \/ ProbeFails(t) \/ UnloadFails(t)
  BY <1>1, <1>3 DEF RecheckYes, RecheckError, EvictFails, Refuse, LoadFails,
       LoadAnswerLost, LoadReturns, ProbeFails, UnloadFails, Leave, GoTo
<1>4. CASE CheckNo(t) \/ CheckYes(t) \/ Unload(t)
  BY <1>1, <1>4 DEF CheckNo, CheckYes, Unload, Unloaded, GoTo
<1>5. CASE Measure(t) \/ EvictMeasure(t) \/ \E e \in Engines : AskReserve(t, e)
  BY <1>1, <1>5 DEF Measure, EvictMeasure, AskReserve, Budgeted, GoTo
<1>6. CASE Decide(t) \/ EvictNext(t) \/ EvictDone(t) \/ VictimGone(t) \/ VictimUp(t)
           \/ EvictUnload(t)
  BY <1>1, <1>6 DEF Decide, EvictNext, EvictDone, VictimGone, VictimUp, EvictUnload, GoTo
<1>7. CASE AdmitLoad(t) \/ AdmitRoom(t) \/ AdmitRefuse(t) \/ RoomMade(t) \/ StopOccupant(t)
           \/ EngineLoads(t)
  BY <1>1, <1>7 DEF AdmitLoad, AdmitRoom, AdmitRefuse, RoomMade, StopOccupant, EngineLoads,
       GoTo
<1> QED BY <1>2, <1>3, <1>4, <1>5, <1>6, <1>7 DEF Advance

\* A step of the orchestrator takes no client out of a call, or into one.
LEMMA CallsGoOn ==
  ASSUME TypeOK, NEW t \in Clients,
         \/ \E u \in Task : Advance(u) /\ (u \in Clients => pc[u] \notin Answers)
         \/ Sweep \/ Box
  PROVE  pc[t] # "idle" <=> pc'[t] # "idle"
<1>1. t \in Task /\ t # Sweeper
  BY OrchestratorAssumption DEF Task
<1>2. ASSUME NEW u \in Task, Advance(u), u \in Clients => pc[u] \notin Answers
      PROVE  pc[t] # "idle" <=> pc'[t] # "idle"
  <2>1. CASE u # t
    BY <1>1, <1>2, <2>1, OnlyOwnMove
  <2>2. CASE u = t
    BY <1>2, <2>2, StaysInCall, MovesAreCalls, <1>1
  <2> QED BY <2>1, <2>2
<1>3. CASE Sweep
  BY <1>1, <1>3, SweepHarmless
<1>4. CASE Box
  BY <1>4 DEF Box, Tick, OobMoves, EngineDrops, DirectLoad
<1> QED BY <1>2, <1>3, <1>4

LEMMA InCallStep ==
  ASSUME TypeOK, InCall, [GatewayNext]_gatewayVars
  PROVE  InCall'
<1> USE DEF InCall
<1>1. /\ Clients \subseteq Task /\ pc \in [Task -> Points]
      /\ \A t \in Clients : http[t] \in Request
  BY DEF TypeOK, Task
<1>2. ASSUME BreakStreams, \A t \in Clients : pc[t] # "idle" <=> pc'[t] # "idle"
      PROVE  InCall'
  BY <1>2, BrokenStreams
<1>3. ASSUME NEW t \in Clients, NEW r \in Request, http' = [http EXCEPT ![t] = r],
             \A u \in Clients \ {t} : pc'[u] = pc[u],
             r.at = "called" <=> pc'[t] # "idle",
             r.at \in {"called", "send", "stream"} => r.model \in Models
      PROVE  InCall'
  BY <1>3
<1>4. CASE \E t \in Task : Orchestrate(t)
  <2>1. \A t \in Clients : pc[t] # "idle" <=> pc'[t] # "idle"
    BY <1>4, CallsGoOn DEF Orchestrate
  <2> QED BY <1>2, <1>4, <2>1 DEF Orchestrate
<1>5. CASE (Sweep \/ Box) /\ BreakStreams /\ UNCHANGED reloaded
  BY <1>2, <1>5, CallsGoOn
<1>6. ASSUME NEW t \in Clients, Reject(t) PROVE InCall'
  <2>1. PICK route \in Routes, status \in {400, 404, 500} :
          http' = [http EXCEPT ![t] = Replied([http[t] EXCEPT !.route = route], status)]
    BY <1>6 DEF Reject
  <2>2. [http[t] EXCEPT !.route = route] \in Request
    BY <1>1 DEF Request
  <2>3. /\ Replied([http[t] EXCEPT !.route = route], status) \in Request
        /\ Replied([http[t] EXCEPT !.route = route], status).at = "replied"
    BY <2>2, RepliedType
  <2> QED BY <1>3, <1>6, <2>1, <2>3 DEF Reject, vars
<1>7. ASSUME NEW t \in Clients, Accept(t) PROVE InCall'
  <2>1. PICK route \in Routes, m \in Models :
          /\ EnsureReady(t, m) \/ UnloadModel(t, m)
          /\ http' = [http EXCEPT ![t] =
                        [http[t] EXCEPT !.route = route, !.at = "called", !.model = m]]
    BY <1>7 DEF Accept
  <2> DEFINE r == [http[t] EXCEPT !.route = route, !.at = "called", !.model = m]
  <2>2. r \in Request /\ r.at = "called" /\ r.model = m
    BY <1>1 DEF Request, Places
  <2>3. pc'[t] # "idle" /\ \A u \in Clients \ {t} : pc'[u] = pc[u]
    BY <1>1, <2>1 DEF EnsureReady, UnloadModel, Enqueue, GoTo
  <2> QED BY <1>3, <2>1, <2>2, <2>3
<1>8. ASSUME NEW t \in Clients, Answer(t) PROVE InCall'
  <2>1. PICK r : /\ http' = [http EXCEPT ![t] = r]
                 /\ \/ r = [http[t] EXCEPT !.at = "send"]
                    \/ r = Replied(http[t], StatusOf(pc[t]))
    BY <1>8 DEF Answer
  <2>2. StatusOf(pc[t]) \in Nat
    BY DEF StatusOf
  <2>3. [http[t] EXCEPT !.at = "send"] \in Request
    BY <1>1 DEF Request, Places
  <2>4. r \in Request /\ r.at \in {"send", "replied"} /\ (r.at = "send" => r.model = http[t].model)
    BY <1>1, <2>1, <2>2, <2>3, RepliedType DEF Request
  <2>5. http[t].model \in Models
    BY <1>8 DEF Answer
  <2>6. pc'[t] = "idle" /\ \A u \in Clients \ {t} : pc'[u] = pc[u]
    BY <1>1, <1>8 DEF Answer, Respond, GoTo
  <2> QED BY <1>3, <2>1, <2>4, <2>5, <2>6
<1>9. ASSUME NEW t \in Clients,
             Upstream(t) \/ UpstreamLoads(t) \/ UpstreamFails(t) \/ EndStream(t) \/ Done(t)
      PROVE  InCall'
  <2>1. /\ pc' = pc /\ http[t].at \notin {"called"}
        /\ http[t].at = "send" => http[t].model \in Models
    BY <1>9 DEF Upstream, UpstreamLoads, UpstreamFails, EndStream, Done, vars
  <2>2. \/ http' = http
        \/ http[t].at = "send" /\ http' = [http EXCEPT ![t] = [http[t] EXCEPT !.at = "stream"]]
        \/ \E s \in {200, 404, 502, Broken} : http' = [http EXCEPT ![t] = Replied(http[t], s)]
        \/ http' = [http EXCEPT ![t] = NoRequest]
    BY <1>9 DEF Upstream, UpstreamLoads, UpstreamFails, EndStream, Done
  <2>3. CASE http' = http
    BY <2>1, <2>3
  <2>4. CASE http[t].at = "send" /\ http' = [http EXCEPT ![t] = [http[t] EXCEPT !.at = "stream"]]
    <3> DEFINE r == [http[t] EXCEPT !.at = "stream"]
    <3>1. r \in Request /\ r.at = "stream" /\ r.model = http[t].model
      BY <1>1 DEF Request, Places
    <3> QED BY <1>3, <2>1, <2>4, <3>1
  <2>5. ASSUME NEW s \in {200, 404, 502, Broken}, http' = [http EXCEPT ![t] = Replied(http[t], s)]
        PROVE  InCall'
    <3>1. Replied(http[t], s) \in Request /\ Replied(http[t], s).at = "replied"
      BY <1>1, RepliedType DEF Broken
    <3> QED BY <1>3, <2>1, <2>5, <3>1
  <2>6. CASE http' = [http EXCEPT ![t] = NoRequest]
    <3>1. NoRequest \in Request /\ NoRequest.at = "free"
      BY DEF NoRequest, Request, Places
    <3> QED BY <1>3, <2>1, <2>6, <3>1
  <2> QED BY <2>2, <2>3, <2>4, <2>5, <2>6
<1>10. CASE UNCHANGED gatewayVars
  BY <1>10 DEF gatewayVars, vars
<1> QED BY <1>4, <1>5, <1>6, <1>7, <1>8, <1>9, <1>10 DEF GatewayNext

\* What an engine loads for a request fits into what is free, as any load does.
LEMMA UpstreamType ==
  ASSUME TypeOK, Lock, InCall, NEW t \in Clients, UpstreamLoads(t)
  PROVE  TypeOK' /\ Lock'
<1> DEFINE m == http[t].model
<1> DEFINE n == Footprint(m, 0)
<1>1. /\ pc' = pc /\ work' = work /\ mutex' = mutex /\ lastUsed' = lastUsed
      /\ learned' = learned /\ oob' = oob /\ now' = now
      /\ m \notin DOMAIN held /\ ~ IsElastic(m) /\ held' = Put(held, m, n)
  BY DEF UpstreamLoads
<1>2. m \in Models
  BY DEF UpstreamLoads, InCall
<1>3. CardOK /\ WorkOK /\ BooksOK /\ LockTypeOK
  BY TypeParts
<1>4. n \in Nat
  BY <1>2, <1>3, FootprintType
<1>5. n <= FreeNow
  BY <1>1, <1>2, FreeType, OrchestratorAssumption DEF Footprint, LesserOf, TypeOK, FreeNow
<1> HIDE DEF m, n
<1>6. CardOK'
  BY <1>1, <1>2, <1>3, <1>4, <1>5, CardPut
<1>7. WorkOK' /\ BooksOK' /\ LockTypeOK'
  BY <1>1, <1>3 DEF WorkOK, BooksOK, LockTypeOK
<1>8. Lock'
  BY <1>1, <1>7 DEF Lock, LockTypeOK, Queued, HasMutex
<1> QED BY <1>6, <1>7, <1>8 DEF TypeOK, CardOK, WorkOK, BooksOK, LockTypeOK

\* A step of the orchestrator keeps its types and its mutex.
LEMMA TypeAndLock ==
  ASSUME TypeOK, Lock, [Next]_vars
  PROVE  TypeOK' /\ Lock'
<1>1. WorkOK' /\ BooksOK' /\ CardOK' /\ Lock'
  BY TypeStep, LockStep
<1> QED BY <1>1 DEF TypeOK, Lock, LockTypeOK, WorkOK, BooksOK, CardOK

\* Behind the gateway the orchestrator keeps its types, its mutex is consistent,
\* and a client that is not in a call is idle.
GatewayInv == TypeOK /\ Lock /\ InCall

\* A step of the service keeps the invariant of the gateway.
LEMMA GatewayInvStep ==
  ASSUME GatewayInv, [GatewayNext]_gatewayVars
  PROVE  GatewayInv'
<1>1. InCall'
  BY InCallStep DEF GatewayInv
<1>2. TypeOK' /\ Lock'
  BY GatewayRefines, TypeAndLock, UpstreamType DEF GatewayInv
<1> QED BY <1>1, <1>2 DEF GatewayInv

\* A route waits for the orchestrator exactly while its call is under way, and
\* with the gateway in front the orchestrator keeps its types and its mutex.
THEOREM GatewayInvariant == GatewaySpec => []GatewayInv
<1>1. GatewayInit => GatewayInv
  BY InCallInit, TypeInit, LockInit DEF GatewayInit, GatewayInv
<1> QED BY <1>1, GatewayInvStep, PTL DEF GatewaySpec

\* An answer that streams, an engine that never answers and a client that never
\* reads hold up nobody: a request that is being proxied neither has the load mutex
\* nor waits for it, whatever fails and whatever engines load by themselves.
THEOREM ProxiesUnlockedAlways == GatewaySpec => []ProxiesUnlocked
<1>1. GatewayInv => ProxiesUnlocked
  <2> SUFFICES ASSUME GatewayInv, NEW t \in Clients,
                      http[t].at \in {"send", "stream", "replied"}, t \in Range(mutex)
               PROVE  FALSE
    BY DEF ProxiesUnlocked
  <2>1. t \in Task /\ pc[t] = "idle"
    BY DEF GatewayInv, InCall, Task
  <2>2. mutex \in Seq(Task)
    BY DEF GatewayInv, TypeOK
  <2>3. Queued(t)
    BY <2>2 DEF Queued, Range
  <2> QED BY <2>1, <2>3 DEF GatewayInv, Lock, Queueing, AtDoor, Inside
<1> QED BY <1>1, GatewayInvariant, PTL

\* A model leaves the card by an eviction, by an unload, for another model of its
\* elastic engine, or because its engine drops it.
LEMMA WhatRemoves ==
  ASSUME [Next]_vars, "drop" \notin Faults, NEW m \in DOMAIN held, m \notin DOMAIN held'
  PROVE  \E t \in Task : \/ pc[t] = "evictUnload"
                         \/ pc[t] = "unload" /\ work[t].model = m
                         \/ pc[t] = "load" /\ EngineOf[work[t].model] = EngineOf[m]
<1>1. held' # held
  OBVIOUS
<1>2. ASSUME NEW k, NEW v, held' = Put(held, k, v) PROVE FALSE
  BY <1>2 DEF Put, PutAll
<1>3. ASSUME NEW t \in Task, Advance(t)
      PROVE  EvictUnload(t) \/ Unload(t) \/ StopOccupant(t)
  <2>1. ~ (FastYes(t) \/ FastHit(t) \/ FastMiss(t) \/ FastError(t) \/ Respond(t))
    BY <1>1 DEF FastYes, FastHit, FastMiss, FastError, Respond, card
  <2>2. ~ (RecheckYes(t) \/ RecheckError(t) \/ EvictFails(t) \/ Refuse(t) \/ LoadFails(t)
            \/ LoadReturns(t) \/ ProbeFails(t) \/ UnloadFails(t))
    BY <1>1 DEF RecheckYes, RecheckError, EvictFails, Refuse, LoadFails,
         LoadReturns, ProbeFails, UnloadFails, card
  <2>3. ~ (Measure(t) \/ EvictMeasure(t) \/ \E e \in Engines : AskReserve(t, e))
    BY <1>1 DEF Measure, EvictMeasure, AskReserve, card
  <2>4. ~ (Decide(t) \/ EvictNext(t) \/ EvictDone(t) \/ VictimGone(t) \/ VictimUp(t)
            \/ CheckNo(t) \/ CheckYes(t))
    BY <1>1 DEF Decide, EvictNext, EvictDone, VictimGone, VictimUp, CheckNo, CheckYes, card
  <2>5. ~ (AdmitLoad(t) \/ AdmitRoom(t) \/ AdmitRefuse(t) \/ RoomMade(t))
    BY <1>1 DEF AdmitLoad, AdmitRoom, AdmitRefuse, RoomMade, card
  <2>6. ~ (EngineLoads(t) \/ LoadAnswerLost(t))
    BY <1>2 DEF EngineLoads, LoadAnswerLost, Allocate
  <2> QED BY <1>3, <2>1, <2>2, <2>3, <2>4, <2>5, <2>6 DEF Advance
<1>4. ~ Sweep
  BY <1>1 DEF Sweep, StartSweep, SweepNext, EndSweep, Adopt, card
<1>5. ~ Arrive
  BY <1>1 DEF Arrive, EnsureReady, UnloadModel, card
<1>6. ~ Box
  BY <1>1, <1>2 DEF Box, Tick, OobMoves, EngineDrops, DirectLoad, card
<1>7. PICK t \in Task : EvictUnload(t) \/ Unload(t) \/ StopOccupant(t)
  BY <1>1, <1>3, <1>4, <1>5, <1>6 DEF Next, vars
<1>8. CASE EvictUnload(t)
  BY <1>8 DEF EvictUnload
<1>9. CASE Unload(t)
  <2>1. pc[t] = "unload" /\ DOMAIN held' = DOMAIN held \ {work[t].model}
    BY <1>9, WithoutDomain DEF Unload
  <2> QED BY <2>1
<1>10. CASE StopOccupant(t)
  BY <1>10 DEF StopOccupant, Restrict, InEngine
<1> QED BY <1>7, <1>8, <1>9, <1>10

\* Without auto-eviction and the sweep nobody is ever in an eviction pass, and the
\* sweep never begins.
Unprompted ==
  /\ pc[Sweeper] \in {"adopt", "idle"}
  /\ \A t \in Task : pc[t] \notin Evicting

LEMMA UnpromptedStep ==
  ASSUME TypeOK, ~ AutoEvict, Ttl = 0, Unprompted, [Next]_vars
  PROVE  Unprompted'
<1> USE DEF Unprompted
<1>1. /\ Clients \subseteq Task /\ Sweeper \in Task /\ Sweeper \notin Clients
      /\ pc \in [Task -> Points]
  BY OrchestratorAssumption DEF TypeOK, Task
<1>2. ASSUME NEW u \in Task, Advance(u) PROVE Unprompted'
  <2>1. u # Sweeper /\ \A t \in Task \ {u} : pc'[t] = pc[t]
    BY <1>2, OnlyOwnMove, MovesAreCalls
  <2>2. ASSUME pc'[u] \in Evicting PROVE FALSE
    <3>1. Moves(u)
      BY <1>2, <2>2, OwnMoves DEF Evicting, Admitting, Inside
    <3>2. ~ (Asks(u))
      BY <2>2 DEF Asks, Lists, Evicting
    <3>3. ~ (Measures(u) \/ Decides(u))
      BY <2>2 DEF Measures, Decides, Evicting
    <3>4. ~ (Picks(u) \/ Stops(u) \/ Evicts(u) \/ Admits(u) \/ Claims(u) \/ Clears(u))
      BY <2>2 DEF Picks, Stops, Evicts, Admits, Claims, Clears, Evicting
    <3> QED BY <3>1, <3>2, <3>3, <3>4 DEF Moves
  <2> QED BY <1>1, <2>1, <2>2
<1>3. CASE Sweep
  <2>1. PICK e \in Engines : Adopt(e)
    BY <1>3 DEF Sweep, StartSweep, SweepNext, EndSweep
  <2> QED BY <1>1, <2>1 DEF Adopt, GoTo, Evicting
<1>4. CASE Arrive
  BY <1>1, <1>4 DEF Arrive, EnsureReady, UnloadModel, GoTo, Enqueue, Evicting
<1>5. CASE Box \/ UNCHANGED vars
  BY <1>5 DEF Box, Tick, OobMoves, EngineDrops, DirectLoad, vars
<1> QED BY <1>2, <1>3, <1>4, <1>5 DEF Next

\* "Nothing is ever auto-killed": where auto-eviction and the idle sweep are off and
\* the engines keep what they have, a model that a request was admitted to leaves
\* the card only because a client unloads it or asks its engine for another one,
\* whatever fails and however long the answer streams.
THEOREM NothingAutoKilledAlways ==
  ASSUME ~ AutoEvict, Ttl = 0, "drop" \notin Faults
  PROVE  GatewaySpec => NothingAutoKilled
<1>1. GatewayInit => Unprompted
  BY OrchestratorAssumption DEF GatewayInit, Init, FreshPc, Unprompted, Evicting, Task
<1>2. GatewayInv /\ Unprompted /\ [GatewayNext]_gatewayVars => Unprompted'
  BY GatewayRefines, UnpromptedStep DEF GatewayInv, UpstreamLoads, Unprompted
<1>3. ASSUME Unprompted, [GatewayNext]_gatewayVars,
             NEW m \in DOMAIN held, m \notin DOMAIN held'
      PROVE  \E u \in Clients : \/ pc[u] = "unload" /\ work[u].model = m
                                \/ pc[u] = "load" /\ EngineOf[work[u].model] = EngineOf[m]
  <2>1. ASSUME NEW t \in Clients, UpstreamLoads(t) PROVE FALSE
    BY <1>3, <2>1 DEF UpstreamLoads, Put, PutAll
  <2>2. [Next]_vars
    BY <1>3, <2>1, GatewayRefines
  <2>3. PICK u \in Task : \/ pc[u] = "evictUnload"
                          \/ pc[u] = "unload" /\ work[u].model = m
                          \/ pc[u] = "load" /\ EngineOf[work[u].model] = EngineOf[m]
    BY <1>3, <2>2, WhatRemoves
  <2> QED BY <1>3, <2>3 DEF Unprompted, Evicting, Task
<1>4. Unprompted /\ [GatewayNext]_gatewayVars =>
        [\A t \in Clients :
           LET m == http[t].model IN
           (http[t].at \in {"send", "stream"} /\ m \in DOMAIN held /\ m \notin DOMAIN held')
             => \E u \in Clients :
                  \/ pc[u] = "unload" /\ work[u].model = m
                  \/ pc[u] = "load" /\ EngineOf[work[u].model] = EngineOf[m]]_gatewayVars
  BY <1>3
<1> QED BY <1>1, <1>2, <1>4, GatewayInvariant, PTL DEF GatewaySpec, NothingAutoKilled

(***************************************************************************)
(* No call fails for want of memory: the engine can have what it is        *)
(* handed, its rounding included.                                          *)
(***************************************************************************)
LEMMA NothingGranted == Granted(0) = 0
<1>1. 0 \div Grain = 0 /\ 0 % Grain = 0 /\ Grain \in Nat /\ Grain > 0
  BY VramAssumption
<1> QED BY <1>1 DEF Granted

\* Where all of the buffer is wider than half a grain, a share that is handed out
\* of the budget is free.
LEMMA GrantedIsFree ==
  ASSUME NEW a \in Nat, NEW b \in Nat, b <= Budget(a), Grain <= 2 * Buffer
  PROVE  Granted(b) <= a
<1>1. Granted(b) \in Nat /\ 2 * (Granted(b) - b) <= Grain
  BY GrantedType, GrantedRounds
<1>2. CASE Budget(a) = 0
  <2>1. b = 0
    BY <1>2
  <2> QED BY <2>1, NothingGranted
<1>3. CASE Budget(a) # 0
  <2>1. Budget(a) = a - Buffer
    BY <1>3, VramAssumption DEF Budget
  <2> QED BY <1>1, <2>1, VramAssumption
<1> QED BY <1>2, <1>3

\* Without a reserve no engine is asked for the slice, and the budget that a load
\* is handed from is still there.
Backed(t) ==
  /\ pc[t] \notin {"reserve", "evictReserve"}
  /\ pc[t] \in Admitting => work[t].budget <= Budget(FreeNow)

LEMMA BackedMoves ==
  ASSUME TypeOK, TypeOK', Reserve = 0, NEW t \in Task, Moves(t), Backed(t)
  PROVE  Backed(t)'
<1>1. /\ Budget(FreeNow) \in Nat /\ Budget(FreeNow') \in Nat /\ work[t].budget \in Nat
      /\ FreeNow \in Int /\ FreeNow' \in Int /\ work'[t].budget \in Nat
      /\ work[t] \in LocalsType
  BY Figures, FiguresAfter
<1>2. FreeNow <= FreeNow'
  BY MovesEmpty
<1>3. Budget(FreeNow) <= Budget(FreeNow')
  BY <1>1, <1>2, BudgetGrows
<1>4. CASE Measures(t)
  <2>1. work'[t].budget = Budget(FreeNow) /\ pc'[t] \in {"decide", "evict"}
    BY <1>1, <1>4 DEF Measures, LocalsType
  <2> QED BY <1>1, <1>3, <2>1 DEF Backed
<1>5. CASE Asks(t)
  BY <1>5 DEF Asks, Backed
<1>6. CASE \/ Decides(t) \/ Picks(t) \/ Stops(t) \/ Evicts(t)
           \/ Admits(t) \/ Claims(t) \/ Clears(t)
  <2>1. /\ work'[t].budget = work[t].budget
        /\ pc[t] \in Admitting /\ pc'[t] \notin {"reserve", "evictReserve"}
    <3>1. CASE Decides(t) \/ Picks(t) \/ Stops(t)
      BY <1>1, <3>1 DEF Decides, Picks, Stops, LocalsType, Admitting, Inside
    <3>2. CASE Evicts(t) \/ Admits(t) \/ Clears(t)
      BY <3>2 DEF Evicts, Admits, Clears, Admitting, Inside
    <3>3. CASE Claims(t)
      BY <1>1, <3>3 DEF Claims, LocalsType, Admitting, Inside
    <3> QED BY <1>6, <3>1, <3>2, <3>3
  <2> QED BY <1>1, <1>3, <2>1 DEF Backed
<1> QED BY <1>4, <1>5, <1>6 DEF Moves

LEMMA BackedStep ==
  ASSUME TypeOK, TypeOK', Lock, Reserve = 0, Faults \cap {"oob", "direct"} = {},
         [Next]_vars, NEW t \in Task, Backed(t)
  PROVE  Backed(t)'
<1>1. /\ Budget(FreeNow) \in Nat /\ Budget(FreeNow') \in Nat /\ work[t].budget \in Nat
      /\ FreeNow \in Int /\ FreeNow' \in Int
  BY Figures, FiguresAfter
<1>2. ASSUME pc'[t] = pc[t], work'[t] = work[t], FreeNow <= FreeNow' PROVE Backed(t)'
  <2>1. Budget(FreeNow) <= Budget(FreeNow')
    BY <1>1, <1>2, BudgetGrows
  <2> QED BY <1>1, <1>2, <2>1 DEF Backed
<1>3. CASE UNCHANGED vars
  BY <1>1, <1>2, <1>3 DEF vars, card, FreeNow
<1>4. CASE Box
  BY <1>2, <1>4, BoxTakesNothing
<1>5. CASE (\E u \in Task : Advance(u)) \/ Sweep \/ Arrive
  <2>1. CASE pc'[t] \notin Admitting
    BY <2>1 DEF Backed, Admitting, Inside
  <2>2. CASE pc'[t] \in Admitting
    <3>1. CASE Moves(t)
      BY <3>1, BackedMoves
    <3>2. CASE pc'[t] = pc[t] /\ work'[t] = work[t] /\ held' = held /\ oob' = oob
      BY <1>1, <1>2, <3>2 DEF FreeNow
    <3> QED BY <1>5, <2>2, <3>1, <3>2, Underway
  <2> QED BY <2>1, <2>2
<1> QED BY <1>3, <1>4, <1>5 DEF Next

\* A box that may let go of models, and lie for a moment about having them.
Sturdy == Faults \subseteq {"drop", "health", "silent"} /\ Reserve = 0

\* On such a box a call fails only for want of memory.
LEMMA WhatFails ==
  ASSUME TypeOK, Sturdy, NEW t \in Task, Advance(t), pc'[t] \in {"failed", "error"}
  PROVE  /\ pc[t] = "load"
         /\ Footprint(work[t].model, Handed(work[t])) > FreeNow
<1> USE DEF Sturdy
<1>1. pc \in [Task -> Points]
  BY DEF TypeOK
<1>2. \A m : "error" \notin IsReady(m)
  BY DEF IsReady
<1>3. ~ (FastYes(t) \/ FastHit(t) \/ FastMiss(t) \/ FastError(t) \/ Respond(t))
  BY <1>1, <1>2 DEF FastYes, FastHit, FastMiss, FastError, Respond, GoTo, Enqueue
<1>4. ~ (RecheckYes(t) \/ RecheckError(t) \/ EvictFails(t) \/ Refuse(t)
          \/ LoadAnswerLost(t) \/ LoadReturns(t) \/ ProbeFails(t) \/ UnloadFails(t))
  BY <1>1, <1>2 DEF RecheckYes, RecheckError, EvictFails, Refuse,
       LoadAnswerLost, LoadReturns, ProbeFails, UnloadFails, Leave, GoTo
<1>5. ~ (CheckNo(t) \/ CheckYes(t) \/ Unload(t))
  BY <1>1 DEF CheckNo, CheckYes, Unload, Unloaded, GoTo
<1>6. ~ (Measure(t) \/ EvictMeasure(t) \/ \E e \in Engines : AskReserve(t, e))
  BY <1>1 DEF Measure, EvictMeasure, AskReserve, Budgeted, GoTo
<1>7. ~ (Decide(t) \/ EvictNext(t) \/ EvictDone(t) \/ VictimGone(t) \/ VictimUp(t)
          \/ EvictUnload(t))
  BY <1>1 DEF Decide, EvictNext, EvictDone, VictimGone, VictimUp, EvictUnload, GoTo
<1>8. ~ (AdmitLoad(t) \/ AdmitRoom(t) \/ AdmitRefuse(t) \/ RoomMade(t)
          \/ StopOccupant(t) \/ EngineLoads(t))
  BY <1>1 DEF AdmitLoad, AdmitRoom, AdmitRefuse, RoomMade, StopOccupant, EngineLoads, GoTo
<1> QED BY <1>3, <1>4, <1>5, <1>6, <1>7, <1>8 DEF Advance, LoadFails

\* The engine of an admitted load can have what it takes.
LEMMA RoomToLoad ==
  ASSUME TypeOK, Grain <= 2 * Buffer, NEW t \in Task, pc[t] = "load", Backed(t)
  PROVE  Footprint(work[t].model, Handed(work[t])) <= FreeNow
<1> DEFINE h == Handed(work[t])
<1>1. /\ work[t].needed \in Nat /\ work[t].budget \in Nat
      /\ FreeNow \in Nat /\ Budget(FreeNow) \in Nat /\ work[t].model \in Models
  BY Figures DEF TypeOK, Asking, Inside
<1>2. work[t].budget <= Budget(FreeNow)
  BY DEF Backed, Admitting, Inside
<1>3. h \in Nat /\ h <= Budget(FreeNow)
  BY <1>1, <1>2 DEF Handed, LesserOf
<1> HIDE DEF h
<1>4. Granted(h) <= FreeNow
  BY <1>1, <1>3, GrantedIsFree
<1>5. LesserOf(Size[work[t].model], FreeNow) <= FreeNow
  BY <1>1, OrchestratorAssumption DEF LesserOf
<1>6. Footprint(work[t].model, h) <= FreeNow
  BY <1>4, <1>5 DEF Footprint
<1> QED BY <1>6 DEF h

\* No call has failed, and none is about to.
Untroubled == \A t \in Task : Backed(t) /\ pc[t] \notin {"failed", "error"}

LEMMA UntroubledStep ==
  ASSUME TypeOK, TypeOK', Lock, Sturdy, Grain <= 2 * Buffer, [Next]_vars, Untroubled
  PROVE  Untroubled'
<1>1. Faults \cap {"oob", "direct"} = {} /\ Reserve = 0
  BY DEF Sturdy
<1>2. \A t \in Task : Backed(t)'
  BY <1>1, BackedStep DEF Untroubled
<1>3. ASSUME NEW t \in Task, pc'[t] \in {"failed", "error"} PROVE FALSE
  <2>1. pc'[t] # pc[t] /\ pc \in [Task -> Points]
    BY <1>3 DEF Untroubled, TypeOK
  <2>2. ASSUME NEW u \in Task, Advance(u) PROVE FALSE
    <3>1. u = t
      BY <2>1, <2>2, OnlyOwnMove
    <3>2. /\ pc[t] = "load" /\ Footprint(work[t].model, Handed(work[t])) > FreeNow
      BY <1>3, <2>2, <3>1, WhatFails
    <3>3. Footprint(work[t].model, Handed(work[t])) <= FreeNow
      BY <3>2, RoomToLoad DEF Untroubled
    <3>4. Footprint(work[t].model, Handed(work[t])) \in Nat /\ FreeNow \in Int
      <4>1. CardOK /\ work[t].model \in Models /\ Handed(work[t]) \in Nat
        BY <3>2, Figures, TypeParts DEF Handed, LesserOf, TypeOK, Asking, Inside
      <4> QED BY <4>1, FootprintType, Figures
    <3> QED BY <3>2, <3>3, <3>4
  <2>3. ~ Sweep
    BY <1>3, <2>1, SweepHarmless DEF Sweep, StartSweep, SweepNext, EndSweep, Adopt, GoTo, Enqueue
  <2>4. ~ Arrive
    BY <1>3, <2>1, ArriveHarmless
  <2>5. ~ Box /\ ~ UNCHANGED vars
    BY <2>1 DEF Box, Tick, OobMoves, EngineDrops, DirectLoad, vars
  <2> QED BY <2>2, <2>3, <2>4, <2>5 DEF Next
<1> QED BY <1>2, <1>3 DEF Untroubled

\* Where requests do not fail and the probe does not, and the buffer covers half of
\* the smallest share that vLLM can be asked for, no call of the orchestrator fails:
\* a load is refused or it succeeds, and neither an engine that dropped its model
\* nor a health check that lies makes one fail.  The exception is a box on which an
\* engine has loaded a model by itself for a proxied request.
THEOREM NoSpuriousFailureAlways ==
  ASSUME Sturdy, Grain <= 2 * Buffer
  PROVE  GatewaySpec => []NoSpuriousFailure
<1> DEFINE Inv == reloaded = {} => Untroubled
<1>1. GatewayInit => Inv
  BY DEF GatewayInit, Init, FreshPc, Untroubled, Backed, Admitting, Inside, Task
<1>2. GatewayInv /\ GatewayInv' /\ Inv /\ [GatewayNext]_gatewayVars => Inv'
  <2> SUFFICES ASSUME GatewayInv, GatewayInv', Inv, [GatewayNext]_gatewayVars, reloaded' = {}
               PROVE  Untroubled'
    OBVIOUS
  <2>1. ASSUME NEW t \in Clients PROVE ~ UpstreamLoads(t)
    BY DEF UpstreamLoads
  <2>2. [Next]_vars
    BY <2>1, GatewayRefines
  <2>3. reloaded = {}
    BY <2>1 DEF GatewayNext, Orchestrate, Reject, Accept, Answer, Upstream, UpstreamFails, EndStream,
       Done, gatewayVars
  <2> QED BY <2>2, <2>3, UntroubledStep DEF GatewayInv
<1>3. Inv => NoSpuriousFailure
  BY DEF Untroubled, NoSpuriousFailure
<1> HIDE DEF Inv
<1> QED BY <1>1, <1>2, <1>3, GatewayInvariant, PTL DEF GatewaySpec

(***************************************************************************)
(* The lives of the process.                                               *)
(***************************************************************************)
\* Every figure of f is in g, and is no smaller there.
Raised(f, g) == \A m \in DOMAIN f : m \in DOMAIN g /\ f[m] <= g[m]

LEMMA RaisedSame ==
  ASSUME NEW f, IsByteCount(f)
  PROVE  Raised(f, f)
<1>1. PICK D \in SUBSET Models : f \in [D -> Nat]
  BY DEF IsByteCount
<1> QED BY <1>1 DEF Raised

LEMMA RaisedTwice ==
  ASSUME NEW f, NEW g, NEW h, IsByteCount(f), IsByteCount(g), IsByteCount(h),
         Raised(f, g), Raised(g, h)
  PROVE  Raised(f, h)
<1>1. PICK D \in SUBSET Models : f \in [D -> Nat]
  BY DEF IsByteCount
<1>2. PICK E \in SUBSET Models : g \in [E -> Nat]
  BY DEF IsByteCount
<1>3. PICK F \in SUBSET Models : h \in [F -> Nat]
  BY DEF IsByteCount
<1> QED BY <1>1, <1>2, <1>3 DEF Raised

\* The store keeps the peak.
LEMMA ObserveRaises ==
  ASSUME IsByteCount(learned), NEW m \in Models, NEW n \in Int, Observe(m, n)
  PROVE  IsByteCount(learned') /\ Raised(learned, learned')
<1>1. PICK D \in SUBSET Models : learned \in [D -> Nat]
  BY DEF IsByteCount
<1>2. CASE learned' = learned
  BY <1>2, RaisedSame
<1>3. CASE learned' # learned
  <2>1. /\ n \in Nat /\ learned' = Put(learned, m, n)
        /\ m \in D => learned[m] < n
    BY <1>1, <1>3 DEF Observe
  <2>2. /\ \A k \in D : k \in DOMAIN learned'
        /\ \A k \in D : learned'[k] = IF k = m THEN n ELSE learned[k]
    BY <1>1, <2>1 DEF Put, PutAll
  <2>3. Raised(learned, learned')
    BY <1>1, <2>1, <2>2 DEF Raised
  <2> QED BY <2>1, <2>3, ByteCountPut
<1> QED BY <1>2, <1>3

\* What is measured for a load is a number.
LEMMA MeasuredType ==
  ASSUME TypeOK, NEW t \in Task, pc[t] = "loaded"
  PROVE  work[t].model \in Models /\ work[t].free - FreeNow \in Int
BY Figures DEF TypeOK, Asking, Inside

\* So a figure that is learned is never lowered.
LEMMA LearnedRises ==
  ASSUME TypeOK, [Next]_vars
  PROVE  Raised(learned, learned')
<1>1. IsByteCount(learned)
  BY DEF TypeOK
<1>2. CASE learned' = learned
  BY <1>1, <1>2, RaisedSame
<1>3. ASSUME NEW t \in Task, LoadReturns(t), learned' # learned
      PROVE  Raised(learned, learned')
  <2>1. pc[t] = "loaded" /\ Observe(work[t].model, work[t].free - FreeNow)
    BY <1>3 DEF LoadReturns
  <2> QED BY <1>1, <2>1, MeasuredType, ObserveRaises
<1> QED BY <1>2, <1>3, LearnsOnReturn

\* What is in hand covers what is on disk, in a life that could read it.
OnDisk == IsByteCount(file) /\ misread \in BOOLEAN /\ (misread \/ Raised(file, learned))

LifeInv == TypeOK /\ Lock /\ OnDisk

\* A write that fails ends the call and keeps the figure in hand.
LEMMA UnsavedKeeps ==
  ASSUME TypeOK, Lock, NEW t \in Clients, LoadUnsaved(t)
  PROVE  /\ TypeOK' /\ Lock' /\ Raised(learned, learned')
         /\ file' = file /\ held' = held /\ lastUsed' = lastUsed
         /\ pc[t] = "loaded" /\ pc' = [pc EXCEPT ![t] = "error"]
         /\ \A u \in Task \ {t} : work'[u] = work[u]
<1>1. /\ t \in Task /\ pc[t] = "loaded"
      /\ Observe(work[t].model, work[t].free - FreeNow) /\ Leave(t, "error")
      /\ UNCHANGED <<lastUsed, card, now, file>>
  BY DEF LoadUnsaved, Task
<1>2. WorkOK /\ BooksOK /\ CardOK /\ LockTypeOK
  BY TypeParts
<1>3. IsByteCount(learned') /\ Raised(learned, learned')
  BY <1>1, <1>2, MeasuredType, ObserveRaises DEF BooksOK
<1>4. Lock'
  <2>1. HasMutex(t)
    BY <1>1 DEF Lock, Inside
  <2> QED BY <1>1, <2>1, LockLeave DEF Leave, Points, Queueing, AtDoor, Inside, Answers
<1>5. WorkOK'
  BY <1>1, <1>2, WorkLeave DEF Asking, AtDoor, Inside
<1>6. BooksOK' /\ CardOK'
  BY <1>1, <1>2, <1>3, CardSame DEF BooksOK, card
<1>7. pc' = [pc EXCEPT ![t] = "error"] /\ \A u \in Task \ {t} : work'[u] = work[u]
  BY <1>1, <1>2 DEF Leave, GoTo, WorkOK
<1> QED BY <1>1, <1>3, <1>4, <1>5, <1>6, <1>7
        DEF TypeOK, Lock, LockTypeOK, WorkOK, BooksOK, CardOK, card

\* A process that has just started.
LEMMA Fresh ==
  /\ FreshPc \in [Task -> Points] /\ FreshWork \in [Task -> LocalsType]
  /\ \A t \in Task : FreshPc[t] \in {"idle", "adopt"}
  /\ FreshPc[Sweeper] = "adopt" /\ FreshWork[Sweeper].ask = Engines
  /\ <<>> \in Seq(Task) /\ Len(<<>>) = 0
<1>1. \A t \in Task : FreshPc[t] \in {"idle", "adopt"}
  BY DEF FreshPc
<1>2. FreshPc \in [Task -> Points]
  BY DEF FreshPc, Points
<1>3. \A t \in Task : [Locals(None) EXCEPT !.ask = IF t = Sweeper THEN Engines ELSE {}]
                        \in LocalsType
  BY LocalsTyped DEF LocalsType
<1>4. FreshWork \in [Task -> LocalsType]
  BY <1>3 DEF FreshWork
<1>5. FreshPc[Sweeper] = "adopt" /\ FreshWork[Sweeper].ask = Engines
  BY DEF FreshPc, FreshWork, Task, Locals
<1> QED BY <1>1, <1>2, <1>4, <1>5

\* What an engine was loading when the process ended leaves a count of bytes.
LEMMA LeftBehindType ==
  ASSUME TypeOK, NEW h \in LeftBehind
  PROVE  IsByteCount(h)
<1>1. CardOK
  BY TypeParts
<1>2. CASE h = held
  BY <1>2 DEF TypeOK
<1>3. CASE h # held
  <2>1. PICK t \in Task :
          /\ pc[t] = "load"
          /\ h = Put(held, work[t].model, Footprint(work[t].model, Handed(work[t])))
    BY <1>3 DEF LeftBehind
  <2>2. work[t].model \in Models /\ Handed(work[t]) \in Nat
    BY <2>1, Figures DEF Handed, LesserOf, TypeOK, Asking, Inside
  <2>3. Footprint(work[t].model, Handed(work[t])) \in Nat
    BY <1>1, <2>2, FootprintType
  <2> QED BY <1>1, <2>1, <2>2, <2>3, ByteCountPut DEF CardOK
<1> QED BY <1>2, <1>3

\* What survives is what the engines that are not coload's own are left with, and the
\* card is not over-full with what the others still hold.
LEMMA SurvivesType ==
  ASSUME NEW after, IsByteCount(after), Survives(after)
  PROVE  /\ IsByteCount(held') /\ DOMAIN held' \subseteq DOMAIN after
         /\ oob' \in OobLevels /\ Free(held', oob') >= 0
<1>1. PICK D \in SUBSET Models : after \in [D -> Nat]
  BY DEF IsByteCount
<1> DEFINE own == {m \in DOMAIN after : EngineOf[m] \in owned}
<1>2. /\ held' = [m \in D \ own |-> after[m]]
      /\ oob' \in OobLevels /\ Free(held', oob') >= 0
  BY <1>1 DEF Survives, Restrict
<1>3. held' \in [D \ own -> Nat] /\ D \ own \in SUBSET Models
  BY <1>1, <1>2
<1> QED BY <1>1, <1>2, <1>3 DEF IsByteCount

LEMMA CrashKeeps ==
  ASSUME TypeOK, OnDisk, Crash
  PROVE  TypeOK' /\ Lock' /\ OnDisk' /\ file' = file
<1>1. /\ pc' = FreshPc /\ work' = FreshWork /\ mutex' = <<>>
      /\ lastUsed' = Empty /\ file' = file /\ now' = now
      /\ \/ learned' = file /\ misread' = FALSE
         \/ learned' = Empty /\ misread' = TRUE
  BY DEF Crash, Read
<1>2. /\ IsByteCount(held') /\ oob' \in OobLevels /\ Free(held', oob') >= 0
  BY LeftBehindType, SurvivesType DEF Crash
<1>3. LockTypeOK'
  BY <1>1, Fresh DEF LockTypeOK
<1>4. Lock'
  BY <1>1, <1>3, Fresh DEF Lock, Queued, Queueing, AtDoor, Inside
<1>5. WorkOK'
  BY <1>1, Fresh DEF WorkOK, Asking, AtDoor, Inside
<1>6. BooksOK'
  BY <1>1, EmptyIsStamps, EmptyIsByteCount DEF BooksOK, TypeOK, OnDisk
<1>7. CardOK'
  BY <1>2 DEF CardOK, FreeNow
<1>8. OnDisk'
  BY <1>1, RaisedSame DEF OnDisk
<1> QED BY <1>1, <1>3, <1>4, <1>5, <1>6, <1>7, <1>8
        DEF TypeOK, LockTypeOK, WorkOK, BooksOK, CardOK

\* A step of the orchestrator and the save that goes with it.
LEMMA SaveKeeps ==
  ASSUME TypeOK, OnDisk, [Next]_vars, TypeOK', \/ Save \/ file' = file, misread' = misread
  PROVE  OnDisk' /\ (misread \/ Raised(file, file'))
<1>1. IsByteCount(learned) /\ IsByteCount(learned') /\ IsByteCount(file)
  BY DEF TypeOK, OnDisk
<1>2. misread \/ Raised(file, learned')
  BY <1>1, LearnedRises, RaisedTwice DEF OnDisk
<1>3. file' \in {file, learned'}
  BY DEF Save
<1> QED BY <1>1, <1>2, <1>3, RaisedSame DEF OnDisk

\* What a previous life left is a count of bytes.
LEMMA LeftoverType ==
  ASSUME NEW h \in Leftover
  PROVE  IsByteCount(h)
<1>1. PICK S \in SUBSET Models :
        h = [m \in S |-> IF IsElastic(m) THEN Granted(Seed[m]) ELSE Size[m]]
  BY DEF Leftover
<1>2. h \in [S -> Nat]
  BY <1>1, OrchestratorAssumption, GrantedType
<1> QED BY <1>2 DEF IsByteCount

\* A first life has in hand what it has read from the file, if it could.
LEMMA LifeInvInit == LifeInit => LifeInv
<1> SUFFICES ASSUME LifeInit PROVE LifeInv
  OBVIOUS
<1>1. /\ pc = FreshPc /\ work = FreshWork /\ mutex = <<>> /\ lastUsed = Empty
      /\ held \in Leftover /\ oob \in OobLevels /\ FreeNow >= 0 /\ now = 0
      /\ IsByteCount(file)
      /\ \/ learned = file /\ misread = FALSE
         \/ learned = Empty /\ misread = TRUE
  BY LifeAssumption DEF LifeInit, Found
<1>2. LockTypeOK
  BY <1>1, Fresh DEF LockTypeOK
<1>3. Lock
  BY <1>1, <1>2, Fresh DEF Lock, Queued, Queueing, AtDoor, Inside
<1>4. WorkOK
  BY <1>1, Fresh DEF WorkOK, Asking, AtDoor, Inside
<1>5. BooksOK
  BY <1>1, EmptyIsStamps, EmptyIsByteCount, OrchestratorAssumption DEF BooksOK
<1>6. CardOK
  BY <1>1, LeftoverType DEF CardOK
<1>7. OnDisk
  BY <1>1, RaisedSame DEF OnDisk
<1> QED BY <1>2, <1>3, <1>4, <1>5, <1>6, <1>7, TypeParts DEF LifeInv

\* What a step is, within a life and between two.
LEMMA LifeSteps ==
  ASSUME [LifeNext]_lifeVars
  PROVE  \/ Next /\ Save /\ Orphan /\ misread' = misread
         \/ \E t \in Clients : LoadUnsaved(t) /\ Orphan /\ misread' = misread
         \/ Crash
         \/ UNCHANGED lifeVars
BY DEF LifeNext

LEMMA LifeStep ==
  ASSUME LifeInv, [LifeNext]_lifeVars
  PROVE  LifeInv' /\ (misread \/ Raised(file, file'))
<1> USE DEF LifeInv
<1>1. IsByteCount(file)
  BY DEF OnDisk
<1>2. CASE Next /\ Save /\ Orphan /\ misread' = misread
  BY <1>2, TypeAndLock, SaveKeeps
<1>3. ASSUME NEW t \in Clients, LoadUnsaved(t), misread' = misread
      PROVE  LifeInv' /\ (misread \/ Raised(file, file'))
  <2>1. /\ TypeOK' /\ Lock' /\ Raised(learned, learned') /\ file' = file
    BY <1>3, UnsavedKeeps
  <2>2. misread \/ Raised(file, learned')
    BY <2>1, RaisedTwice DEF OnDisk, TypeOK
  <2> QED BY <1>1, <1>3, <2>1, <2>2, RaisedSame DEF OnDisk
<1>4. CASE Crash
  BY <1>1, <1>4, CrashKeeps, RaisedSame
<1>5. CASE UNCHANGED lifeVars
  <2>1. [Next]_vars /\ file' = file /\ misread' = misread
    BY <1>5 DEF lifeVars
  <2> QED BY <2>1, TypeAndLock, SaveKeeps
<1> QED BY <1>2, <1>3, <1>4, <1>5, LifeSteps

\* Whatever crashes and restarts, types and mutex hold, and in a life that could read
\* the file no figure on disk is above the one in hand, so that the next write can
\* only raise it.
THEOREM LifeInvariant == LifeSpec => []LifeInv
BY LifeInvInit, LifeStep, PTL DEF LifeSpec

\* The file keeps the peak: whatever is measured, and through crashes and writes
\* that fail, no figure on disk is ever lowered or lost by a life that has read the
\* file.  A life that could not read it takes it for empty, and writes over it.
THEOREM PeaksOnDiskAlwaysGrow == LifeSpec => PeaksOnDiskGrow
<1> DEFINE Kept == misread \/ \A m \in DOMAIN file : m \in DOMAIN file' /\ file'[m] >= file[m]
<1>1. LifeInv /\ [LifeNext]_lifeVars => [Kept]_lifeVars
  <2> SUFFICES ASSUME LifeInv, [LifeNext]_lifeVars, ~ misread, NEW m \in DOMAIN file
               PROVE  m \in DOMAIN file' /\ file'[m] >= file[m]
    OBVIOUS
  <2>1. Raised(file, file') /\ IsByteCount(file) /\ IsByteCount(file')
    BY LifeStep DEF LifeInv, OnDisk
  <2>2. PICK D \in SUBSET Models : file \in [D -> Nat]
    BY <2>1 DEF IsByteCount
  <2>3. PICK E \in SUBSET Models : file' \in [E -> Nat]
    BY <2>1 DEF IsByteCount
  <2> QED BY <2>1, <2>2, <2>3 DEF Raised
<1> HIDE DEF LifeInv
<1>2. LifeSpec => [][Kept]_lifeVars
  BY <1>1, LifeInvariant, PTL DEF LifeSpec
<1> QED BY <1>2 DEF PeaksOnDiskGrow

\* Engines that answer, and answer the truth; they may fail and drop what they have.
Truthful == Faults \cap {"direct", "down", "health", "silent", "lost"} = {}

\* The ways to be accounted for, of a model on the card.  What is configured without
\* its tag is never found by asking.
Traced(m) ==
  \/ m \in DOMAIN lastUsed \cup orphaned
  \/ \E t \in Task : pc[t] = "loaded" /\ work[t].model = m
  \/ /\ pc[Sweeper] = "adopt" /\ EngineOf[m] \in work[Sweeper].ask
     /\ m \notin Untagged

LEMMA TracedStep ==
  ASSUME TypeOK, Truthful, Next, Orphan, NEW m \in DOMAIN held',
         m \in DOMAIN held => Traced(m)
  PROVE  Traced(m)'
<1> USE DEF Truthful, Traced
<1>1. CASE m \in DOMAIN lastUsed'
  BY <1>1
<1>2. CASE m \notin DOMAIN held
  BY <1>2, ResidentsAreLoaded
<1>3. CASE m \in DOMAIN held /\ m \in DOMAIN lastUsed
  BY <1>3, ForgetsOnlyGone
<1>4. CASE m \in orphaned /\ m \notin DOMAIN lastUsed'
  BY <1>4 DEF Orphan
<1>5. ASSUME NEW t \in Task, pc[t] = "loaded", work[t].model = m, m \notin DOMAIN lastUsed'
      PROVE  Traced(m)'
  <2>1. CASE pc'[t] = "error"
    BY <1>5, <2>1 DEF Orphan
  <2>2. CASE pc'[t] # "error"
    BY <1>5, <2>2, LoadedIsTracked
  <2> QED BY <2>1, <2>2
<1>6. CASE /\ m \in DOMAIN held \ Untagged
           /\ pc[Sweeper] = "adopt" /\ EngineOf[m] \in work[Sweeper].ask
  BY <1>6, StillToAdopt
<1> QED BY <1>1, <1>2, <1>3, <1>4, <1>5, <1>6

\* A call whose write fails leaves its model behind as an orphan, and no other.
LEMMA TracedUnsaved ==
  ASSUME TypeOK, Lock, NEW t \in Clients, LoadUnsaved(t), Orphan,
         NEW m \in DOMAIN held, Traced(m)
  PROVE  Traced(m)'
<1> USE DEF Traced
<1>1. /\ lastUsed' = lastUsed /\ pc[t] = "loaded" /\ pc' = [pc EXCEPT ![t] = "error"]
      /\ \A u \in Task \ {t} : work'[u] = work[u]
      /\ held' = held
  BY UnsavedKeeps
<1>2. t \in Task /\ Sweeper \in Task /\ pc \in [Task -> Points] /\ t # Sweeper
  BY OrchestratorAssumption DEF Task, TypeOK
<1>3. m \in DOMAIN lastUsed' \/ m \notin orphaned \cup {work[t].model} \/ m \in orphaned'
  BY <1>1, <1>2 DEF Orphan
<1> QED BY <1>1, <1>2, <1>3

\* A restart has every engine to ask, and knows of the untagged ones that it will miss.
LEMMA TracedAtStart ==
  ASSUME pc = FreshPc, work = FreshWork, IsByteCount(held), NEW m \in DOMAIN held,
         orphaned = DOMAIN held \cap Untagged
  PROVE  Traced(m)
<1>1. m \in Models
  BY DEF IsByteCount
<1> QED BY <1>1, Fresh, OrchestratorAssumption DEF Traced

LEMMA TracedAfterCrash ==
  ASSUME TypeOK', Crash, NEW m \in DOMAIN held'
  PROVE  Traced(m)'
<1>1. m \in Models
  BY DEF TypeOK, IsByteCount
<1>2. pc' = FreshPc /\ work' = FreshWork /\ orphaned' = DOMAIN held' \cap Untagged
  BY DEF Crash
<1> QED BY <1>1, <1>2, Fresh, OrchestratorAssumption DEF Traced

\* What the invariant says of a model is that it is traced.
LEMMA TracedIsReclaimed == (\A m \in DOMAIN held : Traced(m)) => OrphansReclaimed
BY DEF OrphansReclaimed, Traced

\* What a life loses with an engine that can be asked, by an error between its answer
\* and the touch, the next one finds: a model that nothing tracks was orphaned in this
\* very life, or was there at its start under a name without its tag, however many
\* lives there were and whatever an engine was loading at their end.  What a vLLM
\* engine of coload's own keeps after a restart is not looked for.
THEOREM OrphansReclaimedAlways ==
  ASSUME Truthful
  PROVE  LifeSpec => []OrphansReclaimed
<1> DEFINE Inv == \A m \in DOMAIN held : Traced(m)
<1>1. LifeInit => Inv
  <2> SUFFICES ASSUME LifeInit, NEW m \in DOMAIN held PROVE Traced(m)
    OBVIOUS
  <2>1. pc = FreshPc /\ work = FreshWork /\ IsByteCount(held)
    BY LeftoverType DEF LifeInit, Found
  <2> QED BY <2>1, TracedAtStart DEF LifeInit
<1>2. LifeInv /\ LifeInv' /\ Inv /\ [LifeNext]_lifeVars => Inv'
  <2> SUFFICES ASSUME LifeInv, LifeInv', Inv, [LifeNext]_lifeVars, NEW m \in DOMAIN held'
               PROVE  Traced(m)'
    OBVIOUS
  <2>1. m \in DOMAIN held => Traced(m)
    OBVIOUS
  <2>2. CASE Next /\ Save /\ Orphan
    BY <2>1, <2>2, TracedStep DEF LifeInv
  <2>3. ASSUME NEW t \in Clients, LoadUnsaved(t), Orphan PROVE Traced(m)'
    <3>1. held' = held
      BY <2>3, UnsavedKeeps DEF LifeInv
    <3> QED BY <2>1, <2>3, <3>1, TracedUnsaved DEF LifeInv
  <2>4. CASE Crash
    BY <2>4, TracedAfterCrash DEF LifeInv
  <2>5. CASE UNCHANGED lifeVars
    BY <2>1, <2>5 DEF lifeVars, vars, card, Traced
  <2> QED BY <2>2, <2>3, <2>4, <2>5, LifeSteps
<1> HIDE DEF Inv
<1>3. Inv => OrphansReclaimed
  BY TracedIsReclaimed DEF Inv
<1> QED BY <1>1, <1>2, <1>3, LifeInvariant, PTL DEF LifeSpec

(***************************************************************************)
(* What is measured and admitted within a life is not spoiled by the end   *)
(* of another one, nor by estimates that come from the file.               *)
(***************************************************************************)
\* When a process starts, and when a write fails, no load is under way.
LEMMA NobodyUnderway ==
  ASSUME TypeOK, Lock, NEW u \in Task, Crash \/ \E t \in Clients : LoadUnsaved(t)
  PROVE  pc'[u] \notin Admitting
<1>1. CASE Crash
  BY <1>1, Fresh DEF Crash, Admitting, Inside
<1>2. ASSUME NEW t \in Clients, LoadUnsaved(t) PROVE pc'[u] \notin Admitting
  <2>1. t \in Task /\ pc[t] = "loaded" /\ pc' = [pc EXCEPT ![t] = "error"]
    BY <1>2, UnsavedKeeps DEF Task
  <2>2. u # t => pc[u] \notin Inside
    BY <2>1, Exclusive DEF Inside
  <2> QED BY <2>1, <2>2 DEF TypeOK, Admitting, Inside
<1> QED BY <1>1, <1>2

LEMMA NobodyAtStart == LifeInit => \A u \in Task : pc[u] \notin Admitting
BY Fresh DEF LifeInit, Admitting, Inside

\* Through restarts and writes that fail, the figure that a load was admitted by is
\* still true when its engine starts, where only coload adds to the card.
THEOREM FreeFigureInEveryLife ==
  ASSUME "oob" \notin Faults, "direct" \notin Faults
  PROVE  LifeSpec => []FreeFigureHolds
<1>1. LifeInit => FiguresSound
  BY NobodyAtStart DEF FiguresSound
<1>2. LifeInv /\ LifeInv' /\ FiguresSound /\ [LifeNext]_lifeVars => FiguresSound'
  <2> SUFFICES ASSUME LifeInv, LifeInv', FiguresSound, [LifeNext]_lifeVars
               PROVE  FiguresSound'
    OBVIOUS
  <2>1. CASE [Next]_vars
    BY <2>1, SoundStep DEF LifeInv
  <2>2. CASE Crash \/ \E t \in Clients : LoadUnsaved(t)
    BY <2>2, NobodyUnderway DEF LifeInv, FiguresSound
  <2> QED BY <2>1, <2>2, LifeSteps DEF lifeVars
<1>3. LifeInv /\ FiguresSound => FreeFigureHolds
  BY SoundHolds DEF LifeInv
<1> QED BY <1>1, <1>2, <1>3, LifeInvariant, PTL DEF LifeSpec

\* And the reserve is not overdrawn, by whatever estimates an earlier life learned, or
\* this one failed to read: a load is admitted within what is measured, or within the
\* reserve together with the estimates of what is resident under the engines' names.
THEOREM SliceNotOverdrawnInEveryLife ==
  ASSUME Reporting, Faults \cap {"oob", "direct"} = {}
  PROVE  LifeSpec => []SliceNotOverdrawn
<1> DEFINE Inv == \A t \in Task : Within(t)
<1>1. LifeInit => Inv
  BY NobodyAtStart DEF Within, Admitting, Inside
<1>2. LifeInv /\ LifeInv' /\ Inv /\ [LifeNext]_lifeVars => Inv'
  <2> SUFFICES ASSUME LifeInv, LifeInv', Inv, [LifeNext]_lifeVars, NEW t \in Task
               PROVE  Within(t)'
    OBVIOUS
  <2>1. CASE [Next]_vars
    BY <2>1, WithinStep DEF LifeInv
  <2>2. CASE Crash \/ \E u \in Clients : LoadUnsaved(u)
    <3>1. pc'[t] \notin Admitting
      BY <2>2, NobodyUnderway DEF LifeInv
    <3> QED BY <3>1 DEF Within, Admitting, Inside
  <2> QED BY <2>1, <2>2, LifeSteps DEF lifeVars
<1>3. LifeInv /\ Inv => SliceNotOverdrawn
  BY WithinHolds DEF LifeInv
<1> HIDE DEF Inv
<1> QED BY <1>1, <1>2, <1>3, LifeInvariant, PTL DEF LifeSpec

=============================================================================
