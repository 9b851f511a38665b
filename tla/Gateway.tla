------------------------------ MODULE Gateway -------------------------------
(***************************************************************************)
(* The gateway, gateway.py, over the orchestrator: what becomes of an HTTP *)
(* request from its arrival to the last byte of its answer.                *)
(*                                                                         *)
(* A client has one request at a time.  An inference request is admitted,  *)
(* and then proxied outside the load mutex: it reaches the engine some     *)
(* time after ensure_ready returned, and its answer streams for as long as *)
(* the engine and the client please.  /models/load and /models/unload      *)
(* answer when the orchestrator does; /v1/models and /status change        *)
(* nothing.                                                                *)
(***************************************************************************)
EXTENDS Orchestrator

CONSTANT Routes  \* the routes in use, a subset of {"proxy", "load", "unload"}

ASSUME GatewayAssumption == Routes \subseteq {"proxy", "load", "unload"}

VARIABLES
  http,     \* client -> its request
  reloaded  \* history: models an engine loaded for a proxied request

gatewayVars == <<vars, http, reloaded>>

\* at: where the request is; status: of its answer, 0 while there is none and
\* 599 for a stream that broke off.
NoRequest == [route |-> "none", at |-> "free", model |-> None, status |-> 0]

Replied(r, status) == [r EXCEPT !.at = "replied", !.status = status]

Broken == 599

\* A request whose body is not JSON or names no model (400), names no configured
\* model (404), or is JSON but no object, which nothing catches (500).
Reject(t) ==
  /\ http[t].at = "free"
  /\ \E route \in Routes, status \in {400, 404, 500} :
       http' = [http EXCEPT ![t] = Replied([@ EXCEPT !.route = route], status)]
  /\ UNCHANGED <<vars, reloaded>>

Accept(t) ==
  /\ http[t].at = "free"
  /\ \E route \in Routes, m \in Models :
       /\ IF route = "unload" THEN UnloadModel(t, m) ELSE EnsureReady(t, m)
       /\ http' = [http EXCEPT ![t] = [@ EXCEPT !.route = route, !.at = "called", !.model = m]]
  /\ UNCHANGED reloaded

\* The answer for each way in which the orchestrator ends a call.
StatusOf(answer) ==
  CASE answer = "refused" -> 503
    [] answer = "failed"  -> 502
    [] answer = "error"   -> 500
    [] OTHER              -> 200

\* Mutant: the mutex is taken for the time of the proxying.
AnswerLocked(t) ==
  /\ http[t].at = "called" /\ pc[t] \in Answers
  /\ GoTo(t, "idle")
  /\ work' = [work EXCEPT ![t] = Locals(None)]
  /\ http' = [http EXCEPT ![t] = IF pc[t] = "url" /\ @.route = "proxy"
                                 THEN [@ EXCEPT !.at = "send"]
                                 ELSE Replied(@, StatusOf(pc[t]))]
  /\ mutex' = IF http'[t].at = "send" THEN Append(mutex, t) ELSE mutex
  /\ UNCHANGED <<lastUsed, learned, card, now, reloaded>>

\* The orchestrator is done: proxy what was admitted, answer the rest.
Answer(t) ==
  /\ http[t].at = "called" /\ Respond(t)
  /\ http' = [http EXCEPT ![t] = IF pc[t] = "url" /\ @.route = "proxy"
                                 THEN [@ EXCEPT !.at = "send"]
                                 ELSE Replied(@, StatusOf(pc[t]))]
  /\ UNCHANGED reloaded

\* The request reaches the engine: a vLLM that is gone refuses the connection, one
\* that serves another model says 404, which is passed on.
Upstream(t) ==
  LET m == http[t].model IN
  /\ http[t].at = "send"
  /\ m \in DOMAIN held \/ IsElastic(m)
  /\ http' = [http EXCEPT ![t] = IF m \in DOMAIN held THEN [@ EXCEPT !.at = "stream"]
                                 ELSE Replied(@, IF InEngine(EngineOf[m]) = {} THEN 502 ELSE 404)]
  /\ UNCHANGED <<vars, reloaded>>

\* An Ollama that no longer has the model loads it for the request.
UpstreamLoads(t) ==
  LET m == http[t].model IN
  /\ http[t].at = "send" /\ m \notin DOMAIN held /\ ~ IsElastic(m)
  /\ held' = Put(held, m, Footprint(m, 0))
  /\ reloaded' = reloaded \cup {m}
  /\ UNCHANGED <<pc, work, mutex, lastUsed, learned, oob, now, http>>

\* The connection fails or the engine does not answer in time: httpx.HTTPError,
\* whatever the engine holds.
UpstreamFails(t) ==
  /\ http[t].at = "send"
  /\ http' = [http EXCEPT ![t] = Replied(@, 502)]
  /\ UNCHANGED <<vars, reloaded>>

\* The engine, the connection or the client ends the stream.
EndStream(t) ==
  /\ http[t].at = "stream"
  /\ \E status \in {200, Broken} : http' = [http EXCEPT ![t] = Replied(@, status)]
  /\ UNCHANGED <<vars, reloaded>>

\* The client has its answer.
Done(t) ==
  /\ http[t].at = "replied"
  /\ http' = [http EXCEPT ![t] = NoRequest]
  /\ UNCHANGED <<vars, reloaded>>

\* A vLLM that is stopped breaks the streams it serves; Ollama ends them first.
BreakStreams ==
  http' = [t \in Clients |->
             IF http[t].at = "stream" /\ IsElastic(http[t].model) /\ http[t].model \notin DOMAIN held'
             THEN Replied(http[t], Broken) ELSE http[t]]

\* A step of the orchestrator within a call, or of the rest of the box.
Orchestrate(t) == Advance(t) /\ (t \in Clients => pc[t] \notin Answers) /\ BreakStreams /\ UNCHANGED reloaded

GatewayInit == Init /\ http = [t \in Clients |-> NoRequest] /\ reloaded = {}

Quiet == \A u \in Task : pc[u] \notin Running

GatewayNext ==
  \/ \E t \in Task : Orchestrate(t)
  \/ (Sweep \/ Box) /\ BreakStreams /\ UNCHANGED reloaded
  \/ Quiet /\ \E t \in Clients : Reject(t) \/ Accept(t) \/ Answer(t)
  \/ \E t \in Clients : Upstream(t) \/ UpstreamLoads(t) \/ UpstreamFails(t)
                        \/ EndStream(t) \/ Done(t)

GatewaySpec == GatewayInit /\ [][GatewayNext]_gatewayVars

(***************************************************************************)
(* Properties.                                                             *)
(***************************************************************************)
\* On a box that behaves no call of the orchestrator fails: it serves the model or
\* says honestly that it does not fit.  Only a model that an engine loaded behind
\* coload's back can make a start fail.
NoSpuriousFailure ==
  reloaded = {} => \A t \in Task : pc[t] \notin {"failed", "error"}

\* "Nothing is ever auto-killed" (README), where auto-eviction and the idle sweep
\* are off: a model that a request was admitted to leaves the card only because
\* somebody unloads it by name, or asks its vLLM engine for another model.
NothingAutoKilled ==
  [][\A t \in Clients :
       LET m == http[t].model IN
       (http[t].at \in {"send", "stream"} /\ m \in DOMAIN held /\ m \notin DOMAIN held')
         => \E u \in Clients : \/ pc[u] = "unload" /\ work[u].model = m
                               \/ pc[u] = "load" /\ EngineOf[work[u].model] = EngineOf[m]]_gatewayVars

\* An answer that streams, however long, and an engine that never answers, hold up
\* nobody else: what is being proxied neither holds the load mutex nor waits for it.
ProxiesUnlocked ==
  \A t \in Clients : http[t].at \in {"send", "stream", "replied"} => t \notin Range(mutex)

\* "Every load goes through one serialized routine" (README): no model comes onto
\* the card but by a load of the routine.
OnlyMediatedLoads ==
  [][\A m \in DOMAIN held' \ DOMAIN held :
       \E t \in Task : pc[t] = "load" /\ work[t].model = m]_gatewayVars

=============================================================================
