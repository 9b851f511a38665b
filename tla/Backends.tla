------------------------------ MODULE Backends ------------------------------
(***************************************************************************)
(* backends/registry.py: an engine of the configuration is driven by the   *)
(* adapter that its kind names.  The two adapters share the interface of   *)
(* backends/base.py and no state, so a behaviour is that of one of them.   *)
(***************************************************************************)
EXTENDS Naturals

CONSTANTS Served, Nothing, Lives,  \* of Vllm
          Configured, EmbedOnly, Bare, Pins, OwnPin, Ttls, Second, Period, NoModel  \* of Ollama

VARIABLES
  kind,   \* EngineConfig.kind
  detached, model, rediscovered, pc, call, answer, starter, stopper, engine, stray, trouble, life,
  pin, ttl, serving, op, idle, nap, left, late, unserved, ondemand, excused, gone, seen

V == INSTANCE Vllm
O == INSTANCE Ollama

ASSUME BackendsAssumption == V!Parameters /\ O!Parameters

vllm   == <<detached, model, rediscovered, pc, call, answer, starter, stopper, engine,
            stray, trouble, life>>
ollama == <<pin, ttl, serving, op, idle, nap, left, late, unserved, ondemand, excused, gone,
            seen>>
vars   == <<kind, vllm, ollama>>

\* The engine is built by the factory registered for its kind; the other
\* adapter stays as it was built.
Init == kind \in {"ollama", "vllm"} /\ V!Init /\ O!Init

IsVllm   == kind = "vllm" /\ UNCHANGED <<kind, ollama>>
IsOllama == kind = "ollama" /\ UNCHANGED <<kind, vllm>>

Next == (IsVllm /\ V!Next) \/ (IsOllama /\ O!Next)

Spec == Init /\ [][Next]_vars

Fairness ==
  /\ WF_vars(IsVllm /\ V!Goes)
  /\ WF_vars(IsVllm /\ V!StarterExits)
  /\ WF_vars(IsVllm /\ V!EngineUp)
  /\ WF_vars(IsOllama /\ O!Tick)

FairSpec == Spec /\ Fairness

(***************************************************************************)
(* The properties are those of the adapters, stated and explained there.   *)
(***************************************************************************)
\* Every variable of the two adapters keeps its type.
TypeOK == V!TypeOK /\ O!TypeOK

\* Vllm: an engine coload started is the one it believes to have, but for four
\* named troubles.
Accounted == V!Accounted

\* Vllm: a failed load leaves neither an engine nor a starter behind, but for
\* three named troubles.
FailureLeavesNothing == V!FailureLeavesNothing

\* Vllm: what is_ready affirms is what the engine serves, but for five named
\* troubles.
ReadyIsServed == V!ReadyIsServed

\* Vllm: every call ends, though engines and stop commands may hang.
EveryCallReturns == kind = "vllm" => V!EveryCallReturns

\* Vllm: a detached start is not given up on because its starter exited.
StartIsKept == kind = "vllm" => V!StartIsKept

\* Ollama: what the daemon holds is tracked, but for four named exceptions.
OrphansExplained == O!OrphansExplained

\* Ollama: what coload takes for loaded has been on the card.
GhostsExplained == O!GhostsExplained

\* Ollama: a pin never runs out before a sweep could have seen the model, if it
\* exceeds the TTL by the interval of the sweep.
DaemonIsBackstop == O!DaemonIsBackstop

\* Ollama: an untracked model does not stay pinned for ever.
OrphansExpire == kind = "ollama" => O!OrphansExpire

=============================================================================
