------------------------------- MODULE Ollama -------------------------------
(***************************************************************************)
(* The Ollama adapter, backends/ollama.py, between the daemon, which keeps *)
(* a model for as long as it was pinned, and the table of what coload      *)
(* tracks, which its sweep goes by.                                        *)
(*                                                                         *)
(* Time is relative: left[m] is what remains of the pin of a resident      *)
(* model, idle[m] how long ago a tracked one was touched, nap how long     *)
(* until the sweep looks, all in ticks.  load and unload run under the     *)
(* load mutex, one at a time; op is the one in progress.  is_ready and     *)
(* resident_models only read.                                              *)
(***************************************************************************)
EXTENDS Naturals, Functions

CONSTANTS
  Configured,  \* the models configured for the engine
  EmbedOnly,   \* those that cannot generate
  Bare,        \* those configured without their tag
  Pins,        \* pin_ttl_seconds, in ticks; 0 asks for an indefinite pin
  OwnPin,      \* how long Ollama keeps a model that nobody pinned, in ticks
  Ttls,        \* idle_ttl_seconds, in ticks; 0 disables the sweep
  Second,      \* ticks in a second
  Period,      \* interval_s of run_ttl_loop, in ticks
  NoModel

\* What an instance must satisfy.
Parameters ==
  /\ EmbedOnly \subseteq Configured /\ Bare \subseteq Configured
  /\ NoModel \notin Configured
  /\ Pins \subseteq Nat /\ Ttls \subseteq Nat
  /\ {Second, Period, OwnPin} \subseteq Nat \ {0}

VARIABLES
  pin, ttl,  \* the configuration
  serving,   \* whether coload serves
  op,        \* the call in progress and how far its request got
  idle,      \* tracked model -> ticks since it was touched
  nap,       \* ticks until the sweep looks; 0 while it is at work
  left,      \* resident model -> ticks until the daemon drops it; 0 is never
  late,      \* models the daemon will still load for a caller that is gone
  unserved,  \* admitted models whose request has not reached the daemon
  ondemand,  \* history: residents that a request loaded, not coload
  excused,   \* history: models coload was told it failed to load, or not told of
  gone,      \* history: models that left the card, and nobody asked for again
  seen       \* history: tracked models that a sweep found, or kept waiting, expired

coload  == <<serving, op, idle, nap, unserved, excused, seen>>
daemon  == <<left, late, ondemand, gone>>
history == <<ondemand, gone>>
vars    == <<pin, ttl, coload, daemon>>

None == [verb |-> "none", model |-> NoModel, at |-> "none"]

Nobody == [m \in {} |-> 0]

With(d, m, v) == [x \in DOMAIN d \cup {m} |-> IF x = m THEN v ELSE d[x]]
But(d, m)     == Restrict(d, DOMAIN d \ {m})

\* The pin must outlive the idle sweep, unless it is indefinite by request.
Accepts(p, t) == p = 0 \/ p > t

\* Mutant: models are pinned for good.
KeepAliveForever == 0

\* Mutant: rounded up.
KeepAliveCeiling == ((pin + Second - 1) \div Second) * Second

\* Mutant: pinned for the idle TTL.
KeepAliveTtl == (ttl \div Second) * Second

\* int(pin_ttl_s) or -1: whole seconds, and the indefinite pin for none.
KeepAlive == (pin \div Second) * Second

\* What the daemon holds from now on: m for so long, and the others as before.
Holds(m, ticks) == left' = With(left, m, ticks) /\ gone' = gone \ {m}
Drops(S) ==
  /\ left' = Restrict(left, DOMAIN left \ S)
  /\ ondemand' = ondemand \ S /\ gone' = gone \cup (S \cap DOMAIN left)

(***************************************************************************)
(* Calls.                                                                  *)
(***************************************************************************)
Begin(verb, m) ==
  /\ serving /\ op = None
  /\ op' = [verb |-> verb, model |-> m, at |-> "generate"]
  /\ UNCHANGED <<pin, ttl, serving, idle, nap, unserved, excused, seen, left, late, ondemand>>

Load(m)   == m \notin DOMAIN left /\ Begin("load", m) /\ gone' = gone \ {m}
Unload(m) == m \in DOMAIN left /\ Begin("unload", m) /\ UNCHANGED gone

\* The request gets as far as `at`.
Reaches(at) ==
  /\ op' = [op EXCEPT !.at = at]
  /\ UNCHANGED <<pin, ttl, serving, idle, nap, unserved, excused, seen>>

\* The daemon refuses with a 400: the model cannot generate.
CannotGenerate ==
  /\ op.at = "generate" /\ op.model \in EmbedOnly
  /\ Reaches("refused") /\ UNCHANGED daemon

\* coload goes on with /api/embed.
FallBack == op.at = "refused" /\ Reaches("embed") /\ UNCHANGED daemon

\* The daemon carries out what it is asked for, and answers.
Carry ==
  /\ op.at = "embed" \/ (op.at = "generate" /\ op.model \notin EmbedOnly)
  /\ Reaches("done")
  /\ IF op.verb = "load"
     THEN Holds(op.model, KeepAlive) /\ ondemand' = ondemand \ {op.model}
     ELSE Drops({op.model})
  /\ late' = late \ {op.model}

\* The caller goes on: a loaded model is touched, its request still to come; an
\* unloaded one is forgotten.
Succeed ==
  /\ op' = None
  /\ IF op.verb = "load"
     THEN idle' = With(idle, op.model, 0) /\ unserved' = unserved \cup {op.model}
     ELSE idle' = But(idle, op.model) /\ UNCHANGED unserved
  /\ excused' = excused \ {op.model} /\ seen' = seen \ {op.model}
  /\ UNCHANGED <<pin, ttl, serving, nap, daemon>>

\* Mutant: the status of the first answer is not looked at.
AnsweredUnchecked == op.at \in {"refused", "done"} /\ Succeed

Answered == op.at = "done" /\ Succeed

\* What becomes of a request whose caller is gone: nothing more, or the daemon
\* still loads the model, later.
Abandoned ==
  \/ UNCHANGED daemon
  \/ /\ op.verb = "load" /\ op.at # "done" /\ op.model \notin DOMAIN left
     /\ late' = late \cup {op.model} /\ UNCHANGED <<left, history>>

\* The daemon refuses or fails, or its answer comes too late: BackendError.
Failed ==
  /\ op # None
  /\ Abandoned
  /\ op' = None
  /\ excused' = IF op.verb = "load" THEN excused \cup {op.model} ELSE excused
  /\ UNCHANGED <<pin, ttl, serving, idle, nap, unserved, seen>>

\* ensure_ready finds the model resident: touched, and nothing sent to Ollama.
\* This is all that POST /models/load does; a proxied request follows otherwise.
Ready(m) ==
  /\ serving /\ m \in DOMAIN left
  /\ idle' = With(idle, m, 0) /\ unserved' = unserved \cup {m}
  /\ excused' = excused \ {m} /\ seen' = seen \ {m}
  /\ UNCHANGED <<pin, ttl, serving, op, nap, daemon>>

\* unload_model or the sweep find the model gone.
Gone(m) ==
  /\ serving /\ op = None /\ m \in DOMAIN idle \ DOMAIN left
  /\ idle' = But(idle, m) /\ seen' = seen \ {m}
  /\ UNCHANGED <<pin, ttl, serving, op, nap, unserved, excused, daemon>>

\* stop_idle is over, or was abandoned: the loop sleeps again.
SweepEnds ==
  /\ nap = 0 /\ nap' = Period
  /\ UNCHANGED <<pin, ttl, serving, op, idle, unserved, excused, seen, daemon>>

(***************************************************************************)
(* Requests: the gateway sends them on outside the mutex, once admitted.   *)
(***************************************************************************)
Reached(m) ==
  /\ m \in unserved /\ unserved' = unserved \ {m}
  /\ UNCHANGED <<pin, ttl, serving, op, idle, nap, excused, seen, late>>

\* The daemon serves the request: the pin of the model starts anew.
Serve(m) ==
  /\ m \in DOMAIN left
  /\ Reached(m)
  /\ Holds(m, IF m \in ondemand THEN OwnPin ELSE KeepAlive) /\ UNCHANGED ondemand

\* The model left meanwhile: Ollama loads it for the request, for as long as it
\* keeps models by itself, and nobody tells coload.  A load it owes comes first.
OnDemand(m) ==
  /\ m \notin DOMAIN left \cup late
  /\ Reached(m)
  /\ Holds(m, OwnPin) /\ ondemand' = ondemand \cup {m}

(***************************************************************************)
(* Lives of coload; its requests end with it.                              *)
(***************************************************************************)
Stop ==
  /\ serving /\ serving' = FALSE
  /\ Abandoned
  /\ op' = None
  /\ idle' = Nobody /\ nap' = Period /\ seen' = {}
  /\ unserved' = {} /\ excused' = late'
  /\ UNCHANGED <<pin, ttl>>

\* Mutant: a restart adopts nothing.
AdoptNothing ==
  /\ ~ serving /\ serving' = TRUE
  /\ UNCHANGED <<pin, ttl, op, idle, nap, unserved, excused, seen, daemon>>

\* coload starts, and before it serves adopt_resident takes what /api/ps lists under
\* the name that is configured: not a model configured without its tag.  A daemon
\* that does not answer is skipped.
Adopt ==
  /\ ~ serving /\ serving' = TRUE
  /\ \E listed \in {DOMAIN left \ Bare, {}} :
       /\ idle' = [m \in listed |-> 0] /\ unserved' = listed
       /\ excused' = excused \cup (DOMAIN left \ listed)
  /\ UNCHANGED <<pin, ttl, op, nap, seen, daemon>>

(***************************************************************************)
(* The daemon and time.                                                    *)
(***************************************************************************)
Expired(table) == {m \in DOMAIN table : ttl > 0 /\ table[m] >= ttl}

\* A tick.  Pins run out, and the models pinned by them are dropped; tracked
\* models grow idle, as far as the TTL tells apart; the sweep looks when its nap
\* is over, unless there is no TTL, and what expires while it is at work waits for
\* the next one.
Tick ==
  /\ left' = [m \in {n \in DOMAIN left : left[n] # 1} |-> IF left[m] = 0 THEN 0 ELSE left[m] - 1]
  /\ ondemand' = ondemand \cap DOMAIN left' /\ gone' = gone \cup (DOMAIN left \ DOMAIN left')
  /\ idle' = [m \in DOMAIN idle |-> IF idle[m] < ttl THEN idle[m] + 1 ELSE ttl]
  /\ nap' = IF serving /\ ttl > 0 /\ nap > 0 THEN nap - 1 ELSE nap
  /\ seen' = IF nap' = 0 THEN seen \cup Expired(idle') ELSE seen
  /\ UNCHANGED <<pin, ttl, serving, op, unserved, excused, late>>

LateLoad ==
  /\ \E m \in late : Holds(m, KeepAlive) /\ late' = late \ {m} /\ ondemand' = ondemand \ {m}
  /\ UNCHANGED <<pin, ttl, coload>>

DaemonDies ==
  /\ Drops(DOMAIN left) /\ late' = {}
  /\ UNCHANGED <<pin, ttl, coload>>

Init ==
  /\ pin \in Pins /\ ttl \in Ttls /\ Accepts(pin, ttl)
  /\ serving = FALSE /\ op = None /\ nap = Period
  /\ idle = Nobody /\ left = Nobody /\ late = {} /\ unserved = {}
  /\ ondemand = {} /\ excused = {} /\ gone = {} /\ seen = {}

Next ==
  \/ \E m \in Configured : \/ Load(m) \/ Unload(m) \/ Ready(m) \/ Gone(m)
                           \/ Serve(m) \/ OnDemand(m)
  \/ CannotGenerate \/ FallBack \/ Carry \/ Answered \/ Failed \/ SweepEnds
  \/ Stop \/ Adopt
  \/ Tick \/ LateLoad \/ DaemonDies

Spec == Init /\ [][Next]_vars

\* Time passes.  Nothing else is assumed: coload may be down for good.
FairSpec == Spec /\ WF_vars(Tick)

(***************************************************************************)
(* Properties.                                                             *)
(***************************************************************************)
Table(longest) == UNION {[S -> 0 .. longest] : S \in SUBSET Configured}

Lease(m) == IF m \in ondemand THEN OwnPin ELSE pin

\* No model is pinned for longer than it may be.
TypeOK ==
  /\ pin \in Pins /\ ttl \in Ttls
  /\ serving \in BOOLEAN
  /\ op \in {None} \cup [verb : {"load", "unload"}, model : Configured,
                          at : {"generate", "refused", "embed", "done"}]
  /\ op # None => serving
  /\ idle \in Table(ttl) /\ nap \in 0 .. Period
  /\ left \in Table(pin + OwnPin) /\ \A m \in DOMAIN left : left[m] <= Lease(m)
  /\ late \subseteq Configured /\ unserved \subseteq Configured /\ ondemand \subseteq Configured
  /\ excused \subseteq Configured /\ gone \subseteq Configured /\ seen \subseteq Configured

\* The model that a load in progress may put on the card at any moment.
Loading == IF op.verb = "load" THEN {op.model} ELSE {}

\* Through restarts, lost answers and failed calls, what Ollama holds while
\* coload serves is tracked, but for the model of a load in progress, one whose
\* load coload was told had failed, one the last restart was not shown (the
\* daemon did not answer, or lists it by another name than the configured one),
\* and one that a request admitted before its unload made Ollama load again.
OrphansExplained ==
  serving => DOMAIN left \subseteq DOMAIN idle \cup excused \cup ondemand \cup Loading

\* A model that coload takes for loaded has been on the card since coload asked
\* for it, if it is not there now (its pin ran out, it was unloaded, the daemon
\* died), whichever of the two endpoints it needs ("embedding models 400 on
\* generate"); unless coload was told that its next load failed, or awaits it.
GhostsExplained ==
  DOMAIN idle \ DOMAIN left \subseteq gone \cup excused \cup Loading

\* "So coload's own sweep is never racing the daemon's" (config.py): with a whole
\* number of seconds that exceeds the TTL by the interval of the sweep, no pin of
\* a tracked model runs out before a sweep found that model expired, or was too
\* busy to look.  That is for a model whose last request has arrived, and that
\* coload pinned.
DaemonIsBackstop ==
  [][Tick /\ ttl > 0 /\ pin - (pin % Second) >= ttl + Period
       => \A m \in (DOMAIN idle \cap DOMAIN left) \ (DOMAIN left' \cup unserved \cup ondemand) :
            m \in seen']_vars

\* "The pin is deliberately finite": what coload loaded and no longer tracks is
\* gone after a while, even if coload never comes back, unless it asked for less
\* than a second.
OrphansExpire ==
  \A m \in Configured :
    (pin >= Second /\ m \in DOMAIN left \ DOMAIN idle) ~> (m \notin DOMAIN left \ DOMAIN idle)

=============================================================================
