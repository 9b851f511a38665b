----------------------------- MODULE MCBackends -----------------------------
(***************************************************************************)
(* An instance of Backends for TLC: two models to an engine, of which      *)
(* Ollama knows one as an embedding model configured without its tag.      *)
(***************************************************************************)
EXTENDS Backends

CONSTANTS m1, m2

\* Indefinite, under a second (which is indefinite too, and which the validator
\* turns down beside a TTL), and the TTL plus the interval of the sweep.
MCPins == {0, 1, 4}

\* The adapter that is not built has one configuration: nothing depends on it.
MCInit ==
  /\ Init
  /\ kind = "vllm" => pin = 0 /\ ttl = 0
  /\ kind = "ollama" => detached

MCSpec == MCInit /\ [][Next]_vars /\ Fairness

=============================================================================
