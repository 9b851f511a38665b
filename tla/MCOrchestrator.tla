--------------------------- MODULE MCOrchestrator ---------------------------
(***************************************************************************)
(* Instances of Orchestrator for TLC: one Ollama and one vLLM, two clients,*)
(* a card of ten units.                                                    *)
(***************************************************************************)
EXTENDS Refinement, TLC

CONSTANTS oA, oB, vA, vB, ollama, vllm, c1, c2

\* Names starting with o are Ollama's, the others vLLM's.
EngineMap == [m \in Models |-> IF m \in {oA, oB} THEN ollama ELSE vllm]

\* Estimates at least as large as Ollama's weights, and one that is not a whole
\* number of grains when the grain is 2.
Seeds == [m \in Models |-> CASE m = oA -> 4 [] m = oB -> 3 [] m = vA -> 3 [] OTHER -> 5]
Sizes == [m \in Models |-> CASE m = oA -> 3 [] m = oB -> 3 [] m = vA -> 4 [] OTHER -> 5]

\* Clients are interchangeable; the models are not.
ClientSymmetry == Permutations(Clients)

=============================================================================
