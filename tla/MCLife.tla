------------------------------- MODULE MCLife -------------------------------
(***************************************************************************)
(* An instance of Life for TLC: the box of MCOrchestrator with two models  *)
(* of Ollama and one of vLLM, where coload restarts.                       *)
(***************************************************************************)
EXTENDS Life, TLC

CONSTANTS oA, oB, vB, ollama, vllm, c1

EngineMap == (oA :> ollama) @@ (oB :> ollama) @@ (vB :> vllm)
Seeds     == (oA :> 4) @@ (oB :> 3) @@ (vB :> 5)
Sizes     == (oA :> 3) @@ (oB :> 3) @@ (vB :> 5)

\* Ollama's model once took more than it takes now, or less, as seen then.
MCFiles == {oA :> 2, oA :> 5}

=============================================================================
