---------------------------- MODULE MCIdleSweep -----------------------------
(***************************************************************************)
(* Instances of IdleSweep for TLC: one Ollama and one vLLM with a model    *)
(* each, one client, a card of ten units.                                  *)
(***************************************************************************)
EXTENDS IdleSweep, TLC

CONSTANTS oA, vA, ollama, vllm, c1

EngineMap == (oA :> ollama) @@ (vA :> vllm)
Seeds     == (oA :> 4) @@ (vA :> 3)
Sizes     == (oA :> 3) @@ (vA :> 4)

=============================================================================
