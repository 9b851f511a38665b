----------------------------- MODULE MCGateway ------------------------------
(***************************************************************************)
(* Instances of Gateway for TLC: one Ollama, one vLLM with two models, two *)
(* clients.                                                                *)
(***************************************************************************)
EXTENDS Gateway, TLC

CONSTANTS oA, vA, vB, ollama, vllm, c1, c2

EngineMap == (oA :> ollama) @@ (vA :> vllm) @@ (vB :> vllm)
Seeds     == (oA :> 4) @@ (vA :> 4) @@ (vB :> 5)
Sizes     == (oA :> 3) @@ (vA :> 4) @@ (vB :> 5)

ClientSymmetry == Permutations(Clients)

=============================================================================
