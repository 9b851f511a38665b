----------------------------- MODULE Refinement -----------------------------
(***************************************************************************)
(* The orchestrator implements Admission: a model is tracked while it has  *)
(* a time of last use, and its load is in flight from the decision to the  *)
(* return of ensure_ready.                                                 *)
(***************************************************************************)
EXTENDS Orchestrator

InFlight == {t \in Task : pc[t] \in {"load", "loaded"}}

Loading == IF InFlight = {} THEN None ELSE work[CHOOSE t \in InFlight : TRUE].model

Promised ==
  INSTANCE Admission WITH
    tracked <- DOMAIN lastUsed,
    loading <- Loading

ASSUME RefinementAssumption == Promised!Parameters

\* On a box that behaves, every step of the admission routine, of the eviction
\* pass, of the sweep, of adoption and of any interleaving of them is a step of
\* the promise, or none.
KeepsPromise == Promised!Spec

=============================================================================
