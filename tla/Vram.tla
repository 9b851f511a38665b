-------------------------------- MODULE Vram --------------------------------
(***************************************************************************)
(* The card, and the arithmetic coload does with it.                       *)
(*                                                                         *)
(* vram.py measures one GPU as (total, used) and derives two figures:      *)
(* free = total - used, and the budget, free minus a share of total kept   *)
(* back.  backends/vllm.py turns a budget into gpu_memory_utilization, a   *)
(* share of the card rounded to two decimals.                              *)
(*                                                                         *)
(* What the engines hold is a function `held` from the resident models to  *)
(* the bytes each occupies; everything else on the card (a game, a render  *)
(* job, a model nobody configured) is one number, `oob`.  A byte is        *)
(* whatever unit the instance counts in.                                   *)
(***************************************************************************)
EXTENDS Integers, FiniteSets

CONSTANTS
  Total,   \* bytes on the card
  Buffer,  \* int(total * buffer_pct), the headroom kept free
  Grain    \* bytes in the smallest share vLLM can be asked for (1% of Total)

ASSUME VramAssumption ==
  /\ Total \in Nat \ {0}
  /\ Buffer \in 0 .. Total
  /\ Grain \in 1 .. Total

(***************************************************************************)
(* The sum of a function into Nat with a finite domain, as the number of   *)
(* its (key, byte) pairs: a closed form that a proof can work with.        *)
(***************************************************************************)
Cells(f) == UNION {{x} \X (1 .. f[x]) : x \in DOMAIN f}

Bytes(f) == Cardinality(Cells(f))

\* VramSnapshot.free, for a card on which the engines hold `held`.
Free(held, oob) == Total - oob - Bytes(held)

\* Mutants of Budget: negative on a crowded card; without the headroom.
BudgetUnclamped(free) == free - Buffer
BudgetWithoutBuffer(free) == free

\* VramSnapshot.budget: never negative.
Budget(free) == IF free > Buffer THEN free - Buffer ELSE 0

(***************************************************************************)
(* The slice vLLM takes when it is handed `budget` bytes:                  *)
(* round(budget / total, 2) of the card, that is the nearest whole number  *)
(* of grains, a tie going to the even one.                                 *)
(***************************************************************************)
Granted(budget) ==
  LET down == budget \div Grain
      rest == budget % Grain
      up   == 2 * rest > Grain \/ (2 * rest = Grain /\ down % 2 = 1)
  IN  Grain * (IF up THEN down + 1 ELSE down)

=============================================================================
