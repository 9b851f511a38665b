------------------------------ MODULE IdleSweep ------------------------------
(***************************************************************************)
(* stop_idle once more, with the order in which it takes the models: that  *)
(* of the list it makes when it starts, from a dictionary that keeps its   *)
(* keys in the order in which they were inserted.                          *)
(***************************************************************************)
EXTENDS Orchestrator

VARIABLES
  order,   \* the keys of _last_used, as they were inserted
  expired  \* the list of stop_idle, less the models that had their turn

sweepVars == <<vars, order, expired>>

\* The members of S in some order.
Orders(S) == {s \in [1 .. Cardinality(S) -> S] : Range(s) = S}

\* A key keeps its place until it is popped; a new one comes last.  What an engine
\* lists at start-up may come in any order.
Inserted ==
  LET kept == SelectSeq(order, LAMBDA m : m \in DOMAIN lastUsed')
  IN  \E new \in Orders(DOMAIN lastUsed' \ Range(order)) : order' = kept \o new

\* The list is made when the sweep starts and shrinks as it goes on; it is dropped
\* with the sweep.
Listed ==
  expired' = IF pc[Sweeper] = "idle" /\ pc'[Sweeper] = "sweep"
             THEN SelectSeq(order, IsExpired)
             ELSE SelectSeq(expired, LAMBDA m : m \in DOMAIN work'[Sweeper].todo)

\* The next model is the first of the list.
InTurn ==
  pc[Sweeper] = "sweep" /\ pc'[Sweeper] = "check" => work'[Sweeper].model = Head(expired)

OrderedInit == Init /\ order = <<>> /\ expired = <<>>

OrderedNext == Next /\ Inserted /\ Listed /\ InTurn

OrderedSpec == OrderedInit /\ [][OrderedNext]_sweepVars

OrderedFairSpec == OrderedSpec /\ Fairness

=============================================================================
