----------------------------- MODULE Admission ------------------------------
(***************************************************************************)
(* What coload promises of the card, with no word of how: no mutex, no     *)
(* measurement, no eviction pass, no coroutine.                            *)
(*                                                                         *)
(* Models come onto the card one at a time, each within the line that the  *)
(* buffer draws, and leave it only if coload tracks them; a model that     *)
(* came is tracked, and stays tracked for as long as it is there.  So      *)
(* nothing is loaded over itself, nothing is orphaned, and nothing that    *)
(* is not coload's own is ever taken down.                                 *)
(***************************************************************************)
EXTENDS Vram

CONSTANTS Models, None, OobLevels

\* What an instance must satisfy.
Parameters == None \notin Models /\ OobLevels \subseteq Nat

VARIABLES
  held,     \* resident model -> the bytes its engine holds for it
  tracked,  \* the models that may be stopped when they are idle, or in the way
  loading,  \* the model whose load is in flight
  oob       \* bytes in use by everything else

promise == <<held, tracked, loading, oob>>

\* What an earlier life left behind is there, and is tracked before anything is
\* loaded or stopped.
Init ==
  /\ held \in UNION {[S -> 0 .. Total] : S \in SUBSET Models}
  /\ tracked = {} /\ loading = None
  /\ oob \in OobLevels

Begin(m) ==
  /\ loading = None /\ m \notin DOMAIN held
  /\ DOMAIN held \subseteq tracked
  /\ loading' = m
  /\ UNCHANGED <<held, tracked, oob>>

Take ==
  /\ loading # None /\ loading \notin DOMAIN held
  /\ \E bytes \in 0 .. Total :
       held' = [m \in DOMAIN held \cup {loading} |-> IF m = loading THEN bytes ELSE held[m]]
  /\ 2 * (Buffer - Free(held', oob)) <= Grain
  /\ UNCHANGED <<tracked, loading, oob>>

Finish ==
  /\ loading \in DOMAIN held
  /\ loading' = None /\ tracked' = tracked \cup {loading}
  /\ UNCHANGED <<held, oob>>

GiveUp ==
  /\ loading # None /\ loading \notin DOMAIN held
  /\ loading' = None
  /\ UNCHANGED <<held, tracked, oob>>

\* A tracked model makes way, forgotten then or still tracked.
MakeWay(m) ==
  /\ m \in tracked \cap DOMAIN held
  /\ held' = [n \in DOMAIN held \ {m} |-> held[n]]
  /\ tracked' \in {tracked, tracked \ {m}}
  /\ UNCHANGED <<loading, oob>>

\* A model is used, or adopted.
Track(ms) ==
  /\ tracked' = tracked \cup ms
  /\ UNCHANGED <<held, loading, oob>>

\* What is not on the card may be forgotten.
Untrack(m) ==
  /\ m \notin DOMAIN held
  /\ tracked' = tracked \ {m}
  /\ UNCHANGED <<held, loading, oob>>

Next ==
  \/ \E m \in Models : Begin(m) \/ MakeWay(m) \/ Untrack(m)
  \/ \E ms \in SUBSET Models : Track(ms)
  \/ Take \/ Finish \/ GiveUp

Spec == Init /\ [][Next]_promise

=============================================================================
