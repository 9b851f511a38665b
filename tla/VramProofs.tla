----------------------------- MODULE VramProofs -----------------------------
(***************************************************************************)
(* What the proofs about the orchestrator need to know of Bytes, the sum   *)
(* of what the engines hold: it is a number, an added entry adds its own   *)
(* bytes to it, and a dictionary with fewer entries has no larger a sum.   *)
(***************************************************************************)
EXTENDS Vram, Functions, FiniteSetTheorems, TLAPS

\* The (key, byte) pairs of a dictionary form a finite set.
LEMMA CellsFinite ==
  ASSUME NEW D, IsFiniteSet(D), NEW f \in [D -> Nat]
  PROVE  IsFiniteSet(Cells(f))
<1> DEFINE G == [x \in D |-> {x} \X (1 .. f[x])]
<1> DEFINE R == {{x} \X (1 .. f[x]) : x \in D}
<1>1. G \in Surjection(D, R)
  BY DEF Surjection
<1>2. IsFiniteSet(R)
  BY <1>1, FS_Surjection
<1>3. \A T \in R : IsFiniteSet(T)
  <2> SUFFICES ASSUME NEW x \in D PROVE IsFiniteSet({x} \X (1 .. f[x]))
    OBVIOUS
  <2>1. IsFiniteSet({x})
    BY FS_Singleton
  <2>2. IsFiniteSet(1 .. f[x])
    BY FS_Interval
  <2> QED BY <2>1, <2>2, FS_Product
<1>4. IsFiniteSet(UNION R)
  BY <1>2, <1>3, FS_UNION
<1> QED BY <1>4 DEF Cells

\* A sum of bytes is a natural number.
LEMMA BytesType ==
  ASSUME NEW D, IsFiniteSet(D), NEW f \in [D -> Nat]
  PROVE  Bytes(f) \in Nat
BY CellsFinite, FS_CardinalityType DEF Bytes

\* Dropping entries of a dictionary, by a pop or an unload, does not increase
\* its sum.
LEMMA BytesRestrict ==
  ASSUME NEW D, IsFiniteSet(D), NEW f \in [D -> Nat], NEW E \in SUBSET D
  PROVE  Bytes(Restrict(f, E)) \in Nat /\ Bytes(Restrict(f, E)) <= Bytes(f)
<1>1. Cells(Restrict(f, E)) \in SUBSET Cells(f)
  BY DEF Cells, Restrict
<1>2. IsFiniteSet(Cells(f))
  BY CellsFinite
<1> QED BY <1>1, <1>2, FS_Subset, FS_CardinalityType DEF Bytes

\* A new entry adds exactly its own bytes.
LEMMA BytesAdd ==
  ASSUME NEW D, IsFiniteSet(D), NEW f \in [D -> Nat],
         NEW k, k \notin D, NEW n \in Nat, NEW g \in [D \cup {k} -> Nat],
         g[k] = n, \A x \in D : g[x] = f[x]
  PROVE  Bytes(g) = Bytes(f) + n
<1> DEFINE new == {k} \X (1 .. n)
<1>1. Cells(g) = Cells(f) \cup new
  BY DEF Cells
<1>2. Cells(f) \cap new = {}
  BY DEF Cells
<1>3. IsFiniteSet(Cells(f))
  BY CellsFinite
<1>4. IsFiniteSet({k}) /\ Cardinality({k}) = 1
  BY FS_Singleton
<1>5. IsFiniteSet(1 .. n) /\ Cardinality(1 .. n) = n
  BY FS_Interval
<1>6. IsFiniteSet(new) /\ Cardinality(new) = n
  <2>1. IsFiniteSet(new) /\ Cardinality(new) = Cardinality({k}) * Cardinality(1 .. n)
    BY <1>4, <1>5, FS_Product
  <2> QED BY <2>1, <1>4, <1>5
<1>7. Cardinality(Cells(f) \cup new)
        = Cardinality(Cells(f)) + Cardinality(new) - Cardinality(Cells(f) \cap new)
  BY <1>3, <1>6, FS_Union
<1>8. Cardinality(Cells(f) \cap new) = 0
  BY <1>2, FS_EmptySet
<1>9. Cardinality(Cells(f)) \in Nat
  BY <1>3, FS_CardinalityType
<1> QED BY <1>1, <1>6, <1>7, <1>8, <1>9 DEF Bytes

\* The sum over two disjoint sets is the sum of the sums.
LEMMA BytesSplit ==
  ASSUME NEW D, IsFiniteSet(D), NEW f \in [D -> Nat],
         NEW S \in SUBSET D, NEW T \in SUBSET D, S \cap T = {}
  PROVE  Bytes([x \in S \cup T |-> f[x]])
           = Bytes([x \in S |-> f[x]]) + Bytes([x \in T |-> f[x]])
<1> DEFINE a == [x \in S |-> f[x]]
<1> DEFINE b == [x \in T |-> f[x]]
<1> DEFINE c == [x \in S \cup T |-> f[x]]
<1>1. /\ IsFiniteSet(S) /\ a \in [S -> Nat]
      /\ IsFiniteSet(T) /\ b \in [T -> Nat]
  BY FS_Subset
<1>2. IsFiniteSet(Cells(a)) /\ IsFiniteSet(Cells(b))
  BY <1>1, CellsFinite
<1>3. Cells(c) = Cells(a) \cup Cells(b)
  BY DEF Cells
<1>4. Cells(a) \cap Cells(b) = {}
  BY DEF Cells
<1>5. Cardinality(Cells(a) \cup Cells(b))
        = Cardinality(Cells(a)) + Cardinality(Cells(b)) - Cardinality(Cells(a) \cap Cells(b))
  BY <1>2, FS_Union
<1>6. Cardinality(Cells(a) \cap Cells(b)) = 0
  BY <1>4, FS_EmptySet
<1>7. Cardinality(Cells(a)) \in Nat /\ Cardinality(Cells(b)) \in Nat
  BY <1>2, FS_CardinalityType
<1>8. Bytes(c) = Bytes(a) + Bytes(b)
  <2> HIDE DEF a, b, c
  <2> QED BY <1>3, <1>5, <1>6, <1>7 DEF Bytes
<1> QED BY <1>8

LEMMA BytesNone ==
  ASSUME NEW f, DOMAIN f = {}
  PROVE  Bytes(f) = 0
<1>1. Cells(f) = {}
  BY DEF Cells
<1> QED BY <1>1, FS_EmptySet DEF Bytes

\* The budget is a natural number whatever the measurement.
LEMMA BudgetType ==
  ASSUME NEW free \in Int
  PROVE  Budget(free) \in Nat
BY VramAssumption DEF Budget

\* A share of the card is a natural number of bytes.
LEMMA GrantedType ==
  ASSUME NEW b \in Nat
  PROVE  Granted(b) \in Nat
<1> DEFINE down == b \div Grain
<1> DEFINE rest == b % Grain
<1>1. Grain \in Nat /\ Grain > 0
  BY VramAssumption
<1>2. down \in Nat
  BY <1>1
<1>3. \A q \in Nat : Grain * q \in Nat
  BY <1>1
<1>4. Grain * down \in Nat /\ Grain * (down + 1) \in Nat
  BY <1>2, <1>3
<1> QED BY <1>4 DEF Granted

\* Rounding to the nearest grain gives at most half a grain more than asked for.
LEMMA GrantedRounds ==
  ASSUME NEW b \in Nat
  PROVE  2 * (Granted(b) - b) <= Grain
<1> DEFINE down == b \div Grain
<1> DEFINE rest == b % Grain
<1> DEFINE up == 2 * rest > Grain \/ (2 * rest = Grain /\ down % 2 = 1)
<1>1. Grain \in Nat /\ Grain > 0
  BY VramAssumption
<1>2. down \in Nat /\ rest \in Nat /\ rest < Grain
  BY <1>1
<1>3. b = Grain * down + rest
  BY <1>1
<1>4. Granted(b) = Grain * (IF up THEN down + 1 ELSE down)
  BY DEF Granted
<1>5. Grain * (down + 1) = Grain * down + Grain
  BY <1>1, <1>2
<1>6. \A q \in Nat : Grain * q \in Nat
  BY <1>1
<1>7. Grain * down \in Nat
  BY <1>2, <1>6
<1> HIDE DEF down, rest
<1>8. CASE up
  <2>1. Granted(b) = Grain * down + Grain
    BY <1>4, <1>5, <1>8
  <2> QED BY <1>1, <1>2, <1>3, <1>7, <1>8, <2>1
<1>9. CASE ~ up
  <2>1. Granted(b) = Grain * down
    BY <1>4, <1>9
  <2> QED BY <1>1, <1>2, <1>3, <1>7, <2>1
<1> QED BY <1>8, <1>9

=============================================================================
