------------------------------- MODULE Totals -------------------------------
(***************************************************************************)
(* The sum of a function with natural-number values, counted unit by unit: *)
(* each unit of f[x] is a cell <<x, i>>, and the total is the number of    *)
(* cells.  Stated with Cardinality, rather than as a fold, because the     *)
(* facts about finite sets are first-order and a fold is a recursion.      *)
(***************************************************************************)
EXTENDS Integers, FiniteSets, FiniteSetTheorems, TLAPS

Cells(f, S) == UNION {{x} \X (1..f[x]) : x \in S}

Total(f) == Cardinality(Cells(f, DOMAIN f))

-----------------------------------------------------------------------------
(* What the proofs about money need to know of Total.                      *)

(* The units of one entry: as many as its value.                           *)
LEMMA CellsOfOne ==
  ASSUME NEW x, NEW n \in Nat
  PROVE  /\ IsFiniteSet({x} \X (1..n))
         /\ Cardinality({x} \X (1..n)) = n
<1>1. IsFiniteSet({x}) /\ Cardinality({x}) = 1
  BY FS_Singleton
<1>2. IsFiniteSet(1..n) /\ Cardinality(1..n) = n
  BY FS_Interval
<1>3. Cardinality({x} \X (1..n)) = Cardinality({x}) * Cardinality(1..n)
      /\ IsFiniteSet({x} \X (1..n))
  BY <1>1, <1>2, FS_Product
<1> QED
  BY <1>1, <1>2, <1>3

(* A finite set of entries has finitely many units.                        *)
LEMMA CellsFinite ==
  ASSUME NEW S, IsFiniteSet(S), NEW f, \A x \in S : f[x] \in Nat
  PROVE  IsFiniteSet(Cells(f, S))
<1> DEFINE column == [x \in S |-> {x} \X (1..f[x])]
           columns == {{x} \X (1..f[x]) : x \in S}
<1>1. column \in Surjection(S, columns)
  BY DEF Surjection
<1>2. IsFiniteSet(columns)
  BY <1>1, FS_Surjection
<1>3. \A T \in columns : IsFiniteSet(T)
  <2>1. \A x \in S : IsFiniteSet({x} \X (1..f[x]))
    BY CellsOfOne
  <2> QED
    BY <2>1
<1> HIDE DEF columns
<1>4. IsFiniteSet(UNION columns)
  BY <1>2, <1>3, FS_UNION
<1> QED
  BY <1>4 DEF Cells, columns

(* The units of a set of entries are those of one entry and of the rest.   *)
LEMMA CellsSplit ==
  ASSUME NEW S, IsFiniteSet(S), NEW f, \A y \in S : f[y] \in Nat, NEW x \in S
  PROVE  Cardinality(Cells(f, S)) = Cardinality(Cells(f, S \ {x})) + f[x]
<1> DEFINE rest == Cells(f, S \ {x})
           one  == {x} \X (1..f[x])
<1>1. Cells(f, S) = rest \cup one
  BY DEF Cells
<1>2. rest \cap one = {}
  BY DEF Cells
<1>3. IsFiniteSet(S \ {x})
  BY FS_Difference
<1>4. IsFiniteSet(rest)
  BY <1>3, CellsFinite
<1>5. IsFiniteSet(one) /\ Cardinality(one) = f[x]
  BY CellsOfOne
<1>6. Cardinality({}) = 0
  BY FS_EmptySet
<1> HIDE DEF rest, one
<1>7. Cardinality(rest \cup one)
        = Cardinality(rest) + Cardinality(one) - Cardinality(rest \cap one)
  BY <1>4, <1>5, FS_Union
<1>8. Cardinality(rest) \in Nat
  BY <1>4, FS_CardinalityType
<1>9. Cardinality(Cells(f, S)) = Cardinality(rest) + f[x]
  <2>1. Cardinality(rest \cup one) = Cardinality(rest) + f[x] - 0
    BY <1>2, <1>5, <1>6, <1>7
  <2>2. f[x] \in Nat
    OBVIOUS
  <2> QED
    BY <1>1, <1>8, <2>1, <2>2
<1> QED
  BY <1>9 DEF rest

LEMMA TotalType ==
  ASSUME NEW S, IsFiniteSet(S), NEW f \in [S -> Nat]
  PROVE  Total(f) \in Nat
<1>1. IsFiniteSet(Cells(f, S))
  BY CellsFinite
<1> QED
  BY <1>1, FS_CardinalityType DEF Total

(* No entry is larger than the total.                                      *)
LEMMA TotalPart ==
  ASSUME NEW S, IsFiniteSet(S), NEW f \in [S -> Nat], NEW x \in S
  PROVE  f[x] \in Nat /\ f[x] <= Total(f)
<1>1. Total(f) = Cardinality(Cells(f, S \ {x})) + f[x]
  BY CellsSplit DEF Total
<1>2. IsFiniteSet(S \ {x})
  BY FS_Difference
<1>3. Cardinality(Cells(f, S \ {x})) \in Nat
  BY <1>2, CellsFinite, FS_CardinalityType
<1> QED
  BY <1>1, <1>3

(* Changing one entry changes the total by the difference.                 *)
LEMMA TotalUpdate ==
  ASSUME NEW S, IsFiniteSet(S), NEW f \in [S -> Nat], NEW x \in S,
         NEW g \in [S -> Nat], \A y \in S \ {x} : g[y] = f[y]
  PROVE  Total(g) = Total(f) - f[x] + g[x]
<1>1. Total(f) = Cardinality(Cells(f, S \ {x})) + f[x]
  BY CellsSplit DEF Total
<1>2. Total(g) = Cardinality(Cells(g, S \ {x})) + g[x]
  BY CellsSplit DEF Total
<1>3. Cells(g, S \ {x}) = Cells(f, S \ {x})
  BY DEF Cells
<1>4. IsFiniteSet(S \ {x})
  BY FS_Difference
<1>5. Cardinality(Cells(f, S \ {x})) \in Nat
  BY <1>4, CellsFinite, FS_CardinalityType
<1> QED
  BY <1>1, <1>2, <1>3, <1>5

(* The total of entries that are all zero.                                 *)
LEMMA TotalZero ==
  ASSUME NEW S, NEW f \in [S -> Nat], \A x \in S : f[x] = 0
  PROVE  Total(f) = 0
<1>1. Cells(f, S) = {}
  BY DEF Cells
<1> QED
  BY <1>1, FS_EmptySet DEF Total

(* The total over two disjoint sets of entries is the sum of theirs.       *)
LEMMA TotalUnion ==
  ASSUME NEW S, IsFiniteSet(S), NEW T, IsFiniteSet(T), S \cap T = {},
         NEW f \in [S \cup T -> Nat],
         NEW g \in [S -> Nat], \A x \in S : g[x] = f[x],
         NEW h \in [T -> Nat], \A x \in T : h[x] = f[x]
  PROVE  Total(f) = Total(g) + Total(h)
<1>1. Cells(f, S \cup T) = Cells(g, S) \cup Cells(h, T)
      /\ Cells(g, S) \cap Cells(h, T) = {}
  BY DEF Cells
<1>2. IsFiniteSet(Cells(g, S)) /\ IsFiniteSet(Cells(h, T))
  BY CellsFinite
<1>3. /\ Cardinality(Cells(g, S)) \in Nat
      /\ Cardinality(Cells(h, T)) \in Nat
  BY <1>2, FS_CardinalityType
<1>4. Cardinality(Cells(g, S) \cup Cells(h, T))
        = Cardinality(Cells(g, S)) + Cardinality(Cells(h, T))
  <2>1. Cardinality(Cells(g, S) \cup Cells(h, T))
          = Cardinality(Cells(g, S)) + Cardinality(Cells(h, T))
              - Cardinality(Cells(g, S) \cap Cells(h, T))
    BY <1>2, FS_Union
  <2>2. Cardinality(Cells(g, S) \cap Cells(h, T)) = 0
    <3>1. Cells(g, S) \cap Cells(h, T) = {}
      BY <1>1
    <3>2. Cardinality({}) = 0
      BY FS_EmptySet
    <3> QED
      BY <3>1, <3>2, Zenon
  <2> QED
    BY <1>3, <2>1, <2>2
<1> QED
  BY <1>1, <1>4 DEF Total
=============================================================================
