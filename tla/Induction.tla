------------------------------- MODULE Induction -------------------------------
(***************************************************************************)
(* Induction and recursion in a form the provers can instantiate: a set of *)
(* numbers in place of a predicate, and a function of the index and the    *)
(* value before in place of an operator.                                   *)
(***************************************************************************)
EXTENDS Integers, FiniteSetTheorems, TLAPS

(* Every set of natural numbers that has a member has a least one.         *)
LEMMA LeastNumber ==
  ASSUME NEW T, T \subseteq Nat, T # {}
  PROVE  \E x \in T : \A y \in T : x <= y
<1>1. PICK x \in T : \A y \in T : << y, x >> \notin OpToRel(<, Nat)
  BY NatLessThanWellFounded, WFMin
<1>2. \A y \in T : ~(y < x)
  BY <1>1 DEF OpToRel
<1> QED
  BY <1>2

LEMMA SetInduction ==
  ASSUME NEW T, 0 \in T, \A n \in Nat : n \in T => n + 1 \in T
  PROVE  Nat \subseteq T
<1> DEFINE C == Nat \ T
<1>1. SUFFICES ASSUME C # {} PROVE FALSE
  OBVIOUS
<1>2. PICK x \in C : \A y \in C : x <= y
  BY <1>1, LeastNumber
<1>3. x \in Nat \ {0} /\ x \notin T
  BY <1>2
<1>4. x - 1 \in Nat /\ x - 1 \notin C
  BY <1>2, <1>3
<1>5. x - 1 \in T /\ (x - 1) + 1 = x
  BY <1>3, <1>4
<1> QED
  BY <1>3, <1>4, <1>5

(* A function defined by recursion on an initial interval exists.          *)
Recurses(f, S, base, step, n) ==
  /\ f \in [0 .. n -> S]
  /\ f[0] = base
  /\ \A i \in 1 .. n : f[i] = step[i][f[i - 1]]

LEMMA Recursion ==
  ASSUME NEW S, NEW base \in S, NEW step \in [Nat -> [S -> S]], NEW n \in Nat
  PROVE  \E f : Recurses(f, S, base, step, n)
<1> DEFINE T == { k \in Nat : \E f : Recurses(f, S, base, step, k) }
<1>1. 0 \in T
  <2> DEFINE g == [i \in 0 .. 0 |-> base]
  <2>1. Recurses(g, S, base, step, 0)
    BY DEF Recurses
  <2> QED
    BY <2>1
<1>2. ASSUME NEW k \in Nat, k \in T
      PROVE  k + 1 \in T
  <2>1. PICK f : Recurses(f, S, base, step, k)
    BY <1>2
  <2>2. f \in [0 .. k -> S] /\ f[0] = base /\ \A i \in 1 .. k : f[i] = step[i][f[i - 1]]
    BY <2>1 DEF Recurses
  <2> DEFINE next == step[k + 1][f[k]]
             g == [i \in 0 .. k + 1 |-> IF i = k + 1 THEN next ELSE f[i]]
  <2>3. next \in S
    BY <2>2
  <2>4. g \in [0 .. k + 1 -> S]
    BY <2>2, <2>3
  <2>5. g[k + 1] = next /\ \A i \in 0 .. k : g[i] = f[i]
    OBVIOUS
  <2> HIDE DEF g
  <2>6. ASSUME NEW i \in 1 .. k + 1
        PROVE  g[i] = step[i][g[i - 1]]
    <3>1. i - 1 \in 0 .. k /\ g[i - 1] = f[i - 1]
      BY <2>5
    <3>2. CASE i = k + 1
      <4>1. i - 1 = k
        BY <3>2
      <4> QED
        BY <2>5, <3>1, <3>2, <4>1
    <3>3. CASE i # k + 1
      <4>1. i \in 1 .. k /\ g[i] = f[i]
        BY <2>5, <3>3
      <4> QED
        BY <2>2, <3>1, <4>1
    <3> QED
      BY <3>2, <3>3
  <2>7. g[0] = base
    BY <2>2, <2>5
  <2>8. Recurses(g, S, base, step, k + 1)
    BY <2>4, <2>6, <2>7 DEF Recurses
  <2> QED
    BY <2>8
<1> HIDE DEF T
<1>3. n \in T
  BY <1>1, <1>2, SetInduction
<1> QED
  BY <1>3 DEF T

(* The powers of two, by counting the subsets of an interval.              *)
LEMMA PowerStep ==
  ASSUME NEW n \in Nat
  PROVE  2 ^ n \in Nat \ {0} /\ 2 ^ (n + 1) = 2 * 2 ^ n
<1> DEFINE A == SUBSET (1 .. n)
           U == { T \cup {n + 1} : T \in A }
           f == [T \in A |-> T \cup {n + 1}]
<1>1. IsFiniteSet(1 .. n) /\ Cardinality(1 .. n) = n
  BY FS_Interval
<1>2. IsFiniteSet(1 .. n + 1) /\ Cardinality(1 .. n + 1) = n + 1
  BY FS_Interval
<1>3. IsFiniteSet(A) /\ Cardinality(A) = 2 ^ n
  BY <1>1, FS_SUBSET
<1>4. Cardinality(SUBSET (1 .. n + 1)) = 2 ^ (n + 1)
  BY <1>2, FS_SUBSET
<1>5. \A T \in A : n + 1 \notin T
  OBVIOUS
<1>6. f \in Bijection(A, U)
  <2>1. f \in [A -> U]
    OBVIOUS
  <2>2. ASSUME NEW T \in A, NEW R \in A, f[T] = f[R]
        PROVE  T = R
    BY <1>5, <2>2
  <2>3. \A u \in U : \E T \in A : f[T] = u
    OBVIOUS
  <2> QED
    BY <2>1, <2>2, <2>3 DEF Bijection, Injection, Surjection, IsInjective
<1>7. IsFiniteSet(U) /\ Cardinality(U) = 2 ^ n
  BY <1>3, <1>6, FS_Bijection DEF ExistsBijection
<1>8. A \cap U = {}
  BY <1>5
<1>9. SUBSET (1 .. n + 1) = A \cup U
  <2>1. 1 .. n + 1 = (1 .. n) \cup {n + 1}
    OBVIOUS
  <2>2. ASSUME NEW T \in SUBSET (1 .. n + 1), n + 1 \in T
        PROVE  T \in U
    <3>1. T \ {n + 1} \in A /\ T = (T \ {n + 1}) \cup {n + 1}
      BY <2>1, <2>2
    <3> QED
      BY <3>1
  <2>3. ASSUME NEW T \in SUBSET (1 .. n + 1), n + 1 \notin T
        PROVE  T \in A
    BY <2>1, <2>3
  <2>4. A \subseteq SUBSET (1 .. n + 1) /\ U \subseteq SUBSET (1 .. n + 1)
    BY <2>1
  <2> HIDE DEF A, U
  <2> QED
    BY <2>2, <2>3, <2>4
<1>10. 2 ^ n \in Nat
  BY <1>3, FS_CardinalityType
<1>11. 2 ^ n # 0
  <2>1. {} \in A
    OBVIOUS
  <2> HIDE DEF A
  <2> QED
    BY <1>3, <2>1, FS_EmptySet
<1> HIDE DEF A, U
<1>12. Cardinality(A \cup U) = 2 ^ n + 2 ^ n
  BY <1>3, <1>7, <1>8, <1>10, FS_Union, FS_EmptySet
<1>13. 2 ^ (n + 1) = 2 ^ n + 2 ^ n
  BY <1>4, <1>9, <1>12, Zenon
<1> DEFINE x == 2 ^ n
           y == 2 ^ (n + 1)
<1>14. x \in Nat /\ x # 0 /\ y = x + x
  BY <1>10, <1>11, <1>13
<1> HIDE DEF x, y
<1>15. x \in Nat \ {0} /\ y = 2 * x
  BY <1>14
<1> QED
  BY <1>15 DEF x, y

--------------------------------------------------------------------------------
(* A sum over a finite set, as the number of unit cells under its graph.   *)

Cells(f, S) == { p \in S \X Nat : p[2] \in 1 .. f[p[1]] }
Area(f, S) == Cardinality(Cells(f, S))

LEMMA AreaEmpty ==
  ASSUME NEW f
  PROVE  IsFiniteSet(Cells(f, {})) /\ Area(f, {}) = 0
<1>1. Cells(f, {}) = {}
  BY DEF Cells
<1> QED
  BY <1>1, FS_EmptySet, Zenon DEF Area

LEMMA AreaAdd ==
  ASSUME NEW f, NEW S, IsFiniteSet(Cells(f, S)), NEW x, x \notin S, f[x] \in Nat
  PROVE  /\ IsFiniteSet(Cells(f, S \cup {x}))
         /\ Area(f, S \cup {x}) = Area(f, S) + f[x] /\ Area(f, S) \in Nat
<1> DEFINE C == {x} \X (1 .. f[x])
           A == Cells(f, S)
           B == Cells(f, S \cup {x})
<1>1. IsFiniteSet(C) /\ Cardinality(C) = f[x]
  <2>1. IsFiniteSet({x}) /\ Cardinality({x}) = 1
    BY FS_Singleton
  <2>2. IsFiniteSet(1 .. f[x]) /\ Cardinality(1 .. f[x]) = f[x]
    <3>1. \A m \in Nat : IsFiniteSet(1 .. m) /\ Cardinality(1 .. m) = m
      BY FS_Interval
    <3> QED
      BY <3>1
  <2>3. IsFiniteSet(C) /\ Cardinality(C) = Cardinality({x}) * Cardinality(1 .. f[x])
    BY <2>1, <2>2, FS_Product
  <2> HIDE DEF C
  <2> QED
    BY <2>1, <2>2, <2>3
<1>2. B = A \cup C
  BY DEF Cells
<1>3. A \cap C = {}
  BY DEF Cells
<1> HIDE DEF A, B, C
<1>4. Cardinality(A \cap C) = 0
  BY <1>3, FS_EmptySet, Zenon
<1>5. /\ IsFiniteSet(A \cup C)
      /\ Cardinality(A \cup C) = Cardinality(A) + Cardinality(C) - Cardinality(A \cap C)
  BY <1>1, FS_Union DEF A
<1>6. IsFiniteSet(B) /\ Cardinality(B) = Cardinality(A \cup C)
  BY <1>2, <1>5, Zenon
<1>7. Cardinality(A) \in Nat
  BY FS_CardinalityType DEF A
<1>8. Cardinality(B) = Cardinality(A) + f[x]
  BY <1>1, <1>4, <1>5, <1>6, <1>7
<1> QED
  BY <1>6, <1>7, <1>8 DEF Area, A, B

LEMMA CellsFinite ==
  ASSUME NEW f, NEW S, IsFiniteSet(S), \A x \in S : f[x] \in Nat
  PROVE  IsFiniteSet(Cells(f, S)) /\ Area(f, S) \in Nat
<1> DEFINE T == { n \in Nat : \A s \in SUBSET S : Cardinality(s) = n => IsFiniteSet(Cells(f, s)) }
<1>1. 0 \in T
  <2>1. ASSUME NEW s \in SUBSET S, Cardinality(s) = 0
        PROVE  IsFiniteSet(Cells(f, s))
    <3>1. s = {}
      BY <2>1, FS_Subset, FS_EmptySet
    <3> QED
      BY <3>1, AreaEmpty, Zenon
  <2> QED
    BY <2>1
<1>2. ASSUME NEW n \in Nat, n \in T
      PROVE  n + 1 \in T
  <2>1. ASSUME NEW s \in SUBSET S, Cardinality(s) = n + 1
        PROVE  IsFiniteSet(Cells(f, s))
    <3>1. IsFiniteSet(s)
      BY FS_Subset
    <3>2. PICK x : x \in s
      BY <2>1, FS_EmptySet
    <3> DEFINE r == s \ {x}
    <3>3. r \in SUBSET S /\ x \notin r /\ f[x] \in Nat
      BY <3>2
    <3>4. Cardinality(r) = n
      <4>1. Cardinality(r) = Cardinality(s) - 1
        BY <3>1, <3>2, FS_RemoveElement
      <4> HIDE DEF r
      <4> QED
        BY <2>1, <4>1
    <3>5. IsFiniteSet(Cells(f, r))
      BY <1>2, <3>3, <3>4
    <3>6. s = r \cup {x}
      BY <3>2
    <3> HIDE DEF r
    <3>7. IsFiniteSet(Cells(f, r \cup {x}))
      BY <3>3, <3>5, AreaAdd
    <3> QED
      BY <3>6, <3>7, Zenon
  <2> QED
    BY <2>1
<1>3. Nat \subseteq T
  <2> HIDE DEF T
  <2> QED
    BY <1>1, <1>2, SetInduction
<1>4. Cardinality(S) \in Nat
  BY FS_CardinalityType
<1>5. IsFiniteSet(Cells(f, S))
  BY <1>3, <1>4
<1> QED
  BY <1>5, FS_CardinalityType DEF Area

LEMMA AreaUnion ==
  ASSUME NEW f, NEW S, NEW U, IsFiniteSet(S), IsFiniteSet(U), S \cap U = {},
         \A x \in S \cup U : f[x] \in Nat
  PROVE  Area(f, S \cup U) = Area(f, S) + Area(f, U)
<1>1. IsFiniteSet(Cells(f, S)) /\ IsFiniteSet(Cells(f, U))
      /\ Area(f, S) \in Nat /\ Area(f, U) \in Nat
  BY CellsFinite
<1>2. Cells(f, S \cup U) = Cells(f, S) \cup Cells(f, U)
  BY DEF Cells
<1>3. Cells(f, S) \cap Cells(f, U) = {}
  BY DEF Cells
<1> DEFINE A == Cells(f, S)
           B == Cells(f, U)
<1> HIDE DEF A, B
<1>4. Cardinality(A \cap B) = 0
  BY <1>3, FS_EmptySet, Zenon DEF A, B
<1>5. Cardinality(A \cup B) = Cardinality(A) + Cardinality(B) - Cardinality(A \cap B)
  BY <1>1, FS_Union DEF A, B
<1>6. Area(f, S \cup U) = Cardinality(A \cup B)
  BY <1>2, Zenon DEF Area, A, B
<1>7. Cardinality(A) = Area(f, S) /\ Cardinality(B) = Area(f, U)
  BY DEF Area, A, B
<1> QED
  BY <1>1, <1>4, <1>5, <1>6, <1>7

LEMMA AreaConstant ==
  ASSUME NEW f, NEW S, IsFiniteSet(S), NEW c \in Nat, \A x \in S : f[x] = c
  PROVE  Area(f, S) = Cardinality(S) * c
<1>1. Cells(f, S) = S \X (1 .. c)
  BY DEF Cells
<1>2. IsFiniteSet(1 .. c) /\ Cardinality(1 .. c) = c
  BY FS_Interval
<1>3. Cardinality(S \X (1 .. c)) = Cardinality(S) * Cardinality(1 .. c)
  BY <1>2, FS_Product
<1>4. Area(f, S) = Cardinality(S \X (1 .. c))
  BY <1>1, Zenon DEF Area
<1> QED
  BY <1>2, <1>3, <1>4

(* The function a fold of + over a finite set is defined by.               *)
Pick(s) == CHOOSE x \in s : TRUE

Folds(g, f, S) ==
  g = [s \in SUBSET S |-> IF s = {} THEN 0 ELSE f[Pick(s)] + g[s \ {Pick(s)}]]

LEMMA FoldStep ==
  ASSUME NEW f, NEW S, IsFiniteSet(S), \A x \in S : f[x] \in Nat,
         NEW s \in SUBSET S, s # {}
  PROVE  /\ s \ {Pick(s)} \in SUBSET S
         /\ Area(f, s) = f[Pick(s)] + Area(f, s \ {Pick(s)})
         /\ Cardinality(s) = Cardinality(s \ {Pick(s)}) + 1
<1> DEFINE x == Pick(s)
           r == s \ {x}
<1>1. x \in s
  BY DEF Pick
<1> HIDE DEF x
<1>2. r \in SUBSET S /\ x \notin r /\ f[x] \in Nat /\ s = r \cup {x}
  BY <1>1
<1>3. IsFiniteSet(r) /\ IsFiniteSet(s)
  BY <1>2, FS_Subset
<1>4. IsFiniteSet(Cells(f, r)) /\ Area(f, r) \in Nat
  BY <1>2, <1>3, CellsFinite
<1>5. Cardinality(s) = Cardinality(r) + 1
  <2>1. Cardinality(r) = Cardinality(s) - 1
    BY <1>1, <1>3, FS_RemoveElement
  <2>2. Cardinality(s) \in Nat
    BY <1>3, FS_CardinalityType
  <2> HIDE DEF r
  <2> QED
    BY <2>1, <2>2
<1>6. Area(f, r \cup {x}) = Area(f, r) + f[x]
  BY <1>2, <1>4, AreaAdd
<1>7. Area(f, s) = Area(f, r \cup {x})
  BY <1>2, Zenon
<1> HIDE DEF r
<1>8. Area(f, s) = f[x] + Area(f, r)
  BY <1>2, <1>4, <1>6, <1>7
<1> QED
  BY <1>1, <1>2, <1>5, <1>8 DEF x, r

LEMMA FoldExists ==
  ASSUME NEW f, NEW S, IsFiniteSet(S), \A x \in S : f[x] \in Nat
  PROVE  \E g : Folds(g, f, S)
<1> DEFINE g == [s \in SUBSET S |-> Area(f, s)]
<1>1. ASSUME NEW s \in SUBSET S
      PROVE  g[s] = IF s = {} THEN 0 ELSE f[Pick(s)] + g[s \ {Pick(s)}]
  <2>1. CASE s = {}
    BY <2>1, AreaEmpty, Zenon
  <2>2. CASE s # {}
    <3>1. s \ {Pick(s)} \in SUBSET S /\ Area(f, s) = f[Pick(s)] + Area(f, s \ {Pick(s)})
      BY <2>2, FoldStep
    <3>2. g[s] = Area(f, s) /\ g[s \ {Pick(s)}] = Area(f, s \ {Pick(s)})
      BY <3>1
    <3> HIDE DEF g
    <3> QED
      BY <2>2, <3>1, <3>2
  <2> QED
    BY <2>1, <2>2
<1>2. g = [s \in SUBSET S |-> g[s]]
  OBVIOUS
<1> HIDE DEF g
<1>3. g = [s \in SUBSET S |-> IF s = {} THEN 0 ELSE f[Pick(s)] + g[s \ {Pick(s)}]]
  <2> QED
    BY <1>1, <1>2
<1>4. Folds(g, f, S)
  BY <1>3, Zenon DEF Folds
<1> QED
  BY <1>4

(* A fold of + is the area, in whatever order it takes the members.        *)
LEMMA FoldIsArea ==
  ASSUME NEW f, NEW S, IsFiniteSet(S), \A x \in S : f[x] \in Nat, NEW g, Folds(g, f, S)
  PROVE  g[S] = Area(f, S)
<1> DEFINE T == { n \in Nat : \A s \in SUBSET S : Cardinality(s) = n => g[s] = Area(f, s) }
<1>1. \A s \in SUBSET S : g[s] = IF s = {} THEN 0 ELSE f[Pick(s)] + g[s \ {Pick(s)}]
  BY DEF Folds
<1>2. 0 \in T
  <2>1. ASSUME NEW s \in SUBSET S, Cardinality(s) = 0
        PROVE  g[s] = Area(f, s)
    <3>1. s = {}
      BY <2>1, FS_Subset, FS_EmptySet
    <3>2. g[s] = 0
      BY <1>1, <3>1
    <3>3. Area(f, s) = 0
      BY <3>1, AreaEmpty, Zenon
    <3> QED
      BY <3>2, <3>3
  <2> QED
    BY <2>1
<1>3. ASSUME NEW n \in Nat, n \in T
      PROVE  n + 1 \in T
  <2>1. ASSUME NEW s \in SUBSET S, Cardinality(s) = n + 1
        PROVE  g[s] = Area(f, s)
    <3>1. s # {}
      BY <2>1, FS_EmptySet
    <3>2. /\ s \ {Pick(s)} \in SUBSET S
          /\ Area(f, s) = f[Pick(s)] + Area(f, s \ {Pick(s)})
          /\ Cardinality(s) = Cardinality(s \ {Pick(s)}) + 1
      BY <3>1, FoldStep
    <3>3. g[s] = f[Pick(s)] + g[s \ {Pick(s)}]
      BY <1>1, <3>1
    <3>4. Cardinality(s \ {Pick(s)}) = n
      <4>1. Cardinality(s \ {Pick(s)}) \in Nat
        BY <3>2, FS_Subset, FS_CardinalityType
      <4> QED
        BY <2>1, <3>2, <4>1
    <3>5. g[s \ {Pick(s)}] = Area(f, s \ {Pick(s)})
      BY <1>3, <3>2, <3>4
    <3> QED
      BY <3>2, <3>3, <3>5, Zenon
  <2> QED
    BY <2>1
<1>4. Nat \subseteq T
  <2> HIDE DEF T
  <2> QED
    BY <1>2, <1>3, SetInduction
<1>5. Cardinality(S) \in Nat
  BY FS_CardinalityType
<1> QED
  BY <1>4, <1>5
================================================================================
