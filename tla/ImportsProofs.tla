----------------------------- MODULE ImportsProofs -----------------------------
(***************************************************************************)
(* Proofs about Imports: that the stubs are the pairs of the readable      *)
(* tables and a lookup finds them, and that the database holds what the    *)
(* directory declares, for every module and directory.                     *)
(***************************************************************************)
EXTENDS Imports, Induction, SequenceTheorems

--------------------------------------------------------------------------------
(* What FlattenSeq joins, part by part.                                    *)

(* c is a and then b. *)
Joint(c, a, b, S) ==
  /\ c \in Seq(S) /\ Len(c) = Len(a) + Len(b)
  /\ Len(a) \in Nat /\ Len(b) \in Nat /\ Len(c) \in Nat
  /\ \A i \in 1 .. Len(a) : c[i] = a[i]
  /\ \A i \in 1 .. Len(b) : c[Len(a) + i] = b[i]

LEMMA Joined ==
  ASSUME NEW S, NEW a \in Seq(S), NEW b \in Seq(S)
  PROVE  Joint(a \o b, a, b, S)
<1> DEFINE c == a \o b
<1>1. /\ c \in Seq(S) /\ Len(c) = Len(a) + Len(b)
      /\ \A i \in 1 .. Len(a) + Len(b) : c[i] = IF i <= Len(a) THEN a[i] ELSE b[i - Len(a)]
  BY ConcatProperties
<1> HIDE DEF c
<1>2. Len(a) \in Nat /\ Len(b) \in Nat
  OBVIOUS
<1>4. \A i \in 1 .. Len(a) : c[i] = a[i]
  BY <1>1, <1>2
<1>5. ASSUME NEW i \in 1 .. Len(b)
      PROVE  c[Len(a) + i] = b[i]
  <2>1. Len(a) + i \in 1 .. Len(a) + Len(b) /\ ~(Len(a) + i <= Len(a)) /\ (Len(a) + i) - Len(a) = i
    BY <1>2
  <2> QED
    BY <1>1, <2>1, Zenon
<1>6. Joint(c, a, b, S)
  BY <1>1, <1>2, <1>4, <1>5 DEF Joint
<1> QED
  BY <1>6 DEF c

Flattens(g, s, S) ==
  /\ g \in [0 .. Len(s) -> Seq(S)]
  /\ g[0] = << >>
  /\ \A i \in 1 .. Len(s) : g[i] = g[i - 1] \o s[i]

LEMMA FlattenPart ==
  ASSUME NEW S, NEW s, NEW g, Flattens(g, s, S), NEW i \in 0 .. Len(s)
  PROVE  g[i] \in Seq(S)
<1>1. g \in [0 .. Len(s) -> Seq(S)]
  BY DEF Flattens
<1> QED
  BY <1>1

LEMMA FlattenIs ==
  ASSUME NEW S, NEW s \in Seq(Seq(S))
  PROVE  \E g : Flattens(g, s, S)
<1> DEFINE n == Len(s)
           step == [k \in Nat |-> [m \in Seq(S) |-> IF k \in 1 .. n THEN m \o s[k] ELSE m]]
<1>1. n \in Nat /\ << >> \in Seq(S) /\ \A k \in 1 .. n : s[k] \in Seq(S)
  OBVIOUS
<1>2. step \in [Nat -> [Seq(S) -> Seq(S)]]
  <2>1. ASSUME NEW k \in 1 .. n, NEW m \in Seq(S)
        PROVE  m \o s[k] \in Seq(S)
    BY <1>1, ConcatProperties
  <2> QED
    BY <2>1
<1> HIDE DEF n, step
<1>3. PICK g : Recurses(g, Seq(S), << >>, step, n)
  BY <1>1, <1>2, Recursion, Zenon
<1>4. /\ g \in [0 .. n -> Seq(S)] /\ g[0] = << >>
      /\ \A k \in 1 .. n : g[k] = step[k][g[k - 1]]
  BY <1>3 DEF Recurses
<1>5. \A k \in 1 .. n : g[k - 1] \in Seq(S)
  BY <1>1, <1>4
<1>6. \A k \in 1 .. n, m \in Seq(S) : step[k][m] = m \o s[k]
  <2> TAKE k \in 1 .. n, m \in Seq(S)
  <2>1. k \in Nat
    OBVIOUS
  <2>2. step[k] = [x \in Seq(S) |-> IF k \in 1 .. n THEN x \o s[k] ELSE x]
    BY <2>1, Zenon DEF step
  <2> QED
    BY <2>2, Zenon
<1>7. Flattens(g, s, S)
  BY <1>4, <1>5, <1>6 DEF Flattens, n
<1> QED
  BY <1>7

LEMMA FlattenLast ==
  ASSUME NEW S, NEW s \in Seq(Seq(S)), NEW g, Flattens(g, s, S)
  PROVE  FlattenSeq(s) = g[Len(s)] /\ FlattenSeq(s) \in Seq(S)
<1> DEFINE n == Len(s)
           v == CHOOSE v : v = [i \in 1 .. n |-> IF i = 1 THEN s[i] ELSE v[i - 1] \o s[i]]
<1>1. n \in Nat /\ \A i \in 1 .. n : s[i] \in Seq(S)
  OBVIOUS
<1>2. g \in [0 .. n -> Seq(S)] /\ g[0] = << >> /\ \A i \in 1 .. n : g[i] = g[i - 1] \o s[i]
  BY DEF Flattens
<1>3. g[n] \in Seq(S)
  BY <1>1, <1>2
<1>4. CASE n = 0
  <2>1. s = << >>
    BY <1>4, EmptySeq
  <2>2. FlattenSeq(s) = s
    BY <1>4 DEF FlattenSeq
  <2> QED
    BY <1>2, <1>3, <1>4, <2>1, <2>2
<1>5. CASE n # 0
  <2> DEFINE h == [i \in 1 .. n |-> g[i]]
  <2>1. h = [i \in 1 .. n |-> IF i = 1 THEN s[i] ELSE h[i - 1] \o s[i]]
    <3>1. ASSUME NEW i \in 1 .. n
          PROVE  h[i] = IF i = 1 THEN s[i] ELSE h[i - 1] \o s[i]
      <4>1. CASE i = 1
        <5>0. 1 \in 1 .. n /\ 1 - 1 = 0
          BY <4>1
        <5>1. g[1] = << >> \o s[1] /\ s[1] \in Seq(S)
          BY <1>1, <1>2, <5>0, Zenon
        <5>2. g[1] = s[1]
          BY <5>1, ConcatEmptySeq
        <5> QED
          BY <4>1, <5>2
      <4>2. CASE i # 1
        <5>1. i - 1 \in 1 .. n
          BY <1>1, <4>2
        <5> QED
          BY ZenonT(40), <1>2, <4>2, <5>1
      <4> QED
        BY <4>1, <4>2
    <3>2. h = [i \in 1 .. n |-> h[i]]
      OBVIOUS
    <3> HIDE DEF h
    <3> QED
      BY <3>1, <3>2
  <2>2. v = [i \in 1 .. n |-> IF i = 1 THEN s[i] ELSE v[i - 1] \o s[i]]
    <3> HIDE DEF h, n
    <3> QED
      BY ZenonT(40), <2>1
  <2> HIDE DEF v, h
  <2>3. \A i \in 1 .. n : v[i] = IF i = 1 THEN s[i] ELSE v[i - 1] \o s[i]
    BY <2>2, Zenon
  <2> DEFINE T == { k \in Nat : k \in 1 .. n => v[k] = g[k] }
  <2>4. 0 \in T
    OBVIOUS
  <2>5. ASSUME NEW k \in Nat, k \in T
        PROVE  k + 1 \in T
    <3> SUFFICES ASSUME k + 1 \in 1 .. n PROVE v[k + 1] = g[k + 1]
      OBVIOUS
    <3>1. CASE k = 0
      <4>0. 1 \in 1 .. n /\ 1 - 1 = 0
        BY <3>1
      <4>1. g[1] = << >> \o s[1] /\ s[1] \in Seq(S)
        BY <1>1, <1>2, <4>0, Zenon
      <4>2. g[1] = s[1]
        BY <4>1, ConcatEmptySeq
      <4> QED
        BY <2>3, <3>1, <4>2
    <3>2. CASE k # 0
      <4>1. k \in 1 .. n /\ (k + 1) - 1 = k /\ k + 1 # 1
        BY <1>1, <3>2
      <4>2. v[k] = g[k] /\ v[k + 1] = v[k] \o s[k + 1]
        BY <2>3, <2>5, <4>1
      <4>3. g[k + 1] = g[k] \o s[k + 1]
        BY <1>2, <4>1
      <4> QED
        BY <4>2, <4>3
    <3> QED
      BY <3>1, <3>2
  <2>6. Nat \subseteq T
    <3> HIDE DEF T
    <3> QED
      BY <2>4, <2>5, SetInduction
  <2>7. v[n] = g[n]
    BY <1>1, <1>5, <2>6
  <2>8. FlattenSeq(s) = v[n]
    BY <1>5 DEF FlattenSeq, v, n
  <2> QED
    BY <1>3, <2>7, <2>8
<1> QED
  BY <1>4, <1>5

(* What is joined up to a part stays where it is. *)
LEMMA FlattenKeeps ==
  ASSUME NEW S, NEW s \in Seq(Seq(S)), NEW g, Flattens(g, s, S),
         NEW i \in 0 .. Len(s), NEW m \in i .. Len(s)
  PROVE  /\ Len(g[i]) <= Len(g[m])
         /\ \A j \in 1 .. Len(g[i]) : g[m][j] = g[i][j]
<1> DEFINE n == Len(s)
           Kept(k) == /\ Len(g[i]) <= Len(g[k])
                      /\ \A j \in 1 .. Len(g[i]) : g[k][j] = g[i][j]
           T == { d \in Nat : i + d <= n => Kept(i + d) }
<1>1. n \in Nat /\ \A k \in 1 .. n : s[k] \in Seq(S)
  OBVIOUS
<1>2. g \in [0 .. n -> Seq(S)] /\ \A k \in 1 .. n : g[k] = g[k - 1] \o s[k]
  BY DEF Flattens
<1>3. \A k \in 0 .. n : g[k] \in Seq(S) /\ Len(g[k]) \in Nat
  BY <1>2
<1>4. 0 \in T
  BY <1>3
<1>5. ASSUME NEW d \in Nat, d \in T
      PROVE  d + 1 \in T
  <2> SUFFICES ASSUME i + (d + 1) <= n PROVE Kept(i + (d + 1))
    OBVIOUS
  <2> DEFINE k == i + (d + 1)
  <2>1. k \in 1 .. n /\ k - 1 = i + d /\ i + d <= n /\ k - 1 \in 0 .. n
    BY <1>1
  <2>2. Kept(k - 1)
    BY <1>5, <2>1
  <2>3. g[k] = g[k - 1] \o s[k] /\ g[k - 1] \in Seq(S) /\ s[k] \in Seq(S)
    BY <1>1, <1>2, <1>3, <2>1
  <2> HIDE DEF k
  <2>4. /\ Len(g[k]) = Len(g[k - 1]) + Len(s[k])
        /\ \A j \in 1 .. Len(g[k - 1]) : g[k][j] = g[k - 1][j]
    <3> DEFINE a == g[k - 1]
               b == s[k]
               c == g[k]
    <3>1. a \in Seq(S) /\ b \in Seq(S) /\ c = a \o b
      BY <2>3
    <3> HIDE DEF a, b, c
    <3>2. Joint(c, a, b, S)
      BY <3>1, Joined
    <3>3. Len(c) = Len(a) + Len(b) /\ \A j \in 1 .. Len(a) : c[j] = a[j]
      BY <3>2 DEF Joint
    <3> QED
      BY <3>3 DEF a, b, c
  <2>5. Len(g[i]) \in Nat /\ Len(g[k - 1]) \in Nat /\ Len(s[k]) \in Nat
    BY <1>1, <1>3, <2>1
  <2>6. \A j \in 1 .. Len(g[i]) : j \in 1 .. Len(g[k - 1])
    BY <2>2, <2>5
  <2>7. Len(g[i]) <= Len(g[k])
    <3>1. Len(g[i]) <= Len(g[k - 1]) /\ Len(g[k]) = Len(g[k - 1]) + Len(s[k])
      BY <2>2, <2>4, Zenon
    <3> DEFINE x == Len(g[i])
               y == Len(g[k - 1])
               z == Len(s[k])
    <3>2. x \in Nat /\ y \in Nat /\ z \in Nat /\ x <= y /\ Len(g[k]) = y + z
      BY <2>5, <3>1
    <3> HIDE DEF x, y, z
    <3>3. x <= Len(g[k])
      BY <3>2
    <3> QED
      BY <3>3 DEF x
  <2>8. Kept(k)
    BY <2>2, <2>4, <2>6, <2>7, Zenon
  <2> QED
    BY <2>8 DEF k
<1>6. Nat \subseteq T
  <2> HIDE DEF T
  <2> QED
    BY <1>4, <1>5, SetInduction
<1>7. m - i \in Nat /\ i + (m - i) = m /\ m <= n
  BY <1>1
<1> HIDE DEF Kept
<1>8. Kept(m)
  BY <1>6, <1>7
<1> QED
  BY <1>8 DEF Kept

(* Where the members of a part are. *)
LEMMA FlattenAt ==
  ASSUME NEW S, NEW s \in Seq(Seq(S)), NEW g, Flattens(g, s, S),
         NEW i \in 1 .. Len(s), NEW j \in 1 .. Len(s[i])
  PROVE  /\ Len(g[i - 1]) + j \in 1 .. Len(FlattenSeq(s))
         /\ FlattenSeq(s)[Len(g[i - 1]) + j] = s[i][j]
<1> DEFINE n == Len(s)
           a == g[i - 1]
           b == s[i]
<1>1. n \in Nat /\ i - 1 \in 0 .. n /\ i \in 0 .. n /\ n \in i .. n
  OBVIOUS
<1>2. a \in Seq(S) /\ b \in Seq(S) /\ g[i] = a \o b
  <2>1. g[i - 1] \in Seq(S) /\ s[i] \in Seq(S)
    BY <1>1, ElementOfSeq DEF Flattens
  <2> QED
    BY <2>1, Zenon DEF Flattens
<1>3. Len(g[i]) <= Len(g[n]) /\ \A k \in 1 .. Len(g[i]) : g[n][k] = g[i][k]
  BY <1>1, FlattenKeeps
<1>4. FlattenSeq(s) = g[n] /\ Len(g[n]) \in Nat
  BY FlattenLast
<1> DEFINE c == g[i]
<1> HIDE DEF a, b, c
<1>5. /\ Len(c) = Len(a) + Len(b) /\ Len(a) \in Nat /\ Len(b) \in Nat
      /\ \A k \in 1 .. Len(b) : c[Len(a) + k] = b[k]
  <2>1. c = a \o b
    BY <1>2 DEF c
  <2>2. Joint(c, a, b, S)
    BY <1>2, <2>1, Joined
  <2> QED
    BY <2>2 DEF Joint
<1>6. j \in 1 .. Len(b)
  BY DEF b
<1>7. Len(a) + j \in 1 .. Len(c) /\ c[Len(a) + j] = b[j]
  <2>1. Len(c) = Len(a) + Len(b) /\ Len(a) \in Nat /\ Len(b) \in Nat
    BY <1>5
  <2>2. c[Len(a) + j] = b[j]
    BY <1>5, <1>6, Zenon
  <2> QED
    BY <1>6, <2>1, <2>2
<1>8. Len(a) + j \in 1 .. Len(g[n]) /\ g[n][Len(a) + j] = c[Len(a) + j]
  BY <1>3, <1>4, <1>5, <1>7 DEF c
<1> QED
  BY <1>4, <1>7, <1>8 DEF a, b

(* One more part at the end. *)
LEMMA FlattenAppend ==
  ASSUME NEW S, NEW s \in Seq(Seq(S)), NEW e \in Seq(S)
  PROVE  FlattenSeq(Append(s, e)) = FlattenSeq(s) \o e
<1> DEFINE t == Append(s, e)
           n == Len(s)
<1>1. /\ n \in Nat /\ t \in Seq(Seq(S)) /\ Len(t) = n + 1 /\ t[n + 1] = e
      /\ \A i \in 1 .. n : t[i] = s[i]
  BY AppendProperties
<1>2. PICK g : Flattens(g, t, S)
  BY <1>1, FlattenIs
<1> HIDE DEF t
<1> DEFINE h == [i \in 0 .. n |-> g[i]]
<1>3. /\ g \in [0 .. n + 1 -> Seq(S)] /\ g[0] = << >>
      /\ \A i \in 1 .. n + 1 : g[i] = g[i - 1] \o t[i]
  BY <1>1, <1>2 DEF Flattens
<1>4. Flattens(h, s, S)
  <2>1. h \in [0 .. n -> Seq(S)] /\ h[0] = << >>
    BY <1>1, <1>3
  <2>2. ASSUME NEW i \in 1 .. n
        PROVE  h[i] = h[i - 1] \o s[i]
    <3>1. i - 1 \in 0 .. n /\ i \in 0 .. n /\ i \in 1 .. n + 1
      BY <1>1
    <3>2. g[i] = g[i - 1] \o s[i]
      BY <1>1, <1>3, <3>1
    <3> QED
      BY <3>1, <3>2
  <2> HIDE DEF h
  <2> QED
    BY <2>1, <2>2 DEF Flattens
<1>5. FlattenSeq(s) = h[n] /\ FlattenSeq(t) = g[n + 1]
  BY <1>1, <1>2, <1>4, FlattenLast
<1>6. h[n] = g[n] /\ g[n + 1] = g[n] \o e
  <2>1. n \in 0 .. n /\ n + 1 \in 1 .. n + 1 /\ (n + 1) - 1 = n
    BY <1>1
  <2> QED
    BY <1>1, <1>3, <2>1
<1> HIDE DEF h
<1> QED
  BY <1>5, <1>6 DEF t

--------------------------------------------------------------------------------
(* Where the entries and the tables of a file are.                         *)

Amounts(n, base, inc) == n \in Nat /\ base \in Nat /\ inc \in [1 .. n -> Nat]

SumsOf(w, n, base, inc) == w = [j \in 0 .. n |-> IF j = 0 THEN base ELSE w[j - 1] + inc[j]]

Totals(w, n, base, inc) ==
  /\ w \in [0 .. n -> Nat] /\ w[0] = base
  /\ \A j \in 1 .. n : w[j] = w[j - 1] + inc[j]

LEMMA SumsExist ==
  ASSUME NEW n, NEW base, NEW inc, Amounts(n, base, inc)
  PROVE  \E w : SumsOf(w, n, base, inc)
<1>0. n \in Nat /\ base \in Nat /\ inc \in [1 .. n -> Nat]
  BY DEF Amounts
<1> DEFINE step == [j \in Nat |-> [m \in Nat |-> IF j \in 1 .. n THEN m + inc[j] ELSE m]]
<1>1. step \in [Nat -> [Nat -> Nat]]
  BY <1>0
<1>2. \E w : SumsOf(w, n, base, inc)
  <2>1. PICK w : Recurses(w, Nat, base, step, n)
    <3> HIDE DEF step
    <3> QED
      BY <1>0, <1>1, Recursion
  <2>2. w \in [0 .. n -> Nat] /\ w[0] = base /\ \A j \in 1 .. n : w[j] = w[j - 1] + inc[j]
    <3>1. /\ w \in [0 .. n -> Nat] /\ w[0] = base
          /\ \A j \in 1 .. n : w[j] = step[j][w[j - 1]]
      BY <2>1 DEF Recurses
    <3>2. \A j \in 1 .. n : w[j - 1] \in Nat
      BY <1>0, <3>1
    <3>3. \A j \in 1 .. n, m \in Nat : step[j][m] = m + inc[j]
      BY <1>0
    <3> HIDE DEF step
    <3> QED
      BY <3>1, <3>2, <3>3
  <2> HIDE DEF step
  <2>3. SumsOf(w, n, base, inc)
    BY <2>2 DEF SumsOf
  <2> QED
    BY <2>3
<1> QED
  BY <1>2

LEMMA SumsType ==
  ASSUME NEW n, NEW base, NEW inc, Amounts(n, base, inc),
         NEW w, SumsOf(w, n, base, inc)
  PROVE  Totals(w, n, base, inc)
<1>0. n \in Nat /\ base \in Nat /\ inc \in [1 .. n -> Nat]
  BY DEF Amounts
<1>1. \A j \in 0 .. n : w[j] = IF j = 0 THEN base ELSE w[j - 1] + inc[j]
  BY Zenon DEF SumsOf
<1>2. w[0] = base /\ \A j \in 1 .. n : w[j] = w[j - 1] + inc[j]
  BY <1>0, <1>1
<1> DEFINE T == { j \in Nat : j <= n => w[j] \in Nat }
<1>3. 0 \in T
  BY <1>0, <1>2
<1>4. ASSUME NEW j \in Nat, j \in T
      PROVE  j + 1 \in T
  <2> SUFFICES ASSUME j + 1 <= n PROVE w[j + 1] \in Nat
    OBVIOUS
  <2>1. j + 1 \in 1 .. n /\ (j + 1) - 1 = j /\ w[j] \in Nat
    BY <1>0, <1>4
  <2> QED
    BY <1>0, <1>2, <2>1
<1>5. Nat \subseteq T
  <2> HIDE DEF T
  <2> QED
    BY <1>3, <1>4, SetInduction
<1>6. \A j \in 0 .. n : w[j] \in Nat
  BY <1>5
<1>7. w = [j \in 0 .. n |-> w[j]]
  BY <1>1 DEF SumsOf
<1>8. w \in [0 .. n -> Nat]
  BY <1>6, <1>7
<1> QED
  BY <1>2, <1>8 DEF Totals

(* A sum of naturals does not fall. *)
LEMMA SumsRise ==
  ASSUME NEW n, NEW base, NEW inc, Amounts(n, base, inc),
         NEW w, SumsOf(w, n, base, inc), NEW i \in 0 .. n, NEW k \in i .. n
  PROVE  w[i] <= w[k]
<1>0. n \in Nat /\ base \in Nat /\ inc \in [1 .. n -> Nat]
  BY DEF Amounts
<1>1. w \in [0 .. n -> Nat] /\ \A j \in 1 .. n : w[j] = w[j - 1] + inc[j]
  <2>1. Totals(w, n, base, inc)
    BY SumsType, Zenon
  <2> QED
    BY <2>1 DEF Totals
<1> DEFINE T == { d \in Nat : i + d <= n => w[i] <= w[i + d] }
<1>2. 0 \in T
  BY <1>0, <1>1
<1>3. ASSUME NEW d \in Nat, d \in T
      PROVE  d + 1 \in T
  <2> SUFFICES ASSUME i + (d + 1) <= n PROVE w[i] <= w[i + (d + 1)]
    OBVIOUS
  <2>1. i + (d + 1) \in 1 .. n /\ (i + (d + 1)) - 1 = i + d /\ i + d \in 0 .. n
    BY <1>0
  <2>2. w[i] <= w[i + d]
    BY <1>3, <2>1
  <2> QED
    BY <1>0, <1>1, <2>1, <2>2
<1>4. Nat \subseteq T
  <2> HIDE DEF T
  <2> QED
    BY <1>2, <1>3, SetInduction
<1>5. k - i \in Nat /\ i + (k - i) = k /\ k <= n
  BY <1>0
<1>6. k - i \in T
  BY <1>4, <1>5
<1> QED
  BY <1>5, <1>6

(* Tables of one length. *)
Listing(l) ==
  l \in Seq(Import) /\ \A k \in 1 .. Len(l) : Len(l[k].nids) = Len(l[k].addrs)

Sizes(l)  == [k \in 1 .. Len(l) |-> l[k].size]
Tables(l) == [k \in 1 .. Len(l) |-> 2 * Len(l[k].nids)]

LEMMA ListingType ==
  ASSUME NEW l, Listing(l)
  PROVE  /\ Len(l) \in Nat
         /\ \A k \in 1 .. Len(l) :
              /\ l[k].size \in Nat \ {0} /\ l[k].lib \in Nat
              /\ l[k].nids \in Seq(Nat) /\ l[k].addrs \in Seq(Nat)
              /\ Len(l[k].nids) \in Nat /\ Len(l[k].addrs) = Len(l[k].nids)
              /\ l[k].lost \subseteq {"nids", "addrs"}
         /\ Sizes(l) \in [1 .. Len(l) -> Nat] /\ Tables(l) \in [1 .. Len(l) -> Nat]
<1>1. l \in Seq(Import) /\ \A k \in 1 .. Len(l) : Len(l[k].nids) = Len(l[k].addrs)
  BY DEF Listing
<1>2. Len(l) \in Nat /\ \A k \in 1 .. Len(l) : l[k] \in Import
  BY <1>1, ElementOfSeq, LenProperties
<1>3. ASSUME NEW k \in 1 .. Len(l)
      PROVE  /\ l[k].size \in Nat \ {0} /\ l[k].lib \in Nat
             /\ l[k].nids \in Seq(Nat) /\ l[k].addrs \in Seq(Nat)
             /\ Len(l[k].nids) \in Nat /\ Len(l[k].addrs) = Len(l[k].nids)
             /\ l[k].lost \subseteq {"nids", "addrs"}
  <2>1. /\ l[k].size \in Nat \ {0} /\ l[k].lib \in Nat /\ l[k].nids \in Seq(Nat) /\ l[k].addrs \in Seq(Nat)
        /\ l[k].lost \subseteq {"nids", "addrs"}
    BY <1>2 DEF Import
  <2>2. Len(l[k].nids) \in Nat
    BY <2>1, LenProperties
  <2> QED
    BY <1>1, <2>1, <2>2
<1>4. \A k \in 1 .. Len(l) : l[k].size \in Nat /\ 2 * Len(l[k].nids) \in Nat
  BY <1>3
<1>5. Sizes(l) \in [1 .. Len(l) -> Nat] /\ Tables(l) \in [1 .. Len(l) -> Nat]
  BY <1>4 DEF Sizes, Tables
<1> QED
  BY <1>2, <1>3, <1>5

EntrySums(l, w) == SumsOf(w, Len(l), HeaderLen, Sizes(l))

LEMMA EntryOffsets ==
  ASSUME NEW l, Listing(l)
  PROVE  \E w : EntrySums(l, w) /\ \A k \in 1 .. Len(l) + 1 : EntryOffset(l, k) = w[k - 1]
<1> DEFINE n == Len(l)
           v == CHOOSE w : w = [j \in 0 .. n |-> IF j = 0 THEN HeaderLen ELSE w[j - 1] + l[j].size]
<1>1. \A w : SumsOf(w, n, HeaderLen, Sizes(l)) <=>
              w = [j \in 0 .. n |-> IF j = 0 THEN HeaderLen ELSE w[j - 1] + l[j].size]
  <2> TAKE w
  <2> DEFINE A == [j \in 0 .. n |-> IF j = 0 THEN HeaderLen ELSE w[j - 1] + l[j].size]
             B == [j \in 0 .. n |-> IF j = 0 THEN HeaderLen ELSE w[j - 1] + Sizes(l)[j]]
  <2>1. A = B
    <3>1. n \in Nat
      BY ListingType
    <3>2. \A j \in 0 .. n : j # 0 => Sizes(l)[j] = l[j].size
      BY <3>1 DEF Sizes
    <3> QED
      BY <3>2
  <2>2. SumsOf(w, n, HeaderLen, Sizes(l)) <=> w = B
    BY Zenon DEF SumsOf
  <2>3. SumsOf(w, n, HeaderLen, Sizes(l)) <=> w = A
    BY <2>1, <2>2, Zenon
  <2> QED
    BY <2>3, Zenon
<1>2. \E w : SumsOf(w, n, HeaderLen, Sizes(l))
  <2>1. Amounts(n, HeaderLen, Sizes(l))
    BY ListingType DEF Amounts, HeaderLen
  <2> QED
    BY <2>1, SumsExist, Zenon
<1>3. SumsOf(v, n, HeaderLen, Sizes(l))
  <2> HIDE DEF n
  <2> QED
    BY <1>1, <1>2
<1>4. \A k \in 1 .. Len(l) + 1 : EntryOffset(l, k) = v[k - 1]
  BY Zenon DEF EntryOffset
<1> HIDE DEF v
<1> QED
  BY <1>3, <1>4 DEF EntrySums

TableSums(l, w) == SumsOf(w, Len(l), EntryOffset(l, Len(l) + 1), Tables(l))

LEMMA EntryOffsetType ==
  ASSUME NEW l, Listing(l)
  PROVE  /\ EntryOffset(l, 1) = HeaderLen
         /\ \A k \in 1 .. Len(l) + 1 : EntryOffset(l, k) \in Nat
         /\ \A k \in 1 .. Len(l) : EntryOffset(l, k + 1) = EntryOffset(l, k) + l[k].size
         /\ \A k \in 1 .. Len(l) + 1 : \A i \in 1 .. k : EntryOffset(l, i) <= EntryOffset(l, k)
<1> DEFINE n == Len(l)
<1>1. n \in Nat /\ Sizes(l) \in [1 .. n -> Nat] /\ HeaderLen \in Nat
  BY ListingType DEF HeaderLen
<1>0. Amounts(n, HeaderLen, Sizes(l))
  BY <1>1 DEF Amounts
<1>2. PICK w : EntrySums(l, w) /\ \A k \in 1 .. n + 1 : EntryOffset(l, k) = w[k - 1]
  BY EntryOffsets
<1>3. SumsOf(w, n, HeaderLen, Sizes(l))
  BY <1>2 DEF EntrySums
<1>4. /\ w \in [0 .. n -> Nat] /\ w[0] = HeaderLen
      /\ \A j \in 1 .. n : w[j] = w[j - 1] + l[j].size
  <2>1. \A j \in 1 .. n : Sizes(l)[j] = l[j].size
    BY DEF Sizes
  <2>2. /\ w \in [0 .. n -> Nat] /\ w[0] = HeaderLen
        /\ \A j \in 1 .. n : w[j] = w[j - 1] + Sizes(l)[j]
    <3>1. Totals(w, n, HeaderLen, Sizes(l))
      BY <1>0, <1>3, SumsType, Zenon
    <3> QED
      BY <3>1 DEF Totals
  <2> QED
    BY <2>1, <2>2
<1> HIDE DEF n
<1>5. EntryOffset(l, 1) = HeaderLen
  BY <1>1, <1>2, <1>4
<1>6. \A k \in 1 .. n + 1 : EntryOffset(l, k) \in Nat
  BY <1>1, <1>2, <1>4
<1>7. ASSUME NEW k \in 1 .. n
      PROVE  EntryOffset(l, k + 1) = EntryOffset(l, k) + l[k].size
  <2>1. k \in 1 .. n + 1 /\ k + 1 \in 1 .. n + 1 /\ (k + 1) - 1 = k
    BY <1>1
  <2> QED
    BY <1>2, <1>4, <2>1
<1>8. ASSUME NEW k \in 1 .. n + 1, NEW i \in 1 .. k
      PROVE  EntryOffset(l, i) <= EntryOffset(l, k)
  <2>1. i - 1 \in 0 .. n /\ k - 1 \in i - 1 .. n /\ i \in 1 .. n + 1
    BY <1>1
  <2>2. w[i - 1] <= w[k - 1]
    BY <1>0, <1>3, <2>1, SumsRise
  <2> QED
    BY <1>2, <2>1, <2>2
<1> QED
  BY <1>5, <1>6, <1>7, <1>8 DEF n

LEMMA TableOffsets ==
  ASSUME NEW l, Listing(l)
  PROVE  \E w : TableSums(l, w) /\ \A k \in 1 .. Len(l) + 1 : TableOffset(l, k) = w[k - 1]
<1> DEFINE n == Len(l)
           base == EntryOffset(l, n + 1)
           v == CHOOSE w : w = [j \in 0 .. n |-> IF j = 0 THEN base ELSE w[j - 1] + 2 * Len(l[j].nids)]
<1>1. \A w : SumsOf(w, n, base, Tables(l)) <=>
              w = [j \in 0 .. n |-> IF j = 0 THEN base ELSE w[j - 1] + 2 * Len(l[j].nids)]
  <2> HIDE DEF base, v
  <2> TAKE w
  <2> DEFINE A == [j \in 0 .. n |-> IF j = 0 THEN base ELSE w[j - 1] + 2 * Len(l[j].nids)]
             B == [j \in 0 .. n |-> IF j = 0 THEN base ELSE w[j - 1] + Tables(l)[j]]
  <2>1. A = B
    <3>1. n \in Nat
      BY ListingType
    <3>2. \A j \in 0 .. n : j # 0 => Tables(l)[j] = 2 * Len(l[j].nids)
      BY <3>1 DEF Tables
    <3> QED
      BY <3>2
  <2>2. SumsOf(w, n, base, Tables(l)) <=> w = B
    BY Zenon DEF SumsOf
  <2>3. SumsOf(w, n, base, Tables(l)) <=> w = A
    BY <2>1, <2>2, Zenon
  <2> QED
    BY <2>3, Zenon
<1>2. \E w : SumsOf(w, n, base, Tables(l))
  <2>1. n \in Nat /\ n + 1 \in 1 .. Len(l) + 1
    BY ListingType
  <2>2. base \in Nat
    BY <2>1, EntryOffsetType
  <2>3. Amounts(n, base, Tables(l))
    BY <2>1, <2>2, ListingType DEF Amounts
  <2> QED
    BY <2>3, SumsExist, Zenon
<1>3. SumsOf(v, n, base, Tables(l))
  <2> HIDE DEF n, base
  <2> QED
    BY <1>1, <1>2
<1>4. \A k \in 1 .. Len(l) + 1 : TableOffset(l, k) = v[k - 1]
  BY Zenon DEF TableOffset
<1> HIDE DEF v
<1> QED
  BY <1>3, <1>4 DEF TableSums

LEMMA TableOffsetType ==
  ASSUME NEW l, Listing(l)
  PROVE  /\ TableOffset(l, 1) = EntryOffset(l, Len(l) + 1)
         /\ \A k \in 1 .. Len(l) + 1 : TableOffset(l, k) \in Nat
         /\ \A k \in 1 .. Len(l) : TableOffset(l, k + 1) = TableOffset(l, k) + 2 * Len(l[k].nids)
         /\ \A k \in 1 .. Len(l) + 1 : \A i \in 1 .. k : TableOffset(l, i) <= TableOffset(l, k)
<1> DEFINE n == Len(l)
           base == EntryOffset(l, n + 1)
<1>1. n \in Nat /\ Tables(l) \in [1 .. n -> Nat] /\ base \in Nat
  <2>1. n \in Nat /\ n + 1 \in 1 .. Len(l) + 1
    BY ListingType
  <2> QED
    BY <2>1, ListingType, EntryOffsetType
<1>0. Amounts(n, base, Tables(l))
  BY <1>1 DEF Amounts
<1>2. PICK w : TableSums(l, w) /\ \A k \in 1 .. n + 1 : TableOffset(l, k) = w[k - 1]
  BY TableOffsets
<1>3. SumsOf(w, n, base, Tables(l))
  BY <1>2 DEF TableSums
<1> HIDE DEF base
<1>4. /\ w \in [0 .. n -> Nat] /\ w[0] = base
      /\ \A j \in 1 .. n : w[j] = w[j - 1] + 2 * Len(l[j].nids)
  <2>1. \A j \in 1 .. n : Tables(l)[j] = 2 * Len(l[j].nids)
    BY DEF Tables
  <2>2. /\ w \in [0 .. n -> Nat] /\ w[0] = base
        /\ \A j \in 1 .. n : w[j] = w[j - 1] + Tables(l)[j]
    <3>1. Totals(w, n, base, Tables(l))
      BY <1>0, <1>3, SumsType, Zenon
    <3> QED
      BY <3>1 DEF Totals
  <2> QED
    BY <2>1, <2>2
<1> HIDE DEF n
<1>5. TableOffset(l, 1) = base
  BY <1>1, <1>2, <1>4
<1>6. \A k \in 1 .. n + 1 : TableOffset(l, k) \in Nat
  BY <1>1, <1>2, <1>4
<1>7. ASSUME NEW k \in 1 .. n
      PROVE  TableOffset(l, k + 1) = TableOffset(l, k) + 2 * Len(l[k].nids)
  <2>1. k \in 1 .. n + 1 /\ k + 1 \in 1 .. n + 1 /\ (k + 1) - 1 = k
    BY <1>1
  <2> QED
    BY <1>2, <1>4, <2>1
<1>8. ASSUME NEW k \in 1 .. n + 1, NEW i \in 1 .. k
      PROVE  TableOffset(l, i) <= TableOffset(l, k)
  <2>1. i - 1 \in 0 .. n /\ k - 1 \in i - 1 .. n /\ i \in 1 .. n + 1
    BY <1>1
  <2>2. w[i - 1] <= w[k - 1]
    BY <1>0, <1>3, <2>1, SumsRise
  <2> QED
    BY <1>2, <2>1, <2>2
<1> QED
  BY <1>5, <1>6, <1>7, <1>8 DEF n, base

(* Where an entry says its tables are.                                     *)
LEMMA TablesAt ==
  ASSUME NEW l, Listing(l), NEW k \in 1 .. Len(l)
  PROVE  /\ NidsAt(l, k) \in Nat /\ AddrsAt(l, k) \in Nat
         /\ TableOffset(l, k) \in Nat /\ Base \in Nat \ {0}
<1>1. Len(l[k].nids) \in Nat /\ k \in 1 .. Len(l) + 1 /\ Base \in Nat \ {0}
  BY ListingType, ImportsAssumption
<1>2. TableOffset(l, k) \in Nat
  BY <1>1, TableOffsetType
<1> QED
  BY <1>1, <1>2 DEF NidsAt, AddrsAt

LEMMA EntryWordsAre ==
  ASSUME NEW l, Listing(l), NEW k \in 1 .. Len(l)
  PROVE  /\ EntryWords(l, k) \in Seq(Nat) /\ Len(EntryWords(l, k)) = l[k].size
         /\ EntryWords(l, k)[1] = l[k].size
         /\ l[k].size >= Short => EntryWords(l, k)[2] = Len(l[k].nids)
         /\ l[k].size >= Long => /\ EntryWords(l, k)[5] = l[k].lib
                                /\ EntryWords(l, k)[8] = NidsAt(l, k)
                                /\ EntryWords(l, k)[9] = AddrsAt(l, k)
         /\ l[k].size >= Short /\ ~(l[k].size >= Long) =>
              /\ EntryWords(l, k)[4] = l[k].lib
              /\ EntryWords(l, k)[6] = NidsAt(l, k)
              /\ EntryWords(l, k)[7] = AddrsAt(l, k)
<1> DEFINE z == l[k].size
           n == Len(l[k].nids)
           b == l[k].lib
           v == NidsAt(l, k)
           w == AddrsAt(l, k)
           o == Layout(z)
           e == EntryWords(l, k)
           word(j) == CASE j = 1 -> z [] j = 2 -> n [] j = o.lib -> b
                        [] j = o.nids -> v [] j = o.addrs -> w [] OTHER -> 0
<1>1. z \in Nat \ {0} /\ n \in Nat /\ b \in Nat /\ v \in Nat /\ w \in Nat
  BY ListingType, TablesAt
<1>2. e = [j \in 1 .. z |-> word(j)]
  BY Zenon DEF EntryWords
<1>3. \/ z >= Long /\ o.lib = 5 /\ o.nids = 8 /\ o.addrs = 9
      \/ ~(z >= Long) /\ o.lib = 4 /\ o.nids = 6 /\ o.addrs = 7
  BY DEF Layout
<1> HIDE DEF z, n, b, v, w, o, e
<1>4. \A j \in 1 .. z : word(j) \in Nat
  BY <1>1
<1>5. /\ word(1) = z /\ word(2) = n
      /\ z >= Long => word(5) = b /\ word(8) = v /\ word(9) = w
      /\ ~(z >= Long) => word(4) = b /\ word(6) = v /\ word(7) = w
  BY <1>3
<1> HIDE DEF word
<1>6. e \in Seq(Nat) /\ Len(e) = z /\ \A j \in 1 .. z : e[j] = word(j)
  BY <1>1, <1>2, <1>4
<1>7. e[1] = z
  BY <1>1, <1>5, <1>6
<1>8. ASSUME z >= Short
      PROVE  \A j \in 1 .. 9 : e[j] = word(j)
  BY <1>1, <1>6, <1>8 DEF Short
<1>9. z >= Short => e[2] = n
  BY <1>5, <1>8
<1>10. z >= Long => e[5] = b /\ e[8] = v /\ e[9] = w
  <2>1. z >= Long => z >= Short
    BY <1>1 DEF Short, Long
  <2> QED
    BY <1>5, <1>8, <2>1
<1>11. z >= Short /\ ~(z >= Long) => e[4] = b /\ e[6] = v /\ e[7] = w
  BY <1>5, <1>8
<1> QED
  BY <1>6, <1>7, <1>9, <1>10, <1>11, Zenon DEF z, n, b, v, w, e

(* How far a flattened sequence reaches after each of its parts. *)
Offsets(off, base, s) ==
  /\ base \in Nat /\ off[1] = base
  /\ \A k \in 1 .. Len(s) + 1 : off[k] \in Nat
  /\ \A k \in 1 .. Len(s) : off[k + 1] = off[k] + Len(s[k])

LEMMA FlattenReach ==
  ASSUME NEW S, NEW s \in Seq(Seq(S)), NEW g, Flattens(g, s, S),
         NEW base, NEW off, Offsets(off, base, s), NEW k \in 1 .. Len(s) + 1
  PROVE  off[k] = base + Len(g[k - 1])
<1> DEFINE n == Len(s)
           T == { m \in Nat : m <= n => off[m + 1] = base + Len(g[m]) }
<1>1. n \in Nat /\ g \in [0 .. n -> Seq(S)] /\ g[0] = << >>
  BY DEF Flattens
<1>0. /\ base \in Nat /\ off[1] = base
      /\ \A m \in 1 .. n + 1 : off[m] \in Nat
      /\ \A m \in 1 .. n : off[m + 1] = off[m] + Len(s[m])
  BY DEF Offsets
<1>2. 0 \in T
  <2>1. Len(g[0]) = 0 /\ 1 \in 1 .. n + 1 /\ 0 + 1 = 1
    BY <1>1, EmptySeq
  <2>2. base + 0 = base
    BY <1>0
  <2>3. off[0 + 1] = base + Len(g[0])
    BY <1>0, <2>1, <2>2
  <2> QED
    BY <2>3
<1>3. ASSUME NEW m \in Nat, m \in T
      PROVE  m + 1 \in T
  <2> SUFFICES ASSUME m + 1 <= n PROVE off[(m + 1) + 1] = base + Len(g[m + 1])
    OBVIOUS
  <2>1. m + 1 \in 1 .. n /\ (m + 1) - 1 = m /\ m \in 0 .. n
    BY <1>1
  <2>2. off[m + 1] = base + Len(g[m]) /\ off[(m + 1) + 1] = off[m + 1] + Len(s[m + 1])
    BY <1>0, <1>1, <1>3, <2>1
  <2>3. g[m + 1] = g[m] \o s[m + 1] /\ g[m] \in Seq(S) /\ s[m + 1] \in Seq(S)
    <3>1. g[m] \in Seq(S) /\ s[m + 1] \in Seq(S)
      BY <1>1, <2>1, ElementOfSeq
    <3>2. g[m + 1] = g[(m + 1) - 1] \o s[m + 1]
      BY <2>1, Zenon DEF Flattens
    <3> QED
      BY <2>1, <3>1, <3>2, Zenon
  <2> DEFINE a == g[m]
             b == s[m + 1]
             c == g[m + 1]
  <2>4. a \in Seq(S) /\ b \in Seq(S) /\ c = a \o b
    BY <2>3
  <2> HIDE DEF a, b, c
  <2>5. Len(c) = Len(a) + Len(b) /\ Len(a) \in Nat /\ Len(b) \in Nat
    <3>1. Joint(c, a, b, S)
      BY <2>4, Joined
    <3> QED
      BY <3>1 DEF Joint
  <2>6. off[m + 1] = base + Len(a) /\ off[(m + 1) + 1] = off[m + 1] + Len(b)
    BY <2>2 DEF a, b
  <2>7. off[(m + 1) + 1] = base + Len(c)
    BY <1>0, <2>5, <2>6
  <2> QED
    BY <2>7 DEF c
<1>4. Nat \subseteq T
  <2> HIDE DEF T
  <2> QED
    BY <1>2, <1>3, SetInduction
<1>5. k - 1 \in Nat /\ k - 1 <= n /\ (k - 1) + 1 = k
  BY <1>1
<1>6. k - 1 \in T
  BY <1>4, <1>5
<1> QED
  BY <1>5, <1>6

(* The file holds each entry at its offset, and each table at its.         *)
LEMMA FileWordsAre ==
  ASSUME NEW l, Listing(l), NEW k \in 1 .. Len(l)
  PROVE  /\ \A j \in 1 .. l[k].size :
              FileWords(l)[EntryOffset(l, k) + j] = EntryWords(l, k)[j]
         /\ \A j \in 1 .. Len(l[k].nids) :
              /\ FileWords(l)[TableOffset(l, k) + j] = l[k].nids[j]
              /\ FileWords(l)[TableOffset(l, k) + Len(l[k].nids) + j] = l[k].addrs[j]
<1> DEFINE n  == Len(l)
           H  == [i \in 1 .. HeaderLen |-> 0]
           es == [i \in 1 .. n |-> EntryWords(l, i)]
           ts == [i \in 1 .. n |-> l[i].nids \o l[i].addrs]
           E  == FlattenSeq(es)
           R  == FlattenSeq(ts)
           eo == [i \in 1 .. n + 1 |-> EntryOffset(l, i)]
           to == [i \in 1 .. n + 1 |-> TableOffset(l, i)]
<1>1. n \in Nat /\ k \in 1 .. n /\ k \in 1 .. n + 1 /\ n + 1 \in 1 .. n + 1
  BY ListingType
<1>2. H \in Seq(Nat) /\ Len(H) = HeaderLen /\ HeaderLen \in Nat
  BY DEF HeaderLen
<1>3. es \in Seq(Seq(Nat)) /\ Len(es) = n /\ \A i \in 1 .. n : es[i] = EntryWords(l, i)
  <2>1. \A i \in 1 .. n : EntryWords(l, i) \in Seq(Nat)
    BY EntryWordsAre
  <2> QED
    BY <1>1, <2>1
<1>4. \A i \in 1 .. n : l[i].nids \o l[i].addrs \in Seq(Nat)
                        /\ Len(l[i].nids \o l[i].addrs) = 2 * Len(l[i].nids)
  <2> TAKE i \in 1 .. n
  <2> DEFINE a == l[i].nids
             b == l[i].addrs
             c == a \o b
  <2>1. a \in Seq(Nat) /\ b \in Seq(Nat) /\ Len(b) = Len(a)
    BY ListingType
  <2> HIDE DEF a, b
  <2>2. c \in Seq(Nat) /\ Len(c) = Len(a) + Len(b) /\ Len(a) \in Nat /\ Len(b) \in Nat
    <3>1. Joint(c, a, b, Nat)
      BY <2>1, Joined
    <3> QED
      BY <3>1 DEF Joint
  <2> HIDE DEF c
  <2>3. c \in Seq(Nat) /\ Len(c) = 2 * Len(a)
    BY <2>1, <2>2
  <2> QED
    BY <2>3, Zenon DEF a, b, c
<1>5. ts \in Seq(Seq(Nat)) /\ Len(ts) = n /\ \A i \in 1 .. n : ts[i] = l[i].nids \o l[i].addrs
  <2> DEFINE c(i) == l[i].nids \o l[i].addrs
  <2>1. \A i \in 1 .. n : c(i) \in Seq(Nat)
    BY <1>4, Zenon
  <2> HIDE DEF c
  <2>2. ts = [i \in 1 .. n |-> c(i)]
    BY Zenon DEF c
  <2> HIDE DEF ts
  <2>3. ts \in Seq(Seq(Nat)) /\ Len(ts) = n /\ \A i \in 1 .. n : ts[i] = c(i)
    BY <1>1, <2>1, <2>2
  <2> QED
    BY <2>3, Zenon DEF c
<1>6. PICK g : Flattens(g, es, Nat)
  BY <1>3, FlattenIs
<1>7. PICK h : Flattens(h, ts, Nat)
  BY <1>5, FlattenIs
<1>8. E = g[n] /\ E \in Seq(Nat) /\ R = h[n] /\ R \in Seq(Nat)
  <2> HIDE DEF es, ts
  <2> QED
    BY <1>3, <1>5, <1>6, <1>7, FlattenLast
<1>9. FileWords(l) = (H \o E) \o R
  BY Zenon DEF FileWords
<1> HIDE DEF H, es, ts
<1>10. \A i \in 1 .. n + 1 : EntryOffset(l, i) = HeaderLen + Len(g[i - 1])
  <2>1. /\ eo[1] = HeaderLen /\ \A i \in 1 .. n + 1 : eo[i] \in Nat
        /\ \A i \in 1 .. n : eo[i + 1] = eo[i] + l[i].size
    <3>1. \A i \in 1 .. n : i \in 1 .. n + 1 /\ i + 1 \in 1 .. n + 1
      BY <1>1
    <3>2. 1 \in 1 .. n + 1
      BY <1>1
    <3> QED
      BY <3>1, <3>2, EntryOffsetType
  <2>2. \A i \in 1 .. n : Len(es[i]) = l[i].size
    BY <1>3, EntryWordsAre
  <2>3. \A i \in 1 .. n + 1 : eo[i] = EntryOffset(l, i)
    OBVIOUS
  <2> HIDE DEF eo
  <2>4. \A i \in 1 .. Len(es) + 1 : eo[i] = HeaderLen + Len(g[i - 1])
    <3>1. Offsets(eo, HeaderLen, es)
      BY <1>2, <1>3, <2>1, <2>2 DEF Offsets
    <3> QED
      BY <1>3, <1>6, <3>1, FlattenReach
  <2> QED
    BY <1>3, <2>3, <2>4
<1> DEFINE end == EntryOffset(l, n + 1)
<1>11. end \in Nat /\ end = HeaderLen + Len(E)
  <2>1. (n + 1) - 1 = n
    BY <1>1
  <2>2. end \in Nat
    BY <1>1, EntryOffsetType
  <2>3. end = HeaderLen + Len(g[(n + 1) - 1])
    BY <1>1, <1>10
  <2> HIDE DEF end, E
  <2> QED
    BY <1>8, <2>1, <2>2, <2>3
<1>12. \A i \in 1 .. n + 1 : TableOffset(l, i) = end + Len(h[i - 1])
  <2>1. /\ to[1] = end /\ \A i \in 1 .. n + 1 : to[i] \in Nat
        /\ \A i \in 1 .. n : to[i + 1] = to[i] + 2 * Len(l[i].nids)
    <3>1. \A i \in 1 .. n : i \in 1 .. n + 1 /\ i + 1 \in 1 .. n + 1
      BY <1>1
    <3>2. 1 \in 1 .. n + 1
      BY <1>1
    <3> QED
      BY <3>1, <3>2, TableOffsetType
  <2>2. \A i \in 1 .. n : Len(ts[i]) = 2 * Len(l[i].nids)
    BY <1>4, <1>5, Zenon
  <2>3. \A i \in 1 .. n + 1 : to[i] = TableOffset(l, i)
    OBVIOUS
  <2> HIDE DEF to, end
  <2>4. \A i \in 1 .. Len(ts) + 1 : to[i] = end + Len(h[i - 1])
    <3>1. Offsets(to, end, ts)
      BY <1>5, <1>11, <2>1, <2>2 DEF Offsets
    <3> QED
      BY <1>5, <1>7, <3>1, FlattenReach
  <2> QED
    BY <1>5, <2>3, <2>4
<1> HIDE DEF E, R, end
<1> DEFINE HE == H \o E
           W  == HE \o R
<1>13. HE = H \o E /\ W = HE \o R
  OBVIOUS
<1> HIDE DEF HE, W
<1>14. /\ HE \in Seq(Nat) /\ Len(HE) = end
       /\ \A j \in 1 .. Len(E) : HE[HeaderLen + j] = E[j]
  <2>1. HE \in Seq(Nat) /\ Len(HE) = Len(H) + Len(E) /\ \A j \in 1 .. Len(E) : HE[Len(H) + j] = E[j]
    <3>1. Joint(HE, H, E, Nat)
      BY <1>2, <1>8, <1>13, Joined
    <3> QED
      BY <3>1 DEF Joint
  <2> QED
    BY <1>2, <1>11, <2>1
<1>19. /\ \A j \in 1 .. end : W[j] = HE[j]
       /\ \A j \in 1 .. Len(R) : W[end + j] = R[j]
       /\ Len(E) \in Nat /\ Len(R) \in Nat
  <2>1. /\ \A j \in 1 .. Len(HE) : W[j] = HE[j]
        /\ \A j \in 1 .. Len(R) : W[Len(HE) + j] = R[j]
        /\ Len(R) \in Nat
    <3>1. Joint(W, HE, R, Nat)
      BY <1>8, <1>13, <1>14, Joined
    <3> QED
      BY <3>1 DEF Joint
  <2> QED
    BY <1>8, <1>14, <2>1, LenProperties
<1>15. FileWords(l) = W
  BY <1>9, <1>13, Zenon
<1>16. ASSUME NEW j \in 1 .. l[k].size
       PROVE  W[EntryOffset(l, k) + j] = EntryWords(l, k)[j]
  <2>1. es[k] = EntryWords(l, k) /\ j \in 1 .. Len(es[k])
    BY <1>1, <1>3, EntryWordsAre
  <2>2. Len(g[k - 1]) + j \in 1 .. Len(E) /\ E[Len(g[k - 1]) + j] = EntryWords(l, k)[j]
    BY <1>1, <1>3, <1>6, <2>1, FlattenAt DEF E
  <2>3. EntryOffset(l, k) = HeaderLen + Len(g[k - 1]) /\ Len(g[k - 1]) \in Nat
    <3>1. g[k - 1] \in Seq(Nat)
      BY <1>1, <1>3, <1>6, FlattenPart
    <3> QED
      BY <1>1, <1>10, <3>1, LenProperties
  <2> DEFINE q == Len(g[k - 1]) + j
  <2>4. EntryOffset(l, k) + j = HeaderLen + q
    BY <1>2, <2>3
  <2> HIDE DEF q
  <2>5. q \in 1 .. Len(E) /\ HE[HeaderLen + q] = EntryWords(l, k)[j]
    BY <1>14, <2>2 DEF q
  <2>6. HeaderLen + q \in 1 .. end
    BY <1>2, <1>11, <1>19, <2>5
  <2> QED
    BY <1>19, <2>4, <2>5, <2>6
<1>17. ASSUME NEW j \in 1 .. Len(ts[k])
       PROVE  W[TableOffset(l, k) + j] = ts[k][j]
  <2>2. Len(h[k - 1]) + j \in 1 .. Len(R) /\ R[Len(h[k - 1]) + j] = ts[k][j]
    BY <1>1, <1>5, <1>7, FlattenAt DEF R
  <2>3. TableOffset(l, k) = end + Len(h[k - 1]) /\ Len(h[k - 1]) \in Nat
    <3>1. h[k - 1] \in Seq(Nat)
      BY <1>1, <1>5, <1>7, FlattenPart
    <3> QED
      BY <1>1, <1>12, <3>1, LenProperties
  <2> DEFINE q == Len(h[k - 1]) + j
  <2>4. TableOffset(l, k) + j = end + q
    <3>1. j \in Int
      BY <1>1, <1>4, <1>5
    <3> QED
      BY <1>11, <2>3, <3>1
  <2> HIDE DEF q
  <2>5. q \in 1 .. Len(R) /\ W[end + q] = ts[k][j]
    BY <1>19, <2>2 DEF q
  <2> QED
    BY <2>4, <2>5
<1>18. ASSUME NEW j \in 1 .. Len(l[k].nids)
       PROVE  /\ W[TableOffset(l, k) + j] = l[k].nids[j]
              /\ W[TableOffset(l, k) + Len(l[k].nids) + j] = l[k].addrs[j]
  <2> DEFINE a == l[k].nids
             b == l[k].addrs
             c == ts[k]
  <2>1. a \in Seq(Nat) /\ b \in Seq(Nat) /\ Len(b) = Len(a) /\ c = a \o b
    BY <1>1, <1>5, ListingType
  <2>2. j \in 1 .. Len(a)
    OBVIOUS
  <2> HIDE DEF a, b, c
  <2>3. /\ Len(c) = Len(a) + Len(b) /\ Len(a) \in Nat /\ c[j] = a[j] /\ c[Len(a) + j] = b[j]
    <3>1. Joint(c, a, b, Nat)
      BY <2>1, Joined
    <3>2. /\ Len(c) = Len(a) + Len(b) /\ Len(a) \in Nat
          /\ \A i \in 1 .. Len(a) : c[i] = a[i]
          /\ \A i \in 1 .. Len(b) : c[Len(a) + i] = b[i]
      BY <3>1 DEF Joint
    <3> QED
      BY <2>1, <2>2, <3>2
  <2>4. j \in 1 .. Len(c) /\ Len(a) + j \in 1 .. Len(c)
    BY <2>1, <2>2, <2>3
  <2>5. W[TableOffset(l, k) + j] = a[j] /\ W[TableOffset(l, k) + (Len(a) + j)] = b[j]
    BY <1>17, <2>3, <2>4 DEF c
  <2>6. TableOffset(l, k) + Len(a) + j = TableOffset(l, k) + (Len(a) + j)
    <3>1. TableOffset(l, k) \in Nat
      BY <1>1, TableOffsetType
    <3> QED
      BY <2>2, <2>3, <3>1
  <2>7. W[TableOffset(l, k) + j] = a[j] /\ W[TableOffset(l, k) + Len(a) + j] = b[j]
    BY <2>5, <2>6, Zenon
  <2> QED
    BY <2>7, Zenon DEF a, b
<1> QED
  BY <1>15, <1>16, <1>18, Zenon

--------------------------------------------------------------------------------
(* The search of the sorted stubs, and what sorting keeps.                 *)

Stub == [addr : Nat, lib : Nat, nid : Nat]

StubList == stubs \in Seq(Stub)

Mid(lo, hi) == lo + ((hi - lo) \div 2)

Spans == (0 .. Len(stubs)) \X (0 .. Len(stubs))

Searches(f, a) == f = [r \in Spans |-> Halve(f, a, r[1], r[2])]

(* Found at the middle, or by the search of one half. *)
AtMiddle(v, a, mid)       == stubs[mid + 1].addr = a /\ v = mid + 1
AboveIt(v, f, a, mid, hi) == stubs[mid + 1].addr < a /\ v = f[<< mid + 1, hi >>]
BelowIt(v, f, a, lo, mid) == stubs[mid + 1].addr > a /\ v = f[<< lo, mid >>]

Halved(v, f, a, lo, hi) ==
  \/ AtMiddle(v, a, Mid(lo, hi))
  \/ AboveIt(v, f, a, Mid(lo, hi), hi)
  \/ BelowIt(v, f, a, lo, Mid(lo, hi))

LEMMA MidIn ==
  ASSUME NEW lo \in Nat, NEW hi \in Nat, lo < hi
  PROVE  Mid(lo, hi) \in Nat /\ lo <= Mid(lo, hi) /\ Mid(lo, hi) < hi
BY DEF Mid

LEMMA HalveEmpty ==
  ASSUME NEW lo \in Nat, NEW hi \in Nat, lo >= hi, NEW a, NEW f
  PROVE  Halve(f, a, lo, hi) = 0
<1>1. ~(lo < hi)
  OBVIOUS
<1> QED
  BY <1>1 DEF Halve

LEMMA HalveIs ==
  ASSUME NEW lo \in Nat, NEW hi \in 0 .. Len(stubs), lo < hi, NEW a \in Nat, NEW f, StubList
  PROVE  Halved(Halve(f, a, lo, hi), f, a, lo, hi)
<1> DEFINE mid == Mid(lo, hi)
           b == stubs[mid + 1].addr
<1>1. Halve(f, a, lo, hi) = CASE lo >= hi           -> 0
                              [] lo < hi /\ b = a -> mid + 1
                              [] lo < hi /\ b < a -> f[<< mid + 1, hi >>]
                              [] lo < hi /\ b > a -> f[<< lo, mid >>]
  BY DEF Halve, Mid
<1>2. b \in Nat
  <2>1. mid + 1 \in 1 .. Len(stubs)
    BY MidIn
  <2> HIDE DEF mid
  <2>2. stubs[mid + 1] \in Stub
    BY <2>1, ElementOfSeq DEF StubList
  <2> QED
    BY <2>2 DEF Stub
<1>3. ~(lo >= hi)
  OBVIOUS
<1>4. Halved(Halve(f, a, lo, hi), f, a, lo, hi) <=>
        \/ b = a /\ Halve(f, a, lo, hi) = mid + 1
        \/ b < a /\ Halve(f, a, lo, hi) = f[<< mid + 1, hi >>]
        \/ b > a /\ Halve(f, a, lo, hi) = f[<< lo, mid >>]
  BY Zenon DEF Halved, AtMiddle, AboveIt, BelowIt
<1> HIDE DEF b, mid
<1>5. CASE b = a
  BY <1>1, <1>2, <1>3, <1>4, <1>5
<1>6. CASE b < a
  BY <1>1, <1>2, <1>3, <1>4, <1>6
<1>7. CASE b > a
  BY <1>1, <1>2, <1>3, <1>4, <1>7
<1> QED
  BY <1>2, <1>5, <1>6, <1>7

LEMMA SpanHalves ==
  ASSUME NEW lo \in 0 .. Len(stubs), NEW hi \in 0 .. Len(stubs), lo < hi, StubList
  PROVE  /\ << Mid(lo, hi) + 1, hi >> \in Spans /\ << lo, Mid(lo, hi) >> \in Spans
         /\ Mid(lo, hi) + 1 \in 0 .. Len(stubs) /\ Mid(lo, hi) \in 0 .. Len(stubs)
         /\ Mid(lo, hi) + 1 \in 1 .. Len(stubs)
<1> DEFINE mid == Mid(lo, hi)
<1>1. mid \in Nat /\ lo <= mid /\ mid < hi
  BY MidIn
<1>2. Len(stubs) \in Nat
  BY DEF StubList
<1> HIDE DEF mid
<1>3. mid + 1 \in 0 .. Len(stubs) /\ mid \in 0 .. Len(stubs) /\ mid + 1 \in 1 .. Len(stubs)
  BY <1>1, <1>2
<1>4. << mid + 1, hi >> \in Spans /\ << lo, mid >> \in Spans
  BY <1>3 DEF Spans
<1> QED
  BY <1>3, <1>4 DEF mid

(* The search exists: n rounds of it decide every span of n stubs. *)
LEMMA SearchExists ==
  ASSUME StubList, NEW a \in Nat
  PROVE  \E f : Searches(f, a)
<1> DEFINE n == Len(stubs)
           S == [Spans -> 0 .. n]
           base == [r \in Spans |-> 0]
           next(f) == [r \in Spans |-> Halve(f, a, r[1], r[2])]
           step == [k \in Nat |-> [f \in S |-> next(f)]]
<1>1. n \in Nat
  BY DEF StubList
<1>2. base \in S
  BY <1>1
<1>0. \A r \in Spans : r[1] \in 0 .. n /\ r[2] \in 0 .. n /\ r[1] \in Nat /\ r[2] \in Nat
                     /\ r = << r[1], r[2] >>
  BY DEF Spans
<1>3. ASSUME NEW f \in S
      PROVE  next(f) \in S
  <2>1. ASSUME NEW r \in Spans
        PROVE  Halve(f, a, r[1], r[2]) \in 0 .. n
    <3> DEFINE lo == r[1]
               hi == r[2]
    <3>1. lo \in 0 .. n /\ hi \in 0 .. n /\ lo \in Nat /\ hi \in Nat
      BY <1>0
    <3> HIDE DEF lo, hi
    <3>2. CASE lo >= hi
      <4>1. Halve(f, a, lo, hi) = 0
        BY <3>1, <3>2, HalveEmpty
      <4> QED
        BY <1>1, <4>1 DEF lo, hi
    <3>3. CASE lo < hi
      <4> DEFINE mid == Mid(lo, hi)
      <4>1. Halved(Halve(f, a, lo, hi), f, a, lo, hi)
        BY <3>1, <3>3, HalveIs
      <4>2. << mid + 1, hi >> \in Spans /\ << lo, mid >> \in Spans /\ mid + 1 \in 0 .. n
        BY <3>1, <3>3, SpanHalves
      <4>3. \/ Halve(f, a, lo, hi) = mid + 1 \/ Halve(f, a, lo, hi) = f[<< mid + 1, hi >>]
            \/ Halve(f, a, lo, hi) = f[<< lo, mid >>]
        BY <4>1, Zenon DEF Halved, AtMiddle, AboveIt, BelowIt
      <4> HIDE DEF mid
      <4>4. f[<< mid + 1, hi >>] \in 0 .. n /\ f[<< lo, mid >>] \in 0 .. n
        BY <4>2
      <4>5. Halve(f, a, lo, hi) \in 0 .. n
        BY <4>2, <4>3, <4>4, Zenon
      <4> QED
        BY <4>5 DEF lo, hi
    <3> QED
      BY <3>1, <3>2, <3>3
  <2> QED
    BY <2>1
<1>4. step \in [Nat -> [S -> S]]
  <2> HIDE DEF next, S
  <2> QED
    BY <1>3
<1>5. PICK G : Recurses(G, S, base, step, n + 1)
  <2>1. n + 1 \in Nat
    BY <1>1
  <2> HIDE DEF S, base, step
  <2> QED
    BY <1>2, <1>4, <2>1, Recursion
<1>6. /\ G \in [0 .. n + 1 -> S] /\ G[0] = base
      /\ \A k \in 1 .. n + 1 : G[k] = step[k][G[k - 1]]
  BY <1>5 DEF Recurses
<1>7. \A k \in 0 .. n : G[k] \in S /\ G[k + 1] = next(G[k])
  <2> TAKE k \in 0 .. n
  <2>1. k + 1 \in 1 .. n + 1 /\ (k + 1) - 1 = k /\ k \in 0 .. n + 1 /\ k + 1 \in Nat
    BY <1>1
  <2> HIDE DEF S, next
  <2>2. G[k] \in S
    BY <1>6, <2>1
  <2>3. step[k + 1][G[k]] = next(G[k])
    BY <2>1, <2>2
  <2> QED
    BY <1>6, <2>1, <2>2, <2>3
<1> HIDE DEF S, step
<1>15. \A k \in 0 .. n : \A r \in Spans : G[k + 1][r] = Halve(G[k], a, r[1], r[2])
  BY <1>7
<1> HIDE DEF next
<1> DEFINE Same(k, r) == G[k + 1][r] = G[k][r]
           T == { k \in Nat : k <= n => \A r \in Spans : r[2] - r[1] <= k => Same(k, r) }
<1>8. 0 \in T
  <2>1. ASSUME NEW r \in Spans, r[2] - r[1] <= 0
        PROVE  Same(0, r)
    <3>1. r[1] >= r[2]
      BY <1>0, <2>1
    <3>2. Halve(G[0], a, r[1], r[2]) = 0
      BY <1>0, <3>1, HalveEmpty
    <3>3. 0 \in 0 .. n
      BY <1>1
    <3>4. G[0][r] = 0
      BY <1>6
    <3> QED
      BY <1>15, <3>2, <3>3, <3>4
  <2> HIDE DEF Same
  <2> QED
    BY <2>1
<1>9. ASSUME NEW k \in Nat, k \in T
      PROVE  k + 1 \in T
  <2> SUFFICES ASSUME k + 1 <= n, NEW r \in Spans, r[2] - r[1] <= k + 1
               PROVE  Same(k + 1, r)
    <3> HIDE DEF Same
    <3> QED
      OBVIOUS
  <2> DEFINE lo == r[1]
             hi == r[2]
             g == G[k + 1]
             f == G[k]
  <2>2. k \in 0 .. n /\ k + 1 \in 0 .. n /\ lo \in 0 .. n /\ hi \in 0 .. n
        /\ lo \in Nat /\ hi \in Nat /\ hi - lo <= k + 1 /\ k <= n
    BY <1>0, <1>1
  <2>3. G[k + 1][r] = Halve(f, a, lo, hi) /\ G[(k + 1) + 1][r] = Halve(g, a, lo, hi)
    BY <1>15, <2>2
  <2>4. \A q \in Spans : q[2] - q[1] <= k => g[q] = f[q]
    BY <1>9, <2>2, Zenon
  <2> SUFFICES Halve(g, a, lo, hi) = Halve(f, a, lo, hi)
    BY <2>3, Zenon
  <2> HIDE DEF lo, hi, g, f
  <2>5. CASE lo >= hi
    <3>1. Halve(f, a, lo, hi) = 0 /\ Halve(g, a, lo, hi) = 0
      BY <2>2, <2>5, HalveEmpty
    <3> QED
      BY <3>1
  <2>6. CASE lo < hi
    <3> DEFINE mid == Mid(lo, hi)
               p == << mid + 1, hi >>
               q == << lo, mid >>
    <3>1. Halved(Halve(f, a, lo, hi), f, a, lo, hi) /\ Halved(Halve(g, a, lo, hi), g, a, lo, hi)
      BY <2>2, <2>6, HalveIs
    <3>2. p \in Spans /\ q \in Spans
      BY <2>2, <2>6, SpanHalves
    <3>3. mid \in Nat /\ lo <= mid /\ mid < hi
      BY <2>2, <2>6, MidIn
    <3>4. stubs[mid + 1].addr \in Nat
      <4>1. mid + 1 \in 1 .. Len(stubs)
        BY <2>2, <2>6, SpanHalves
      <4>2. stubs[mid + 1] \in Stub
        BY <4>1, ElementOfSeq DEF StubList
      <4> QED
        BY <4>2 DEF Stub
    <3> DEFINE b == stubs[mid + 1].addr
               x == Halve(f, a, lo, hi)
               y == Halve(g, a, lo, hi)
    <3>5. /\ (b = a /\ x = mid + 1) \/ (b < a /\ x = f[p]) \/ (b > a /\ x = f[q])
          /\ (b = a /\ y = mid + 1) \/ (b < a /\ y = g[p]) \/ (b > a /\ y = g[q])
      BY <3>1, Zenon DEF Halved, AtMiddle, AboveIt, BelowIt
    <3> HIDE DEF mid
    <3>6. p[2] - p[1] <= k /\ q[2] - q[1] <= k
      BY <2>2, <3>3
    <3> HIDE DEF p, q
    <3>7. f[p] = g[p] /\ f[q] = g[q]
      BY <2>4, <3>2, <3>6, Zenon
    <3>8. b \in Nat
      BY <3>4
    <3> HIDE DEF b, x, y
    <3>9. x = y
      BY <3>5, <3>7, <3>8
    <3> QED
      BY <3>9 DEF x, y
  <2> QED
    BY <2>2, <2>5, <2>6
<1>10. Nat \subseteq T
  <2> HIDE DEF T
  <2> QED
    BY <1>8, <1>9, SetInduction
<1>11. \A r \in Spans : G[n + 1][r] = G[n][r]
  <2>1. \A r \in Spans : r[2] - r[1] <= n
    BY <1>0, <1>1
  <2>2. n \in T /\ n <= n
    BY <1>1, <1>10
  <2> QED
    BY <2>1, <2>2, Zenon
<1>12. n \in 0 .. n /\ G[n] \in S
  BY <1>1, <1>7
<1> DEFINE f == G[n]
<1>13. \A r \in Spans : f[r] = Halve(f, a, r[1], r[2])
  BY <1>11, <1>12, <1>15
<1>14. f = [r \in Spans |-> f[r]]
  BY <1>12 DEF S
<1> HIDE DEF f
<1>16. f = [r \in Spans |-> Halve(f, a, r[1], r[2])]
  BY <1>13, <1>14
<1> QED
  BY <1>16, Zenon DEF Searches

Found(a, lo, hi, v) ==
  /\ v \in 0 .. hi
  /\ v # 0 => v > lo /\ stubs[v].addr = a
  /\ v = 0 => \A i \in lo + 1 .. hi : stubs[i].addr # a

(* Each half of a span that misses the middle is where a stub may be. *)
LEMMA SearchFinds ==
  ASSUME StubList, Sorted(stubs), NEW a \in Nat, NEW f, Searches(f, a),
         NEW lo \in 0 .. Len(stubs), NEW hi \in 0 .. Len(stubs)
  PROVE  Found(a, lo, hi, f[<< lo, hi >>])
<1> DEFINE n == Len(stubs)
           Holds(i, j) == Found(a, i, j, f[<< i, j >>])
           T == { k \in Nat : \A i, j \in 0 .. n : j - i <= k => Holds(i, j) }
<1>1. n \in Nat /\ \A i \in 1 .. n : stubs[i].addr \in Nat
  <2>1. \A i \in 1 .. n : stubs[i] \in Stub
    BY ElementOfSeq DEF StubList
  <2>2. n \in Nat
    BY DEF StubList
  <2> QED
    BY <2>1, <2>2 DEF Stub
<1>2. \A i, j \in 1 .. n : i < j => stubs[i].addr <= stubs[j].addr
  BY DEF Sorted
<1>3. \A i, j \in 0 .. n : f[<< i, j >>] = Halve(f, a, i, j)
  <2>1. \A r \in Spans : f[r] = Halve(f, a, r[1], r[2])
    <3>1. f = [r \in Spans |-> Halve(f, a, r[1], r[2])]
      BY Zenon DEF Searches
    <3> QED
      BY <3>1, Zenon
  <2> TAKE i, j \in 0 .. n
  <2>2. << i, j >> \in Spans /\ << i, j >>[1] = i /\ << i, j >>[2] = j
    BY DEF Spans
  <2> QED
    BY <2>1, <2>2
<1>5. ASSUME NEW i \in 0 .. n, NEW j \in 0 .. n, i >= j
      PROVE  Holds(i, j)
  <2>1. f[<< i, j >>] = 0
    BY <1>1, <1>3, <1>5, HalveEmpty
  <2>2. i + 1 .. j = {}
    BY <1>1, <1>5
  <2>3. Found(a, i, j, 0)
    BY <1>1, <2>2 DEF Found
  <2> QED
    BY <2>1, <2>3
<1>6. 0 \in T
  <2> HIDE DEF Holds
  <2> QED
    BY <1>1, <1>5
<1>7. ASSUME NEW k \in Nat, k \in T
      PROVE  k + 1 \in T
  <2> SUFFICES ASSUME NEW i \in 0 .. n, NEW j \in 0 .. n, j - i <= k + 1, i < j
               PROVE  Holds(i, j)
    <3> HIDE DEF Holds
    <3> QED
      BY <1>1, <1>5
  <2> DEFINE v == f[<< i, j >>]
             mid == Mid(i, j)
             b == f[<< mid + 1, j >>]
             c == f[<< i, mid >>]
  <2>0. i \in Nat /\ j \in Nat /\ i \in 0 .. Len(stubs) /\ j \in 0 .. Len(stubs)
    BY <1>1
  <2>1. Halved(v, f, a, i, j)
    <3>1. Halved(Halve(f, a, i, j), f, a, i, j)
      BY <2>0, HalveIs
    <3>2. v = Halve(f, a, i, j)
      BY <1>3
    <3> QED
      BY <3>1, <3>2, Zenon
  <2>2. AtMiddle(v, a, mid) \/ AboveIt(v, f, a, mid, j) \/ BelowIt(v, f, a, i, mid)
    BY <2>1, Zenon DEF Halved
  <2>3. i \in Nat /\ j \in Nat /\ mid \in Nat /\ i <= mid /\ mid < j /\ j <= n
    BY <1>1, <2>0, MidIn
  <2>4. mid + 1 \in 0 .. n /\ mid \in 0 .. n /\ mid + 1 \in 1 .. n
    BY <2>0, SpanHalves
  <2> HIDE DEF mid
  <2>5. Found(a, mid + 1, j, b) /\ Found(a, i, mid, c)
    <3>1. j - (mid + 1) <= k /\ mid - i <= k
      BY <2>3
    <3>2. Holds(mid + 1, j) /\ Holds(i, mid)
      <4> HIDE DEF Holds
      <4> QED
        BY <1>7, <2>4, <3>1
    <3> QED
      BY <3>2
  <2>6. CASE AtMiddle(v, a, mid)
    <3> HIDE DEF v
    <3>1. v = mid + 1 /\ stubs[mid + 1].addr = a
      BY <2>6 DEF AtMiddle
    <3>2. v \in 0 .. j /\ v # 0 /\ v > i /\ stubs[v].addr = a
      BY <2>3, <3>1
    <3>3. Found(a, i, j, v)
      BY <3>2 DEF Found
    <3> QED
      BY <3>3 DEF v
  <2>7. CASE AboveIt(v, f, a, mid, j)
    <3>0. stubs[mid + 1].addr < a /\ v = b
      BY <2>7, Zenon DEF AboveIt
    <3> HIDE DEF v, b
    <3>1. \A q \in i + 1 .. mid + 1 : stubs[q].addr # a
      <4> TAKE q \in i + 1 .. mid + 1
      <4>1. q \in 1 .. n /\ (q < mid + 1 \/ q = mid + 1)
        BY <1>1, <2>3
      <4>2. stubs[q].addr <= stubs[mid + 1].addr
        BY <1>1, <1>2, <2>4, <4>1
      <4> QED
        BY <1>1, <2>4, <3>0, <4>1, <4>2
    <3>2. /\ b \in 0 .. j /\ (b # 0 => b > mid + 1 /\ stubs[b].addr = a)
          /\ (b = 0 => \A q \in (mid + 1) + 1 .. j : stubs[q].addr # a)
      BY <2>5 DEF Found
    <3>3. b # 0 => b > i
      BY <2>3, <3>2
    <3>4. b = 0 => \A q \in i + 1 .. j : stubs[q].addr # a
      <4> SUFFICES ASSUME b = 0, NEW q \in i + 1 .. j PROVE stubs[q].addr # a
        OBVIOUS
      <4>1. q \in i + 1 .. mid + 1 \/ q \in (mid + 1) + 1 .. j
        BY <2>3
      <4> QED
        BY <3>1, <3>2, <4>1
    <3>5. Found(a, i, j, b)
      BY <3>2, <3>3, <3>4 DEF Found
    <3> QED
      BY <3>0, <3>5, Zenon DEF v
  <2>8. CASE BelowIt(v, f, a, i, mid)
    <3>0. stubs[mid + 1].addr > a /\ v = c
      BY <2>8, Zenon DEF BelowIt
    <3> HIDE DEF v, c
    <3>1. \A q \in mid + 1 .. j : stubs[q].addr # a
      <4> TAKE q \in mid + 1 .. j
      <4>1. q \in 1 .. n /\ (mid + 1 < q \/ q = mid + 1)
        BY <1>1, <2>3
      <4>2. stubs[mid + 1].addr <= stubs[q].addr
        BY <1>1, <1>2, <2>4, <4>1
      <4> QED
        BY <1>1, <2>4, <3>0, <4>1, <4>2
    <3>2. /\ c \in 0 .. mid /\ (c # 0 => c > i /\ stubs[c].addr = a)
          /\ (c = 0 => \A q \in i + 1 .. mid : stubs[q].addr # a)
      BY <2>5 DEF Found
    <3>3. c \in 0 .. j
      BY <2>3, <3>2
    <3>4. c = 0 => \A q \in i + 1 .. j : stubs[q].addr # a
      <4> SUFFICES ASSUME c = 0, NEW q \in i + 1 .. j PROVE stubs[q].addr # a
        OBVIOUS
      <4>1. q \in i + 1 .. mid \/ q \in mid + 1 .. j
        BY <2>3
      <4> QED
        BY <3>1, <3>2, <4>1
    <3>5. Found(a, i, j, c)
      BY <3>2, <3>3, <3>4 DEF Found
    <3> QED
      BY <3>0, <3>5, Zenon DEF v
  <2> QED
    BY <2>2, <2>6, <2>7, <2>8
<1>8. Nat \subseteq T
  <2> HIDE DEF T
  <2> QED
    BY <1>6, <1>7, SetInduction
<1>9. hi - lo <= n
  BY <1>1
<1>10. n \in T
  BY <1>1, <1>8
<1> HIDE DEF Holds
<1>11. Holds(lo, hi)
  BY <1>9, <1>10
<1> QED
  BY <1>11 DEF Holds

(* A lookup finds a stub exactly where there is one. *)
LEMMA Lookup ==
  ASSUME NEW addr \in Nat, StubList, Sorted(stubs)
  PROVE  IF \E i \in 1 .. Len(stubs) : stubs[i].addr = (addr \div 2) * 2
           THEN /\ vm_find_stub(addr) \in 1 .. Len(stubs)
                /\ stubs[vm_find_stub(addr)].addr = (addr \div 2) * 2
           ELSE vm_find_stub(addr) = 0
<1> DEFINE a == (addr \div 2) * 2
           v == CHOOSE f : Searches(f, a)
           w == vm_find_stub(addr)
<1>1. a \in Nat /\ Len(stubs) \in Nat
  BY DEF StubList
<1>2. w = v[<< 0, Len(stubs) >>]
  BY Zenon DEF vm_find_stub, Searches, Spans
<1> HIDE DEF a, w
<1>3. Searches(v, a)
  BY <1>1, SearchExists, Zenon
<1> HIDE DEF v
<1>4. 0 \in 0 .. Len(stubs) /\ Len(stubs) \in 0 .. Len(stubs)
  BY <1>1
<1>5. Found(a, 0, Len(stubs), v[<< 0, Len(stubs) >>])
  BY <1>1, <1>3, <1>4, SearchFinds
<1>6. Found(a, 0, Len(stubs), w)
  BY <1>2, <1>5, Zenon
<1>7. /\ w # 0 => w \in 1 .. Len(stubs) /\ stubs[w].addr = a
      /\ w = 0 => \A i \in 1 .. Len(stubs) : stubs[i].addr # a
  <2>1. 0 + 1 = 1
    OBVIOUS
  <2> QED
    BY <1>1, <1>6, <2>1 DEF Found
<1>8. IF \E i \in 1 .. Len(stubs) : stubs[i].addr = a
        THEN w \in 1 .. Len(stubs) /\ stubs[w].addr = a
        ELSE w = 0
  BY <1>7
<1> QED
  BY <1>8, Zenon DEF a, w

(* Sorting moves the stubs and loses none. *)
LEMMA OrdersKeep ==
  ASSUME NEW s \in Seq(Stub), NEW t \in Orders(s)
  PROVE  t \in Seq(Stub) /\ Len(t) = Len(s) /\ Range(t) = Range(s) /\ Sorted(t)
<1> DEFINE I == 1 .. Len(s)
<1>1. PICK f \in [I -> I] : /\ \A j, k \in I : j # k => f[j] # f[k]
                            /\ t = [k \in I |-> s[f[k]]]
                            /\ Sorted(t)
  BY Zenon DEF Orders
<1>2. Len(s) \in Nat /\ \A k \in I : s[k] \in Stub
  BY ElementOfSeq
<1>3. f \in Surjection(I, I)
  <2>1. f \in Injection(I, I)
    BY <1>1 DEF Injection, IsInjective
  <2>2. IsFiniteSet(I)
    BY <1>2, FS_Interval
  <2> HIDE DEF I
  <2> QED
    BY <2>1, <2>2, FS_Injection
<1>4. t \in Seq(Stub) /\ Len(t) = Len(s) /\ \A k \in I : t[k] = s[f[k]]
  BY <1>1, <1>2
<1>5. Range(s) = { s[i] : i \in I } /\ Range(t) = { t[i] : i \in I }
  BY <1>4, RangeEquality
<1>6. \A i \in I : \E j \in I : f[j] = i
  BY <1>3 DEF Surjection
<1>7. { s[i] : i \in I } = { t[i] : i \in I }
  <2>1. \A i \in I : f[i] \in I
    BY <1>1
  <2>2. ASSUME NEW i \in I
        PROVE  \E j \in I : s[i] = t[j]
    <3>1. PICK j \in I : f[j] = i
      BY <1>6, Zenon
    <3>2. t[j] = s[f[j]]
      BY <1>4, Zenon
    <3> QED
      BY <3>1, <3>2, Zenon
  <2> HIDE DEF I
  <2> QED
    BY <1>4, <2>1, <2>2
<1> QED
  BY <1>1, <1>4, <1>5, <1>7

--------------------------------------------------------------------------------
(* The walk of the import table, and the stubs gathered from it.           *)

ReadableOf(m) ==
  { k \in 1 .. Len(m.listed) :
      /\ k <= MaxImports
      /\ \A i \in 1 .. k : m.listed[i].size >= Short
      /\ EntryOffset(m.listed, k + 1) <= m.importEnd
      /\ EntryOffset(m.listed, k + 1) <= m.fileLen }

WholeOf(m) ==
  { k \in ReadableOf(m) : /\ m.listed[k].lost = {}
                          /\ TableOffset(m.listed, k + 1) <= m.segLen
                          /\ TableOffset(m.listed, k + 1) <= m.fileLen }

PairOf(m, k, j) ==
  [addr |-> (m.listed[k].addrs[j] \div 2) * 2, lib |-> m.listed[k].lib, nid |-> m.listed[k].nids[j]]

PairsOf(m, k) == { PairOf(m, k, j) : j \in 1 .. Len(m.listed[k].nids) }

LensOf(m) == [k \in 1 .. Len(m.listed) |-> Len(m.listed[k].nids)]

RecordOf(m, k) ==
  [lib |-> m.listed[k].lib, n |-> Len(m.listed[k].nids),
   nids |-> NidsAt(m.listed, k), addrs |-> AddrsAt(m.listed, k)]

GatheredOf(m, K) == UNION { PairsOf(m, k) : k \in K }

Record == [lib : Nat, n : Nat, nids : Nat, addrs : Nat]

Walked ==
  /\ imports \in Seq(Record)
  /\ \A k \in 1 .. Len(imports) : k \in ReadableOf(module) /\ imports[k] = RecordOf(module, k)
  /\ total = Area(LensOf(module), 1 .. Len(imports))

Walking ==
  /\ Walked
  /\ module.importEnd <= module.segLen
  /\ at = EntryOffset(module.listed, Len(imports) + 1)
  /\ Len(imports) <= Len(module.listed)
  /\ stubs = << >>

Gathering ==
  /\ Walked
  /\ ReadableOf(module) = 1 .. Len(imports)
  /\ at \in 1 .. Len(imports) + 1
  /\ StubList
  /\ Range(stubs) = GatheredOf(module, { k \in WholeOf(module) : k < at })
  /\ Len(stubs) <= Area(LensOf(module), 1 .. at - 1)

Gathered ==
  /\ StubList /\ Sorted(stubs)
  /\ Range(stubs) = GatheredOf(module, WholeOf(module))
  /\ total = Area(LensOf(module), ReadableOf(module))

ModuleInv ==
  /\ module \in Modules
  /\ phase \in {"header", "imports", "stubs", "parsed", "failed"}
  /\ phase = "header"  => imports = << >> /\ total = 0 /\ stubs = << >>
  /\ phase = "imports" => Walking
  /\ phase = "stubs"   => Gathering
  /\ phase = "parsed"  => Gathered

(* The sets the property is stated with. *)
LEMMA ReadableIs == Readable = ReadableOf(module)
BY Zenon DEF Readable, ReadableOf

LEMMA GatheredIs == UNION { Pairs(k) : k \in Whole } = GatheredOf(module, WholeOf(module))
<1>1. Whole = WholeOf(module)
  BY ReadableIs DEF Whole, WholeOf
<1>2. \A k : Pairs(k) = PairsOf(module, k)
  BY Zenon DEF Pairs, PairsOf, PairOf
<1> QED
  BY <1>1, <1>2 DEF GatheredOf

LEMMA ModuleType ==
  ASSUME NEW m \in Modules
  PROVE  /\ Listing(m.listed)
         /\ m.importEnd <= EntryOffset(m.listed, Len(m.listed) + 1)
         /\ m.importTop = HeaderLen \/ m.importTop > m.importEnd
         /\ m.segLen \in Nat /\ m.fileLen \in Nat /\ m.importEnd \in Nat /\ m.importTop \in Nat
<1>1. WellFormed(m)
  BY ImportsAssumption
<1>2. Listing(m.listed)
  BY <1>1 DEF WellFormed, Listing
<1>3. Len(m.listed) + 1 \in 1 .. Len(m.listed) + 1
  BY <1>2, ListingType
<1>4. EntryOffset(m.listed, Len(m.listed) + 1) \in Nat
  BY <1>2, <1>3, EntryOffsetType
<1> QED
  BY <1>1, <1>2, <1>4 DEF WellFormed

(* The words of an entry, read where it is. *)
LEMMA EntrySize ==
  ASSUME module \in Modules, NEW k \in 1 .. Len(module.listed)
  PROVE  /\ Word(EntryOffset(module.listed, k)) = module.listed[k].size
         /\ EntryOffset(module.listed, k) \in Nat
         /\ \A j \in 1 .. module.listed[k].size :
              Word(EntryOffset(module.listed, k) + (j - 1)) = EntryWords(module.listed, k)[j]
<1> DEFINE l == module.listed
           p == EntryOffset(l, k)
           z == l[k].size
           e == EntryWords(l, k)
<1>1. Listing(l) /\ k \in 1 .. Len(l) /\ k \in 1 .. Len(l) + 1
  <2>1. Listing(l)
    BY ModuleType
  <2>2. Len(l) \in Nat
    BY <2>1, ListingType
  <2> QED
    BY <2>1, <2>2
<1>2. p \in Nat /\ z \in Nat \ {0}
  BY <1>1, EntryOffsetType, ListingType
<1>3. \A j \in 1 .. z : FileWords(l)[p + j] = e[j]
  BY <1>1, FileWordsAre
<1>4. e[1] = z
  BY <1>1, EntryWordsAre
<1> HIDE DEF p, z, e
<1>5. ASSUME NEW j \in 1 .. z
      PROVE  Word(p + (j - 1)) = e[j]
  <2>1. (p + (j - 1)) + 1 = p + j
    BY <1>2
  <2>2. Word(p + (j - 1)) = FileWords(l)[p + j]
    BY <2>1, Zenon DEF Word
  <2> QED
    BY <1>3, <2>2
<1>6. Word(p) = z
  <2>1. 1 \in 1 .. z /\ p + (1 - 1) = p
    BY <1>2
  <2>2. Word(p + (1 - 1)) = e[1]
    BY <1>5, <2>1
  <2> QED
    BY <1>4, <2>1, <2>2
<1> QED
  BY <1>2, <1>5, <1>6 DEF p, z, e

LEMMA EntryIs ==
  ASSUME module \in Modules, NEW k \in 1 .. Len(module.listed), module.listed[k].size >= Short
  PROVE  Entry(EntryOffset(module.listed, k)) = RecordOf(module, k)
<1> DEFINE l == module.listed
           p == EntryOffset(l, k)
           z == l[k].size
           e == EntryWords(l, k)
           W(i) == Word(p + i)
<1>1. Listing(l)
  BY ModuleType
<1>2. /\ z >= Short => e[2] = Len(l[k].nids)
      /\ z >= Long => e[5] = l[k].lib /\ e[8] = NidsAt(l, k) /\ e[9] = AddrsAt(l, k)
      /\ z >= Short /\ ~(z >= Long) => e[4] = l[k].lib /\ e[6] = NidsAt(l, k) /\ e[7] = AddrsAt(l, k)
  BY <1>1, EntryWordsAre
<1>3. z \in Nat /\ z >= Short
  BY <1>1, ListingType
<1>4. Word(p) = z /\ \A j \in 1 .. z : W(j - 1) = e[j]
  BY EntrySize
<1>5. Entry(p) = [lib  |-> IF Word(p) >= Long THEN W(4) ELSE W(3),
                  n    |-> W(1),
                  nids |-> IF Word(p) >= Long THEN W(7) ELSE W(5),
                  addrs |-> IF Word(p) >= Long THEN W(8) ELSE W(6)]
  BY Zenon DEF Entry
<1>6. RecordOf(module, k) = [lib |-> l[k].lib, n |-> Len(l[k].nids),
                             nids |-> NidsAt(l, k), addrs |-> AddrsAt(l, k)]
  BY Zenon DEF RecordOf
<1> HIDE DEF W, e, p, z
<1>7. /\ W(1) = e[2] /\ W(3) = e[4] /\ W(4) = e[5] /\ W(5) = e[6]
      /\ W(6) = e[7] /\ W(7) = e[8] /\ W(8) = e[9]
  <2>1. \A j \in 1 .. 9 : W(j - 1) = e[j]
    BY <1>3, <1>4 DEF Short
  <2>2. /\ 2 - 1 = 1 /\ 4 - 1 = 3 /\ 5 - 1 = 4 /\ 6 - 1 = 5 /\ 7 - 1 = 6 /\ 8 - 1 = 7 /\ 9 - 1 = 8
        /\ {2, 4, 5, 6, 7, 8, 9} \subseteq 1 .. 9
    OBVIOUS
  <2> QED
    BY <2>1, <2>2
<1>8. CASE z >= Long
  <2> HIDE DEF l
  <2>1. Entry(p) = [lib |-> W(4), n |-> W(1), nids |-> W(7), addrs |-> W(8)]
    BY <1>4, <1>5, <1>8
  <2> QED
    BY <1>2, <1>3, <1>6, <1>7, <1>8, <2>1, Zenon DEF p, l
<1>9. CASE ~(z >= Long)
  <2> HIDE DEF l
  <2>1. Entry(p) = [lib |-> W(3), n |-> W(1), nids |-> W(5), addrs |-> W(6)]
    BY <1>4, <1>5, <1>9
  <2> QED
    BY <1>2, <1>3, <1>6, <1>7, <1>9, <2>1, Zenon DEF p, l
<1> QED
  BY <1>8, <1>9

LEMMA RecordType ==
  ASSUME NEW m \in Modules, NEW k \in 1 .. Len(m.listed)
  PROVE  RecordOf(m, k) \in Record /\ RecordOf(m, k).n = LensOf(m)[k] /\ LensOf(m)[k] \in Nat
         /\ LensOf(m)[k] = Len(m.listed[k].nids)
<1>1. Listing(m.listed)
  BY ModuleType
<1>2. Len(m.listed) \in Nat /\ m.listed[k].lib \in Nat /\ Len(m.listed[k].nids) \in Nat
  BY <1>1, ListingType
<1>4. NidsAt(m.listed, k) \in Nat /\ AddrsAt(m.listed, k) \in Nat
  BY <1>1, TablesAt
<1> DEFINE a == m.listed[k].lib
           b == Len(m.listed[k].nids)
           c == NidsAt(m.listed, k)
           d == AddrsAt(m.listed, k)
<1>5. LensOf(m)[k] = b
  BY DEF LensOf
<1>6. RecordOf(m, k) = [lib |-> a, n |-> b, nids |-> c, addrs |-> d]
  BY Zenon DEF RecordOf
<1>7. a \in Nat /\ b \in Nat /\ c \in Nat /\ d \in Nat
  BY <1>2, <1>4
<1> HIDE DEF a, b, c, d
<1>8. RecordOf(m, k) \in Record /\ RecordOf(m, k).n = b
  BY <1>6, <1>7 DEF Record
<1> QED
  BY <1>5, <1>7, <1>8 DEF b

(* The walk goes on exactly while the next import is readable. *)
LEMMA WalkGoesOn ==
  ASSUME module \in Modules, Walking
  PROVE  CanRead(at) <=> Len(imports) + 1 \in ReadableOf(module)
<1> DEFINE l == module.listed
           n == Len(l)
           r == Len(imports)
           E(i) == EntryOffset(l, i)
           g == module.importEnd
<1>1. /\ Listing(l) /\ g <= E(n + 1) /\ g \in Nat
      /\ module.segLen \in Nat /\ module.fileLen \in Nat
  BY ModuleType
<1>2. n \in Nat /\ r \in Nat /\ r <= n /\ at = E(r + 1) /\ g <= module.segLen
  <2>1. n \in Nat
    BY <1>1, ListingType
  <2>2. r \in Nat
    BY DEF Walking, Walked
  <2> QED
    BY <2>1, <2>2 DEF Walking
<1>3. MaxImports \in Nat
  BY ImportsAssumption
<1>4. /\ \A i \in 1 .. n + 1 : E(i) \in Nat
      /\ \A i \in 1 .. n : E(i + 1) = E(i) + l[i].size
  BY <1>1, EntryOffsetType
<1>5. r + 1 \in ReadableOf(module) <=>
        /\ r + 1 <= n /\ r + 1 <= MaxImports
        /\ \A i \in 1 .. r + 1 : l[i].size >= Short
        /\ E((r + 1) + 1) <= g /\ E((r + 1) + 1) <= module.fileLen
  BY <1>2 DEF ReadableOf
<1>0. \A i \in 1 .. r : l[i].size >= Short
  <2>1. \A i \in 1 .. r : i \in ReadableOf(module)
    BY DEF Walking, Walked
  <2> QED
    BY <1>2, <2>1 DEF ReadableOf
<1>6. CASE r = n
  <2>1. g <= at /\ at \in Nat
    BY <1>1, <1>2, <1>4, <1>6
  <2> HIDE DEF g
  <2>2. ~(at + 1 <= g)
    BY <1>1, <2>1
  <2>3. ~CanRead(at)
    BY <2>2 DEF CanRead, g
  <2>4. ~(r + 1 <= n)
    BY <1>2, <1>6
  <2> QED
    BY <1>5, <2>3, <2>4
<1>7. CASE r < n
  <2>1. r + 1 \in 1 .. n /\ r + 1 \in 1 .. n + 1
    BY <1>2, <1>7
  <2>2. Word(at) = l[r + 1].size /\ l[r + 1].size \in Nat \ {0}
    BY <1>1, <1>2, <2>1, EntrySize, ListingType
  <2>4. E((r + 1) + 1) = at + Word(at) /\ at \in Nat
    BY <1>2, <1>4, <2>1, <2>2
  <2> DEFINE w == Word(at)
             x == E((r + 1) + 1)
  <2>5. (\A i \in 1 .. r + 1 : l[i].size >= Short) <=> w >= 9
    <3>1. 1 .. r + 1 = (1 .. r) \cup {r + 1}
      BY <1>2
    <3> HIDE DEF l
    <3> QED
      BY <1>0, <2>2, <3>1 DEF Short, l
  <2>6. x = at + w /\ w \in Nat /\ g <= module.segLen /\ at \in Nat /\ g \in Nat
        /\ module.segLen \in Nat /\ module.fileLen \in Nat
    BY <1>1, <1>2, <2>2, <2>4
  <2>7. CanRead(at) <=> /\ at + 1 <= g
                        /\ at + 1 <= module.segLen /\ at + 1 <= module.fileLen
                        /\ w >= 9 /\ at + w <= g
                        /\ at + w <= module.segLen /\ at + w <= module.fileLen
                        /\ r < MaxImports
    BY Zenon DEF CanRead, vm_ptr, Short
  <2> HIDE DEF w, x, g
  <2>8. CanRead(at) <=> w >= 9 /\ x <= g /\ x <= module.fileLen /\ r < MaxImports
    BY <1>2, <1>3, <2>6, <2>7 DEF g
  <2>9. r + 1 <= n /\ (r + 1 <= MaxImports <=> r < MaxImports)
    BY <1>2, <1>3, <1>7
  <2> QED
    BY <1>5, <2>5, <2>8, <2>9, Zenon DEF x, g
<1> QED
  BY <1>2, <1>6, <1>7

(* Readable imports come before those that are not. *)
LEMMA ReadablePrefix ==
  ASSUME NEW m \in Modules, NEW r \in Nat, r <= Len(m.listed),
         \A k \in 1 .. r : k \in ReadableOf(m), r + 1 \notin ReadableOf(m)
  PROVE  ReadableOf(m) = 1 .. r
<1> DEFINE l == m.listed
           n == Len(l)
           E(i) == EntryOffset(l, i)
<1>1. Listing(l) /\ m.fileLen \in Nat /\ m.importEnd \in Nat /\ MaxImports \in Nat
  BY ModuleType, ImportsAssumption
<1>2. n \in Nat
  BY <1>1, ListingType
<1>3. /\ \A i \in 1 .. n + 1 : E(i) \in Nat
      /\ \A i \in 1 .. n + 1 : \A j \in 1 .. i : E(j) <= E(i)
  BY <1>1, EntryOffsetType
<1>4. \A k : k \in ReadableOf(m) <=>
              /\ k \in 1 .. n /\ k <= MaxImports /\ \A i \in 1 .. k : l[i].size >= Short
              /\ E(k + 1) <= m.importEnd /\ E(k + 1) <= m.fileLen
  BY DEF ReadableOf
<1> HIDE DEF E
<1>5. ASSUME NEW k \in ReadableOf(m), k > r
      PROVE  FALSE
  <2>1. /\ k \in 1 .. n /\ k <= MaxImports /\ \A i \in 1 .. k : l[i].size >= Short
        /\ E(k + 1) <= m.importEnd /\ E(k + 1) <= m.fileLen
    BY <1>4
  <2>2. r + 1 \in 1 .. n /\ r + 1 <= MaxImports /\ k + 1 \in 1 .. n + 1 /\ (r + 1) + 1 \in 1 .. k + 1
        /\ (r + 1) + 1 \in 1 .. n + 1
    BY <1>1, <1>2, <1>5, <2>1
  <2>3. E((r + 1) + 1) <= E(k + 1) /\ E((r + 1) + 1) \in Nat /\ E(k + 1) \in Nat
    BY <1>3, <2>2
  <2>4. E((r + 1) + 1) <= m.fileLen /\ E((r + 1) + 1) <= m.importEnd
    BY <1>1, <2>1, <2>3
  <2>5. \A i \in 1 .. r + 1 : l[i].size >= Short
    <3>1. \A i \in 1 .. r + 1 : i \in 1 .. k
      BY <1>2, <1>5, <2>1
    <3> QED
      BY <2>1, <3>1
  <2> QED
    BY <1>4, <2>2, <2>4, <2>5
<1>6. \A k \in ReadableOf(m) : k \in 1 .. r
  BY <1>2, <1>4, <1>5
<1> QED
  BY <1>6

(* The stubs of the tables of an import. *)
LEMMA PairedIs ==
  ASSUME module \in Modules, NEW k \in 1 .. Len(module.listed), module.listed[k].lost = {}
  PROVE  /\ Paired(RecordOf(module, k)) \in Seq(Stub)
         /\ Len(Paired(RecordOf(module, k))) = LensOf(module)[k]
         /\ Range(Paired(RecordOf(module, k))) = PairsOf(module, k)
<1> DEFINE l == module.listed
           n == Len(l[k].nids)
           T == TableOffset(l, k)
           im == RecordOf(module, k)
           s == Paired(im)
<1>1. Listing(l)
  BY ModuleType
<1>2. /\ n \in Nat /\ Len(l[k].addrs) = n /\ l[k].nids \in Seq(Nat) /\ l[k].addrs \in Seq(Nat)
      /\ l[k].lib \in Nat /\ k \in 1 .. Len(l) + 1
  BY <1>1, ListingType
<1>3. T \in Nat /\ Base \in Nat
  BY <1>1, <1>2, TableOffsetType, ImportsAssumption
<1>4. im.lib = l[k].lib /\ im.n = n /\ im.nids = Base + T /\ im.addrs = Base + T + n
  BY DEF RecordOf, NidsAt, AddrsAt
<1>5. \A j \in 1 .. n : /\ l[k].nids[j] \in Nat /\ l[k].addrs[j] \in Nat
                        /\ Word(im.nids - Base + j - 1) = l[k].nids[j]
                        /\ Word(im.addrs - Base + j - 1) = l[k].addrs[j]
  <2> TAKE j \in 1 .. n
  <2>1. l[k].nids[j] \in Nat /\ l[k].addrs[j] \in Nat
    BY <1>2, ElementOfSeq
  <2>2. FileWords(l)[T + j] = l[k].nids[j] /\ FileWords(l)[T + n + j] = l[k].addrs[j]
    BY <1>1, FileWordsAre
  <2> HIDE DEF n, T, im
  <2>3. (im.nids - Base + j - 1) + 1 = T + j /\ (im.addrs - Base + j - 1) + 1 = T + n + j
    BY <1>2, <1>3, <1>4
  <2>4. /\ Word(im.nids - Base + j - 1) = FileWords(l)[T + j]
        /\ Word(im.addrs - Base + j - 1) = FileWords(l)[T + n + j]
    BY <2>3, Zenon DEF Word
  <2> QED
    BY <2>1, <2>2, <2>4, Zenon
<1>6. s = [j \in 1 .. im.n |->
             [addr |-> (Word(im.addrs - Base + j - 1) \div 2) * 2,
              lib |-> im.lib, nid |-> Word(im.nids - Base + j - 1)]]
  BY Zenon DEF Paired
<1> DEFINE a(j) == l[k].addrs[j]
           b(j) == l[k].nids[j]
           c == l[k].lib
<1>7. \A j \in 1 .. n : /\ a(j) \in Nat /\ b(j) \in Nat
                        /\ Word(im.nids - Base + j - 1) = b(j) /\ Word(im.addrs - Base + j - 1) = a(j)
  BY <1>5
<1>8. im.n = n /\ im.lib = c /\ n \in Nat /\ c \in Nat
  BY <1>2, <1>4
<1>9. \A j : PairOf(module, k, j) = [addr |-> (a(j) \div 2) * 2, lib |-> c, nid |-> b(j)]
  BY Zenon DEF PairOf
<1>10. PairsOf(module, k) = { PairOf(module, k, j) : j \in 1 .. n }
  BY Zenon DEF PairsOf
<1> HIDE DEF a, b, c, n, im, s
<1>11. \A j \in 1 .. n : PairOf(module, k, j) \in Stub
  <2>1. \A x \in Nat : (x \div 2) * 2 \in Nat
    OBVIOUS
  <2> QED
    BY <1>7, <1>8, <1>9, <2>1 DEF Stub
<1>12. s = [j \in 1 .. n |-> PairOf(module, k, j)]
  BY <1>6, <1>7, <1>8, <1>9
<1>13. s \in Seq(Stub) /\ Len(s) = n /\ \A j \in 1 .. n : s[j] = PairOf(module, k, j)
  BY <1>8, <1>11, <1>12
<1>14. Range(s) = PairsOf(module, k)
  <2>1. Range(s) = { s[j] : j \in 1 .. Len(s) }
    BY <1>13, RangeEquality
  <2> QED
    BY <1>10, <1>13, <2>1
<1>15. LensOf(module)[k] = n
  BY DEF LensOf, n
<1> QED
  BY <1>13, <1>14, <1>15 DEF s, im

(* A longer prefix has the greater area. *)
LEMMA AreaRises ==
  ASSUME NEW f, NEW r \in Nat, NEW i \in 0 .. r, \A k \in 1 .. r : f[k] \in Nat
  PROVE  /\ Area(f, 1 .. i) \in Nat /\ Area(f, 1 .. r) \in Nat
         /\ Area(f, 1 .. i) <= Area(f, 1 .. r)
         /\ i < r => Area(f, 1 .. i + 1) = Area(f, 1 .. i) + f[i + 1]
<1> DEFINE A == 1 .. i
           B == i + 1 .. r
           C == 1 .. r
<1>1. IsFiniteSet(A) /\ IsFiniteSet(B) /\ IsFiniteSet(C)
  BY FS_Interval
<1>2. A \cap B = {} /\ A \cup B = C
  OBVIOUS
<1>3. (\A x \in A : f[x] \in Nat) /\ (\A x \in B : f[x] \in Nat) /\ \A x \in A \cup B : f[x] \in Nat
  OBVIOUS
<1>4. i < r => /\ i + 1 \notin A /\ A \cup {i + 1} = 1 .. i + 1 /\ f[i + 1] \in Nat
  OBVIOUS
<1> HIDE DEF A, B, C
<1>5. IsFiniteSet(Cells(f, A)) /\ Area(f, A) \in Nat /\ Area(f, B) \in Nat
  BY <1>1, <1>3, CellsFinite
<1>6. Area(f, A \cup B) = Area(f, A) + Area(f, B)
  BY <1>1, <1>2, <1>3, AreaUnion
<1>7. Area(f, C) = Area(f, A) + Area(f, B)
  BY <1>2, <1>6, Zenon
<1>8. Area(f, C) \in Nat /\ Area(f, A) <= Area(f, C)
  BY <1>5, <1>7
<1>9. ASSUME i < r
      PROVE  Area(f, 1 .. i + 1) = Area(f, 1 .. i) + f[i + 1]
  <2>1. Area(f, A \cup {i + 1}) = Area(f, A) + f[i + 1]
    BY <1>4, <1>5, <1>9, AreaAdd
  <2> QED
    BY <1>4, <1>9, <2>1, Zenon DEF A
<1> QED
  BY <1>5, <1>8, <1>9 DEF A, C

(* The imports printed are counted as the property counts them. *)
TotalFolds(g, m, S) ==
  g = [s \in SUBSET S |-> IF s = {} THEN 0
         ELSE LET x == CHOOSE x \in s : TRUE IN Len(m.listed[x].nids) + g[s \ {x}]]

LEMMA TotalIs ==
  ASSUME module \in Modules
  PROVE  FoldSet(LAMBDA k, n : Len(module.listed[k].nids) + n, 0, Readable)
           = Area(LensOf(module), ReadableOf(module))
<1> DEFINE S == ReadableOf(module)
           f == LensOf(module)
           g == CHOOSE g : TotalFolds(g, module, S)
<1>1. IsFiniteSet(S) /\ \A x \in S : f[x] \in Nat /\ f[x] = Len(module.listed[x].nids)
  <2>1. S \subseteq 1 .. Len(module.listed)
    BY DEF ReadableOf
  <2>2. Len(module.listed) \in Nat
    BY ModuleType, ListingType
  <2>3. IsFiniteSet(1 .. Len(module.listed))
    BY <2>2, FS_Interval
  <2>4. IsFiniteSet(S)
    BY <2>1, <2>3, FS_Subset
  <2> HIDE DEF S
  <2> QED
    BY <2>1, <2>4, RecordType
<1> HIDE DEF S
<1>2. \A h : TotalFolds(h, module, S) <=> Folds(h, f, S)
  <2> TAKE h
  <2> DEFINE A == [s \in SUBSET S |-> IF s = {} THEN 0
                     ELSE Len(module.listed[Pick(s)].nids) + h[s \ {Pick(s)}]]
             B == [s \in SUBSET S |-> IF s = {} THEN 0 ELSE f[Pick(s)] + h[s \ {Pick(s)}]]
  <2>1. A = B
    <3>1. \A s \in SUBSET S : s # {} => Pick(s) \in S
      BY DEF Pick
    <3>2. \A s \in SUBSET S : s # {} => Len(module.listed[Pick(s)].nids) = f[Pick(s)]
      BY <1>1, <3>1
    <3> HIDE DEF f
    <3> QED
      BY <3>2
  <2>2. Folds(h, f, S) <=> h = B
    BY Zenon DEF Folds
  <2>3. TotalFolds(h, module, S) <=> h = A
    BY Zenon DEF TotalFolds, Pick
  <2> HIDE DEF A, B
  <2> QED
    BY <2>1, <2>2, <2>3
<1> HIDE DEF f
<1>3. \E h : Folds(h, f, S)
  BY <1>1, FoldExists
<1>4. Folds(g, f, S)
  <2>1. TotalFolds(g, module, S)
    BY <1>2, <1>3, Zenon
  <2> QED
    BY <1>2, <2>1, Zenon
<1> HIDE DEF g
<1>5. g[S] = Area(f, S)
  BY <1>1, <1>4, FoldIsArea
<1>6. FoldSet(LAMBDA k, n : Len(module.listed[k].nids) + n, 0, S) = g[S]
  BY Zenon DEF FoldSet, MapThenFoldSet, TotalFolds, g
<1>7. Readable = S
  BY ReadableIs DEF S
<1> QED
  BY <1>5, <1>6, <1>7 DEF f, S

--------------------------------------------------------------------------------
(* The walk and the gathering keep their invariant. *)

LEMMA ModuleInvInit == Init => ModuleInv
<1>1. SUFFICES ASSUME Init
               PROVE  ModuleInv
  OBVIOUS
<1>2. module \in Modules /\ phase = "header" /\ imports = << >> /\ total = 0 /\ stubs = << >>
  BY <1>1 DEF Init
<1> QED
  BY <1>2 DEF ModuleInv

LEMMA HeaderKeeps ==
  ASSUME ModuleInv, ParseHeader
  PROVE  ModuleInv'
<1>1. /\ module \in Modules /\ module' = module /\ imports' = << >> /\ total' = 0 /\ stubs' = << >>
      /\ at' = module.importTop
      /\ phase' = "failed" \/ /\ phase' = "imports"
                              /\ module.importTop <= module.importEnd
                              /\ module.importEnd <= module.segLen
  BY DEF ModuleInv, ParseHeader
<1>2. CASE phase' = "failed"
  BY <1>1, <1>2 DEF ModuleInv
<1>3. CASE phase' = "imports"
  <2>1. /\ Listing(module.listed) /\ module.importTop = HeaderLen
        /\ module.importEnd \in Nat /\ module.importTop \in Nat
    BY <1>1, <1>3, ModuleType
  <2>2. EntryOffset(module.listed, 1) = HeaderLen /\ Len(module.listed) \in Nat
    BY <2>1, EntryOffsetType, ListingType
  <2>3. Len(imports') = 0 /\ 0 + 1 = 1 /\ 1 .. 0 = {} /\ imports' \in Seq(Record)
    BY <1>1
  <2>4. Area(LensOf(module), 1 .. Len(imports')) = 0
    BY <2>3, AreaEmpty
  <2>5. Walked'
    <3>1. \A k \in 1 .. Len(imports') : FALSE
      BY <2>3
    <3>2. total' = Area(LensOf(module'), 1 .. Len(imports'))
      BY <1>1, <2>4
    <3> QED
      BY <2>3, <3>1, <3>2, Zenon DEF Walked
  <2>6. Len(imports') + 1 = 1 /\ Len(imports') <= Len(module.listed)
    BY <2>2, <2>3
  <2>7. at' = EntryOffset(module'.listed, Len(imports') + 1)
    BY <1>1, <2>1, <2>2, <2>6
  <2>8. Walking'
    BY <1>1, <1>3, <2>5, <2>6, <2>7 DEF Walking
  <2> QED
    BY <1>1, <1>3, <2>8 DEF ModuleInv
<1> QED
  BY <1>1, <1>2, <1>3

LEMMA WalkKeeps ==
  ASSUME ModuleInv, WalkImport
  PROVE  ModuleInv'
<1> DEFINE l == module.listed
           r == Len(imports)
           E(i) == EntryOffset(l, i)
           f == LensOf(module)
           im == RecordOf(module, r + 1)
<1>1. /\ module \in Modules /\ module' = module /\ stubs' = stubs /\ phase = "imports" /\ phase' = phase
      /\ Walking /\ CanRead(at)
      /\ imports' = Append(imports, Entry(at)) /\ total' = total + Entry(at).n /\ at' = at + Word(at)
  BY DEF ModuleInv, WalkImport
<1>2. /\ Walked /\ imports \in Seq(Record) /\ at = E(r + 1) /\ r \in Nat /\ r <= Len(l) /\ stubs = << >>
      /\ module.importEnd <= module.segLen /\ total = Area(f, 1 .. r)
      /\ \A k \in 1 .. r : k \in ReadableOf(module) /\ imports[k] = RecordOf(module, k)
  BY <1>1 DEF Walking, Walked
<1>3. r + 1 \in ReadableOf(module)
  BY <1>1, WalkGoesOn
<1>4. r + 1 \in 1 .. Len(l) /\ Len(l) \in Nat /\ Listing(l)
  BY <1>1, <1>3, ModuleType, ListingType DEF ReadableOf
<1>5. Word(at) = l[r + 1].size /\ Entry(at) = im
  <2>1. l[r + 1].size >= Short
    BY <1>2, <1>3 DEF ReadableOf
  <2> QED
    BY <1>1, <1>2, <1>4, <2>1, EntryIs, EntrySize
<1>6. E((r + 1) + 1) = E(r + 1) + l[r + 1].size
  BY <1>4, EntryOffsetType
<1>7. im \in Record /\ im.n = f[r + 1]
  BY <1>1, <1>4, RecordType
<1>8. \A k \in 1 .. r + 1 : f[k] \in Nat
  BY <1>1, <1>2, <1>4, RecordType
<1>9. Area(f, 1 .. r + 1) = Area(f, 1 .. r) + f[r + 1]
  <2>1. r + 1 \in Nat /\ r \in 0 .. r + 1 /\ r < r + 1
    BY <1>2
  <2> HIDE DEF f, r
  <2> QED
    BY <1>8, <2>1, AreaRises
<1>10. /\ imports' \in Seq(Record) /\ Len(imports') = r + 1
       /\ \A k \in 1 .. r + 1 : imports'[k] = IF k = r + 1 THEN im ELSE imports[k]
  <2> HIDE DEF im
  <2> QED
    BY <1>1, <1>2, <1>5, <1>7
<1>11. Walked'
  <2>1. \A k \in 1 .. r + 1 : k \in ReadableOf(module) /\ imports'[k] = RecordOf(module, k)
    <3>1. \A k \in 1 .. r + 1 : k = r + 1 \/ k \in 1 .. r
      BY <1>2
    <3> QED
      BY <1>2, <1>3, <1>10, <3>1
  <2>2. total' = Area(f, 1 .. r + 1)
    BY <1>1, <1>2, <1>5, <1>7, <1>9
  <2> QED
    BY <1>1, <1>10, <2>1, <2>2, Zenon DEF Walked
<1>12. Walking'
  <2>1. at' = E((r + 1) + 1)
    BY <1>1, <1>2, <1>5, <1>6
  <2>2. r + 1 <= Len(l)
    BY <1>4
  <2> QED
    BY <1>1, <1>2, <1>10, <1>11, <2>1, <2>2 DEF Walking
<1> QED
  BY <1>1, <1>12 DEF ModuleInv

LEMMA EndKeeps ==
  ASSUME ModuleInv, EndWalk
  PROVE  ModuleInv'
<1> DEFINE r == Len(imports)
<1>1. /\ module \in Modules /\ module' = module /\ stubs' = stubs /\ phase' = "stubs"
      /\ Walking /\ ~CanRead(at)
      /\ imports' = imports /\ total' = total /\ at' = 1
  BY DEF ModuleInv, EndWalk
<1>2. /\ Walked /\ r \in Nat /\ r <= Len(module.listed) /\ stubs = << >>
      /\ \A k \in 1 .. r : k \in ReadableOf(module)
  BY <1>1 DEF Walking, Walked
<1>3. r + 1 \notin ReadableOf(module)
  BY <1>1, WalkGoesOn
<1>4. ReadableOf(module) = 1 .. r
  BY <1>1, <1>2, <1>3, ReadablePrefix
<1>5. Walked'
  BY <1>1, <1>2 DEF Walked
<1>6. { k \in WholeOf(module) : k < 1 } = {}
  BY <1>4 DEF WholeOf
<1>7. GatheredOf(module, {}) = {}
  BY DEF GatheredOf
<1>8. StubList' /\ Range(stubs') = {} /\ Len(stubs') = 0
  BY <1>1, <1>2 DEF StubList, Range
<1>9. 1 .. 1 - 1 = {} /\ Area(LensOf(module), {}) = 0
  BY AreaEmpty
<1>10. Gathering'
  <2>1. at' \in 1 .. Len(imports') + 1
    BY <1>1, <1>2
  <2>2. Range(stubs') = GatheredOf(module', { k \in WholeOf(module') : k < at' })
    BY <1>1, <1>6, <1>7, <1>8
  <2>3. Len(stubs') <= Area(LensOf(module'), 1 .. at' - 1)
    BY <1>1, <1>8, <1>9
  <2>4. ReadableOf(module') = 1 .. Len(imports')
    BY <1>1, <1>4
  <2> QED
    BY <1>5, <1>8, <2>1, <2>2, <2>3, <2>4 DEF Gathering
<1> QED
  BY <1>1, <1>10 DEF ModuleInv

(* The tables of import k are whole exactly when both ranges can be read.  *)
LEMMA TablesRead ==
  ASSUME module \in Modules, NEW k \in ReadableOf(module)
  PROVE  LET im == RecordOf(module, k)
         IN  vm_va(im.nids, im.n) /\ vm_va(im.addrs, im.n) <=> k \in WholeOf(module)
<1> DEFINE l == module.listed
           n == Len(l[k].nids)
           T == TableOffset(l, k)
           U == TableOffset(l, k + 1)
           im == RecordOf(module, k)
<1>1. Listing(l) /\ k \in 1 .. Len(l) /\ module.segLen \in Nat /\ module.fileLen \in Nat
  BY ModuleType DEF ReadableOf
<1>2. n \in Nat /\ k \in 1 .. Len(l) + 1 /\ l[k].lost \subseteq {"nids", "addrs"}
  BY <1>1, ListingType
<1>3. T \in Nat /\ U = T + 2 * n /\ Base \in Nat \ {0}
  BY <1>1, <1>2, TableOffsetType, ImportsAssumption
<1>4. im.n = n /\ im.nids = NidsAt(l, k) /\ im.addrs = AddrsAt(l, k)
  BY DEF RecordOf
<1>5. k \in WholeOf(module) <=> l[k].lost = {} /\ U <= module.segLen /\ U <= module.fileLen
  BY DEF WholeOf
<1>6. CASE l[k].lost = {}
  <2>1. NidsAt(l, k) = Base + T /\ AddrsAt(l, k) = Base + T + n
    BY <1>6 DEF NidsAt, AddrsAt
  <2> HIDE DEF n, T, U, im
  <2>2. /\ vm_va(im.nids, im.n) <=> Base + T >= Base /\ (Base + T) - Base + n <= module.segLen
                                    /\ (Base + T) - Base + n <= module.fileLen
        /\ vm_va(im.addrs, im.n) <=> Base + T + n >= Base /\ (Base + T + n) - Base + n <= module.segLen
                                     /\ (Base + T + n) - Base + n <= module.fileLen
    BY <1>4, <2>1 DEF vm_va, vm_ptr
  <2>3. vm_va(im.nids, im.n) /\ vm_va(im.addrs, im.n) <=> k \in WholeOf(module)
    BY <1>1, <1>2, <1>3, <1>5, <1>6, <2>2
  <2> QED
    BY <2>3 DEF im
<1>7. CASE l[k].lost # {}
  <2>1. NidsAt(l, k) = 0 \/ AddrsAt(l, k) = 0
    BY <1>2, <1>7 DEF NidsAt, AddrsAt
  <2>2. \A len : ~vm_va(0, len)
    BY <1>3 DEF vm_va
  <2> HIDE DEF im
  <2>3. ~(vm_va(im.nids, im.n) /\ vm_va(im.addrs, im.n))
    BY <1>4, <2>1, <2>2
  <2> QED
    BY <1>5, <1>7, <2>3 DEF im
<1> QED
  BY <1>6, <1>7

(* One more import: its pairs are gathered when its tables are whole. *)
LEMMA GatheredNext ==
  ASSUME NEW m, NEW k \in Nat, WholeOf(m) \subseteq Nat
  PROVE  GatheredOf(m, { j \in WholeOf(m) : j < k + 1 })
           = GatheredOf(m, { j \in WholeOf(m) : j < k })
             \cup (IF k \in WholeOf(m) THEN PairsOf(m, k) ELSE {})
<1>1. { j \in WholeOf(m) : j < k + 1 }
        = { j \in WholeOf(m) : j < k } \cup (IF k \in WholeOf(m) THEN {k} ELSE {})
  OBVIOUS
<1> DEFINE A == { j \in WholeOf(m) : j < k }
           B == { j \in WholeOf(m) : j < k + 1 }
<1>2. B = A \cup (IF k \in WholeOf(m) THEN {k} ELSE {})
  BY <1>1
<1> HIDE DEF A, B
<1>3. GatheredOf(m, B) = GatheredOf(m, A) \cup (IF k \in WholeOf(m) THEN PairsOf(m, k) ELSE {})
  BY <1>2 DEF GatheredOf
<1> QED
  BY <1>3 DEF A, B

LEMMA Joins ==
  ASSUME NEW S, NEW a \in Seq(S), NEW b \in Seq(S)
  PROVE  a \o b \in Seq(S) /\ Len(a \o b) = Len(a) + Len(b) /\ Range(a \o b) = Range(a) \cup Range(b)
<1>1. a \o b \in Seq(S) /\ Len(a \o b) = Len(a) + Len(b)
  BY ConcatProperties
<1>2. Range(a \o b) = Range(a) \cup Range(b)
  BY RangeConcatenation
<1> QED
  BY <1>1, <1>2

LEMMA PairKeeps ==
  ASSUME ModuleInv, PairImport
  PROVE  ModuleInv'
<1> DEFINE r == Len(imports)
           f == LensOf(module)
           im == RecordOf(module, at)
           s == Paired(im)
           W == WholeOf(module)
<1>1. /\ module \in Modules /\ module' = module /\ phase = "stubs" /\ phase' = phase
      /\ imports' = imports /\ total' = total /\ at' = at + 1 /\ at <= r /\ Gathering
  BY DEF ModuleInv, PairImport
<1>2. /\ Walked /\ r \in Nat /\ ReadableOf(module) = 1 .. r /\ at \in 1 .. r + 1
      /\ stubs \in Seq(Stub) /\ Range(stubs) = GatheredOf(module, { k \in W : k < at })
      /\ Len(stubs) <= Area(f, 1 .. at - 1) /\ total = Area(f, 1 .. r)
      /\ \A k \in 1 .. r : imports[k] = RecordOf(module, k)
  BY <1>1 DEF Gathering, Walked, StubList
<1>3. at \in 1 .. r /\ at \in Nat /\ at - 1 \in 0 .. r /\ (at - 1) + 1 = at /\ at - 1 < r /\ at \in 0 .. r
  BY <1>1, <1>2
<1>4. imports[at] = im /\ at \in ReadableOf(module)
  BY <1>2, <1>3
<1>5. at \in 1 .. Len(module.listed) /\ \A k \in 1 .. r : k \in 1 .. Len(module.listed)
  BY <1>2, <1>4 DEF ReadableOf
<1>6. im.n = f[at] /\ \A k \in 1 .. r : f[k] \in Nat
  BY <1>1, <1>3, <1>5, RecordType
<1>7. at \in W => s \in Seq(Stub) /\ Len(s) = f[at] /\ Range(s) = PairsOf(module, at)
  <2>1. at \in W => module.listed[at].lost = {}
    BY DEF WholeOf
  <2> HIDE DEF W, s, f
  <2>2. ASSUME module.listed[at].lost = {}
        PROVE  s \in Seq(Stub) /\ Len(s) = f[at] /\ Range(s) = PairsOf(module, at)
    BY <1>1, <1>5, <2>2, PairedIs DEF s, f
  <2> QED
    BY <2>1, <2>2
<1>8. /\ Area(f, 1 .. at - 1) \in Nat /\ Area(f, 1 .. at) = Area(f, 1 .. at - 1) + f[at]
      /\ Area(f, 1 .. at) <= Area(f, 1 .. r) /\ Area(f, 1 .. r) \in Nat
  <2> DEFINE b == at - 1
  <2>1. b \in 0 .. r /\ b + 1 = at /\ b < r
    BY <1>3
  <2> HIDE DEF b, f, r
  <2>2. Area(f, 1 .. b) \in Nat /\ Area(f, 1 .. b + 1) = Area(f, 1 .. b) + f[b + 1]
    BY <1>2, <1>6, <2>1, AreaRises
  <2>3. Area(f, 1 .. at) <= Area(f, 1 .. r) /\ Area(f, 1 .. r) \in Nat
    BY <1>2, <1>3, <1>6, AreaRises
  <2> QED
    BY <2>1, <2>2, <2>3 DEF b
<1>9. stubs' = IF at \in W THEN stubs \o s ELSE stubs
  <2>1. stubs' = IF vm_va(im.nids, im.n) /\ vm_va(im.addrs, im.n)
                   THEN SubSeq(stubs \o s, 1, IF Len(stubs) + im.n <= total THEN Len(stubs) + im.n ELSE total)
                   ELSE stubs
    BY <1>4, Zenon DEF PairImport
  <2>2. vm_va(im.nids, im.n) /\ vm_va(im.addrs, im.n) <=> at \in W
    BY <1>1, <1>4, TablesRead
  <2>3. Len(stubs) + im.n <= total
    <3> HIDE DEF f, im
    <3>1. Len(stubs) \in Nat /\ f[at] \in Nat
      BY <1>2, <1>3, <1>6
    <3> QED
      BY <1>2, <1>6, <1>8, <3>1
  <2>5. ASSUME at \in W
        PROVE  SubSeq(stubs \o s, 1, Len(stubs) + im.n) = stubs \o s
    <3> DEFINE c == stubs \o s
    <3>1. c \in Seq(Stub) /\ Len(c) = Len(stubs) + im.n
      <4>1. stubs \in Seq(Stub) /\ s \in Seq(Stub) /\ Len(s) = im.n
        BY <1>2, <1>6, <1>7, <2>5
      <4> HIDE DEF s, im, f
      <4> QED
        BY <4>1, Joins
    <3> HIDE DEF c
    <3>2. SubSeq(c, 1, Len(c)) = c
      BY <3>1, SubSeqFull
    <3> QED
      BY <3>1, <3>2 DEF c
  <2> HIDE DEF s, W, im
  <2>6. stubs' = IF at \in W THEN SubSeq(stubs \o s, 1, Len(stubs) + im.n) ELSE stubs
    BY <2>1, <2>2, <2>3
  <2> QED
    BY <2>5, <2>6
<1>10. /\ stubs' \in Seq(Stub)
       /\ Range(stubs') = GatheredOf(module, { k \in W : k < at + 1 })
       /\ Len(stubs') <= Area(f, 1 .. at)
  <2>1. ASSUME at \in W
        PROVE  /\ stubs \o s \in Seq(Stub) /\ Len(stubs \o s) = Len(stubs) + f[at]
               /\ Range(stubs \o s) = Range(stubs) \cup PairsOf(module, at)
    <3>1. stubs \in Seq(Stub) /\ s \in Seq(Stub) /\ Len(s) = f[at] /\ Range(s) = PairsOf(module, at)
      BY <1>2, <1>7, <2>1
    <3> HIDE DEF s, f
    <3> QED
      BY <3>1, Joins
  <2>2. W \subseteq Nat
    BY <1>2 DEF WholeOf
  <2>3. GatheredOf(module, { k \in W : k < at + 1 })
          = GatheredOf(module, { k \in W : k < at }) \cup (IF at \in W THEN PairsOf(module, at) ELSE {})
    BY <1>3, <2>2, GatheredNext
  <2>4. Len(stubs) \in Nat /\ f[at] \in Nat
    BY <1>2, <1>3, <1>6
  <2> DEFINE P == Area(f, 1 .. at)
             Q == Area(f, 1 .. at - 1)
             A == GatheredOf(module, { k \in W : k < at + 1 })
             B == GatheredOf(module, { k \in W : k < at })
             C == PairsOf(module, at)
             c == stubs \o s
             d == f[at]
  <2>5. /\ Q \in Nat /\ d \in Nat /\ P = Q + d /\ Len(stubs) <= Q /\ Len(stubs) \in Nat
        /\ A = B \cup (IF at \in W THEN C ELSE {}) /\ Range(stubs) = B
        /\ at \in W => c \in Seq(Stub) /\ Len(c) = Len(stubs) + d /\ Range(c) = B \cup C
        /\ stubs' = (IF at \in W THEN c ELSE stubs) /\ stubs \in Seq(Stub)
    BY <1>2, <1>7, <1>8, <1>9, <2>1, <2>3, <2>4, Zenon
  <2> HIDE DEF A, B, C, P, Q, c, d, W
  <2>6. stubs' \in Seq(Stub) /\ Range(stubs') = A /\ Len(stubs') <= P
    BY <2>5
  <2> QED
    BY <2>6 DEF A, P
<1>11. Walked'
  BY <1>1, <1>2 DEF Walked
<1>12. Gathering'
  <2>1. at' - 1 = at /\ at' \in 1 .. Len(imports') + 1
    BY <1>1, <1>3
  <2>2. ReadableOf(module') = 1 .. Len(imports')
    BY <1>1, <1>2
  <2>3. Range(stubs') = GatheredOf(module', { k \in WholeOf(module') : k < at' })
        /\ Len(stubs') <= Area(LensOf(module'), 1 .. at' - 1) /\ StubList'
    BY <1>1, <1>10, <2>1 DEF StubList
  <2> QED
    BY <1>11, <2>1, <2>2, <2>3, Zenon DEF Gathering
<1> QED
  BY <1>1, <1>12 DEF ModuleInv

LEMMA SortKeeps ==
  ASSUME ModuleInv, SortStubs
  PROVE  ModuleInv'
<1>1. /\ module \in Modules /\ module' = module /\ phase' = "parsed" /\ total' = total
      /\ at > Len(imports) /\ stubs' \in Orders(stubs) /\ Gathering
  BY DEF ModuleInv, SortStubs
<1>2. /\ stubs \in Seq(Stub) /\ at \in 1 .. Len(imports) + 1 /\ Len(imports) \in Nat
      /\ Range(stubs) = GatheredOf(module, { k \in WholeOf(module) : k < at })
      /\ ReadableOf(module) = 1 .. Len(imports) /\ total = Area(LensOf(module), ReadableOf(module))
  BY <1>1 DEF Gathering, StubList, Walked
<1>3. { k \in WholeOf(module) : k < at } = WholeOf(module)
  <2>1. \A k \in WholeOf(module) : k \in 1 .. Len(imports)
    BY <1>2 DEF WholeOf
  <2>2. \A k \in 1 .. Len(imports) : k < at
    BY <1>1, <1>2
  <2> QED
    BY <2>1, <2>2
<1>4. stubs' \in Seq(Stub) /\ Range(stubs') = Range(stubs) /\ Sorted(stubs')
  BY <1>1, <1>2, OrdersKeep
<1>5. Gathered'
  BY <1>1, <1>2, <1>3, <1>4 DEF Gathered, StubList
<1> QED
  BY <1>1, <1>5 DEF ModuleInv

(* ModuleInv is inductive.                                                 *)
LEMMA ModuleInvStep ==
  ASSUME ModuleInv, [Next]_vars
  PROVE  ModuleInv'
<1>1. ASSUME modVars' = modVars
      PROVE  ModuleInv'
  <2>1. /\ module' = module /\ phase' = phase /\ at' = at
        /\ imports' = imports /\ total' = total /\ stubs' = stubs
    BY <1>1 DEF modVars
  <2>2. (Walked <=> Walked') /\ (StubList <=> StubList')
    BY <2>1 DEF Walked, StubList
  <2>3. (Walking <=> Walking') /\ (Gathering <=> Gathering') /\ (Gathered <=> Gathered')
    BY <2>1, <2>2 DEF Walking, Gathering, Gathered
  <2> QED
    BY <2>1, <2>3 DEF ModuleInv
<1>2. CASE ParseHeader
  BY <1>2, HeaderKeeps
<1>3. CASE WalkImport
  BY <1>3, WalkKeeps
<1>4. CASE EndWalk
  BY <1>4, EndKeeps
<1>5. CASE PairImport
  BY <1>5, PairKeeps
<1>6. CASE SortStubs
  BY <1>6, SortKeeps
<1>7. CASE OpenFile
  BY <1>1, <1>7 DEF OpenFile
<1>8. CASE ReadLine
  BY <1>1, <1>8 DEF ReadLine
<1>9. CASE Done \/ UNCHANGED vars
  BY <1>1, <1>9 DEF Done, vars
<1> QED
  BY <1>2, <1>3, <1>4, <1>5, <1>6, <1>7, <1>8, <1>9 DEF Next

(* The stubs are those of the tables, in order, and a lookup finds them.   *)
LEMMA ParsedIsFound ==
  ASSUME ModuleInv
  PROVE  StubsFound
<1>1. SUFFICES ASSUME phase = "parsed"
               PROVE  /\ Range(stubs) = UNION { Pairs(k) : k \in Whole }
                      /\ total = FoldSet(LAMBDA k, n : Len(module.listed[k].nids) + n, 0, Readable)
                      /\ \A a \in Addresses :
                           IF \E s \in Range(stubs) : s.addr = (a \div 2) * 2
                             THEN vm_find_stub(a) # 0 /\ stubs[vm_find_stub(a)].addr = (a \div 2) * 2
                             ELSE vm_find_stub(a) = 0
  BY Zenon DEF StubsFound
<1>2. module \in Modules /\ Gathered
  BY <1>1 DEF ModuleInv
<1>3. /\ StubList /\ Sorted(stubs) /\ stubs \in Seq(Stub)
      /\ Range(stubs) = GatheredOf(module, WholeOf(module))
      /\ total = Area(LensOf(module), ReadableOf(module))
  BY <1>2 DEF Gathered, StubList
<1>4. Range(stubs) = UNION { Pairs(k) : k \in Whole }
  BY <1>3, GatheredIs
<1>5. total = FoldSet(LAMBDA k, n : Len(module.listed[k].nids) + n, 0, Readable)
  BY <1>2, <1>3, TotalIs
<1>6. ASSUME NEW a \in Addresses
      PROVE  IF \E s \in Range(stubs) : s.addr = (a \div 2) * 2
               THEN vm_find_stub(a) # 0 /\ stubs[vm_find_stub(a)].addr = (a \div 2) * 2
               ELSE vm_find_stub(a) = 0
  <2> DEFINE b == (a \div 2) * 2
             w == vm_find_stub(a)
  <2>1. a \in Nat
    BY ImportsAssumption
  <2>2. Range(stubs) = { stubs[i] : i \in 1 .. Len(stubs) }
    BY <1>3, RangeEquality
  <2>3. IF \E i \in 1 .. Len(stubs) : stubs[i].addr = b
          THEN w \in 1 .. Len(stubs) /\ stubs[w].addr = b
          ELSE w = 0
    BY <1>3, <2>1, Lookup
  <2> HIDE DEF b, w
  <2>4. (\E s \in Range(stubs) : s.addr = b) <=> \E i \in 1 .. Len(stubs) : stubs[i].addr = b
    BY <2>2
  <2>5. \A i \in 1 .. Len(stubs) : i # 0
    OBVIOUS
  <2>6. IF \E s \in Range(stubs) : s.addr = b THEN w # 0 /\ stubs[w].addr = b ELSE w = 0
    BY <2>3, <2>4, <2>5
  <2> QED
    BY <2>6 DEF b, w
<1> QED
  BY <1>4, <1>5, <1>6

(* vm_parse leaves exactly the stubs of the tables it can read whole, for  *)
(* any module, and vm_find_stub finds one at each of their addresses, with *)
(* the Thumb bit or without, and at no other.                              *)
THEOREM StubsAreFound == Spec => []StubsFound
<1>1. ModuleInv /\ [Next]_vars => ModuleInv'
  BY ModuleInvStep
<1> QED
  BY ModuleInvInit, <1>1, ParsedIsFound, PTL DEF Spec

--------------------------------------------------------------------------------
(* The reading of a line, as a function of the locals and the database; the*)
(* database as the sets of its entries.                                    *)

Keys ==
  STRING \cup {NoName, "version", "modules", "libraries", "kernel", "nid", "functions", "variables"}

DbLine    == [ind : Int, key : Keys, val : Int]
FuncEntry == [lib : Int, nid : Int, name : Keys]
LibEntry  == [nid : Int, name : Keys]

State(lib, nid, inF, ind, F, L) ==
  [lib |-> lib, nid |-> nid, inF |-> inF, ind |-> ind, funcs |-> F, libs |-> L]

IsState(x) == x = State(x.lib, x.nid, x.inF, x.ind, x.funcs, x.libs)

Heads(x, ln) ==
  /\ ln.val = Empty /\ ln.key # "libraries" /\ ln.key # "functions"
  /\ x.ind >= 0 /\ ln.ind = x.ind

NamesLib(x, ln) == ln.val # Empty /\ x.inF # 1 /\ ln.key = "nid" /\ x.lib # NoName
AddsLib(x, ln)  == NamesLib(x, ln) /\ ln.val # 0 /\ \A e \in x.libs : e.nid # ln.val
AddsFunc(x, ln) == ln.val # Empty /\ ~NamesLib(x, ln) /\ x.inF = 1 /\ x.nid # 0 /\ ln.val # 0

After(x, ln) ==
  State(IF Heads(x, ln) THEN ln.key ELSE x.lib,
        IF Heads(x, ln) THEN 0 ELSE IF NamesLib(x, ln) THEN ln.val ELSE x.nid,
        IF Heads(x, ln) THEN 0 ELSE IF ln.val = Empty /\ ln.key = "functions" THEN 1 ELSE x.inF,
        IF ln.val = Empty /\ ln.key = "libraries" THEN ln.ind + 2 ELSE x.ind,
        IF AddsFunc(x, ln) THEN x.funcs \cup {[lib |-> x.nid, nid |-> ln.val, name |-> ln.key]}
                           ELSE x.funcs,
        IF AddsLib(x, ln) THEN x.libs \cup {[nid |-> ln.val, name |-> x.lib]} ELSE x.libs)

(* h[i] is the state after i lines. *)
RunsBy(h, x, s, y) ==
  /\ h[0] = x /\ h[Len(s)] = y
  /\ \A i \in 1 .. Len(s) : h[i] = After(h[i - 1], s[i])

Runs(x, s, y) == \E h : RunsBy(h, x, s, y)

LEMMA RunsEmpty ==
  ASSUME NEW x
  PROVE  Runs(x, << >>, x)
<1> DEFINE h == [i \in 0 .. 0 |-> x]
<1>1. RunsBy(h, x, << >>, x)
  BY DEF RunsBy
<1> QED
  BY <1>1 DEF Runs

LEMMA RunsNothing ==
  ASSUME NEW x, NEW y, Runs(x, << >>, y)
  PROVE  x = y
<1>1. PICK h : RunsBy(h, x, << >>, y)
  BY DEF Runs
<1> QED
  BY <1>1 DEF RunsBy

LEMMA RunsOne ==
  ASSUME NEW x, NEW ln
  PROVE  Runs(x, << ln >>, After(x, ln))
<1> DEFINE z == After(x, ln)
           h == [i \in 0 .. 1 |-> IF i = 0 THEN x ELSE z]
           s == << ln >>
<1>1. Len(s) = 1 /\ s[1] = ln /\ h[0] = x /\ h[1] = z /\ 1 - 1 = 0
  OBVIOUS
<1> HIDE DEF h, s
<1>2. \A i \in 1 .. Len(s) : i = 1
  BY <1>1
<1>3. z = After(h[0], s[1])
  BY <1>1
<1> HIDE DEF z
<1>4. \A i \in 1 .. Len(s) : h[i] = After(h[i - 1], s[i])
  BY <1>1, <1>2, <1>3
<1>5. RunsBy(h, x, s, z)
  BY <1>1, <1>4 DEF RunsBy
<1> QED
  BY <1>5, Zenon DEF Runs, s, z

(* Reading one block and then another is reading the two joined.           *)
LEMMA RunsOn ==
  ASSUME NEW a \in Seq(DbLine), NEW b \in Seq(DbLine), NEW x, NEW y, NEW z,
         Runs(x, a, y), Runs(y, b, z)
  PROVE  Runs(x, a \o b, z) /\ a \o b \in Seq(DbLine)
<1> DEFINE m == Len(a)
           n == Len(b)
           c == a \o b
<1>1. PICK g : RunsBy(g, x, a, y)
  BY DEF Runs
<1>2. PICK k : RunsBy(k, y, b, z)
  BY DEF Runs
<1> DEFINE h == [i \in 0 .. m + n |-> IF i <= m THEN g[i] ELSE k[i - m]]
<1>3. m \in Nat /\ n \in Nat /\ Len(c) = m + n /\ c \in Seq(DbLine)
  BY ConcatProperties
<1>4. \A i \in 1 .. m + n : c[i] = IF i <= m THEN a[i] ELSE b[i - m]
  BY ConcatProperties
<1>5. g[0] = x /\ g[m] = y /\ \A i \in 1 .. m : g[i] = After(g[i - 1], a[i])
  BY <1>1 DEF RunsBy
<1>6. k[0] = y /\ k[n] = z /\ \A i \in 1 .. n : k[i] = After(k[i - 1], b[i])
  BY <1>2 DEF RunsBy
<1> HIDE DEF m, n, c
<1>7. h[0] = x
  BY <1>3, <1>5
<1>8. h[m + n] = z
  <2>1. CASE n = 0
    BY <1>3, <1>5, <1>6, <2>1
  <2>2. CASE n # 0
    <3>1. ~(m + n <= m) /\ (m + n) - m = n /\ m + n \in 0 .. m + n
      BY <1>3, <2>2
    <3> QED
      BY <1>6, <3>1
  <2> QED
    BY <2>1, <2>2
<1>9. ASSUME NEW i \in 1 .. m + n
      PROVE  h[i] = After(h[i - 1], c[i])
  <2>1. i \in 0 .. m + n /\ i - 1 \in 0 .. m + n
    BY <1>3
  <2>2. h[i] = (IF i <= m THEN g[i] ELSE k[i - m])
        /\ h[i - 1] = (IF i - 1 <= m THEN g[i - 1] ELSE k[(i - 1) - m])
    BY <2>1
  <2> HIDE DEF h
  <2>3. CASE i <= m
    <3>1. i \in 1 .. m /\ i - 1 <= m
      BY <1>3, <2>3
    <3>2. h[i] = g[i] /\ h[i - 1] = g[i - 1] /\ c[i] = a[i]
      BY <1>4, <2>2, <2>3, <3>1
    <3>3. g[i] = After(g[i - 1], a[i])
      BY <1>5, <3>1
    <3> QED
      BY <3>2, <3>3
  <2>4. CASE i = m + 1
    <3>1. i - m = 1 /\ i - 1 = m /\ ~(i <= m) /\ 1 \in 1 .. n /\ 1 - 1 = 0
      BY <1>3, <2>4
    <3>2. h[i] = k[1] /\ h[i - 1] = k[0] /\ c[i] = b[1]
      BY <1>3, <1>4, <1>5, <1>6, <2>2, <3>1
    <3>3. k[1] = After(k[1 - 1], b[1])
      BY <1>6, <3>1
    <3> QED
      BY <3>1, <3>2, <3>3
  <2>5. CASE i > m + 1
    <3> DEFINE j == i - m
    <3>1. j \in 1 .. n /\ (i - 1) - m = j - 1 /\ ~(i <= m) /\ ~(i - 1 <= m)
      BY <1>3, <2>5
    <3> HIDE DEF j
    <3>2. h[i] = k[j] /\ h[i - 1] = k[j - 1] /\ c[i] = b[j]
      <4>1. j = i - m
        BY DEF j
      <4> QED
        BY <1>4, <2>2, <3>1, <4>1
    <3>3. k[j] = After(k[j - 1], b[j])
      BY <1>6, <3>1
    <3> QED
      BY <3>2, <3>3
  <2> QED
    BY <1>3, <2>3, <2>4, <2>5
<1> HIDE DEF h
<1>10. RunsBy(h, x, c, z)
  BY <1>3, <1>7, <1>8, <1>9 DEF RunsBy
<1>11. Runs(x, c, z)
  BY <1>10, Zenon DEF Runs
<1> QED
  BY <1>3, <1>11 DEF c

LEMMA RunsLine ==
  ASSUME NEW s \in Seq(DbLine), s # << >>, NEW x, NEW y, Runs(x, s, y)
  PROVE  Runs(After(x, Head(s)), Tail(s), y)
<1> DEFINE n == Len(s)
           t == Tail(s)
           z == After(x, Head(s))
<1>1. PICK g : RunsBy(g, x, s, y)
  BY DEF Runs
<1>2. n \in Nat /\ n > 0 /\ Head(s) = s[1] /\ t \in Seq(DbLine) /\ Len(t) = n - 1
      /\ \A i \in 1 .. n - 1 : t[i] = s[i + 1]
  BY HeadTailProperties
<1>3. g[0] = x /\ g[n] = y /\ \A i \in 1 .. n : g[i] = After(g[i - 1], s[i])
  BY <1>1 DEF RunsBy
<1> DEFINE h == [i \in 0 .. n - 1 |-> g[i + 1]]
<1>4. g[1] = z
  <2>1. 1 \in 1 .. n /\ 1 - 1 = 0
    BY <1>2
  <2> QED
    BY <1>2, <1>3, <2>1
<1> HIDE DEF n, t, z
<1>5. h[0] = z /\ h[n - 1] = y
  <2>1. 0 \in 0 .. n - 1 /\ n - 1 \in 0 .. n - 1 /\ (n - 1) + 1 = n /\ 0 + 1 = 1
    BY <1>2
  <2> QED
    BY <1>3, <1>4, <2>1
<1>6. ASSUME NEW i \in 1 .. n - 1
      PROVE  h[i] = After(h[i - 1], t[i])
  <2>1. i \in 0 .. n - 1 /\ i - 1 \in 0 .. n - 1 /\ i + 1 \in 1 .. n /\ (i + 1) - 1 = i /\ (i - 1) + 1 = i
    BY <1>2
  <2>2. h[i] = g[i + 1] /\ h[i - 1] = g[i] /\ t[i] = s[i + 1]
    BY <1>2, <2>1
  <2>3. g[i + 1] = After(g[(i + 1) - 1], s[i + 1])
    BY <1>3, <2>1
  <2> QED
    BY <2>1, <2>2, <2>3
<1> HIDE DEF h
<1>7. RunsBy(h, z, t, y)
  BY <1>2, <1>5, <1>6 DEF RunsBy
<1> QED
  BY <1>7, Zenon DEF Runs, z, t

(* What each kind of line of the format does. *)
LEMMA LineIs ==
  ASSUME NEW i \in Int, NEW k \in Keys, NEW v \in Int
  PROVE  /\ Line(i, k, v) \in DbLine
         /\ Line(i, k, v).ind = i /\ Line(i, k, v).key = k /\ Line(i, k, v).val = v
         /\ << Line(i, k, v) >> \in Seq(DbLine)
<1>1. Line(i, k, v) \in DbLine /\ Line(i, k, v).ind = i /\ Line(i, k, v).key = k /\ Line(i, k, v).val = v
  BY DEF Line, DbLine
<1> QED
  BY <1>1

LEMMA AfterIs ==
  ASSUME NEW x, NEW ln
  PROVE  IsState(After(x, ln))
BY DEF IsState, After, State

(* A library of the database opens.  *)
LEMMA AfterName ==
  ASSUME NEW x, IsState(x), x.ind = 6, NEW k, k # "libraries", k # "functions"
  PROVE  After(x, Line(6, k, Empty)) = State(k, 0, 0, 6, x.funcs, x.libs)
<1> DEFINE ln == Line(6, k, Empty)
<1>1. ln.ind = 6 /\ ln.key = k /\ ln.val = Empty
  BY DEF Line
<1> HIDE DEF ln
<1>2. Heads(x, ln) /\ ~AddsFunc(x, ln) /\ ~AddsLib(x, ln)
  BY <1>1 DEF Heads, AddsFunc, AddsLib, NamesLib
<1> QED
  BY <1>1, <1>2 DEF After, ln

(* A value outside the functions that is no NID of a library.              *)
LEMMA AfterValue ==
  ASSUME NEW x, IsState(x), x.inF # 1, NEW i, NEW k, k # "nid" \/ x.lib = NoName, NEW v \in Nat
  PROVE  After(x, Line(i, k, v)) = x
<1> DEFINE ln == Line(i, k, v)
<1>1. ln.ind = i /\ ln.key = k /\ ln.val = v /\ v # Empty
  BY DEF Line, Empty
<1> HIDE DEF ln
<1>2. ~Heads(x, ln) /\ ~AddsFunc(x, ln) /\ ~AddsLib(x, ln) /\ ~NamesLib(x, ln)
  BY <1>1 DEF Heads, AddsFunc, AddsLib, NamesLib
<1> QED
  BY <1>1, <1>2 DEF After, IsState, ln

(* The NID of a library: its first name is kept. *)
Named(L, v, k) == IF \A e \in L : e.nid # v THEN L \cup {[nid |-> v, name |-> k]} ELSE L

LEMMA AfterNid ==
  ASSUME NEW x, IsState(x), x.inF # 1, x.lib # NoName, NEW i, NEW v \in Nat
  PROVE  After(x, Line(i, "nid", v))
           = State(x.lib, v, x.inF, x.ind, x.funcs,
                   IF v # 0 THEN Named(x.libs, v, x.lib) ELSE x.libs)
<1> DEFINE ln == Line(i, "nid", v)
<1>1. ln.ind = i /\ ln.key = "nid" /\ ln.val = v /\ v # Empty
  BY DEF Line, Empty
<1> HIDE DEF ln
<1>2. ~Heads(x, ln) /\ ~AddsFunc(x, ln) /\ NamesLib(x, ln)
  BY <1>1 DEF Heads, AddsFunc, NamesLib
<1>3. AddsLib(x, ln) <=> v # 0 /\ \A e \in x.libs : e.nid # v
  BY <1>1, <1>2 DEF AddsLib
<1> QED
  BY <1>1, <1>2, <1>3 DEF After, Named, ln

(* An entry among the functions.  *)
LEMMA AfterEntry ==
  ASSUME NEW x, IsState(x), x.inF = 1, NEW i, NEW k, NEW v \in Nat \ {0}
  PROVE  After(x, Line(i, k, v))
           = State(x.lib, x.nid, 1, x.ind,
                   IF x.nid # 0 THEN x.funcs \cup {[lib |-> x.nid, nid |-> v, name |-> k]}
                                ELSE x.funcs,
                   x.libs)
<1> DEFINE ln == Line(i, k, v)
<1>1. ln.ind = i /\ ln.key = k /\ ln.val = v /\ v # Empty /\ v # 0
  BY DEF Line, Empty
<1> HIDE DEF ln
<1>2. ~Heads(x, ln) /\ ~NamesLib(x, ln) /\ ~AddsLib(x, ln) /\ (AddsFunc(x, ln) <=> x.nid # 0)
  BY <1>1 DEF Heads, AddsFunc, NamesLib, AddsLib
<1> QED
  BY <1>1, <1>2 DEF After, ln

(* A section: the libraries of a module, the functions of a library, and   *)
(* those that are neither at the indent of a library.                      *)
LEMMA AfterSection ==
  ASSUME NEW x, IsState(x), NEW i \in Nat
  PROVE  /\ After(x, Line(i, "libraries", Empty))
              = State(x.lib, x.nid, x.inF, i + 2, x.funcs, x.libs)
         /\ After(x, Line(i, "functions", Empty))
              = State(x.lib, x.nid, 1, x.ind, x.funcs, x.libs)
         /\ \A k : k # "libraries" /\ k # "functions" /\ i # x.ind
              => After(x, Line(i, k, Empty)) = x
<1>1. ASSUME NEW k, k = "libraries" \/ k = "functions" \/ i # x.ind
      PROVE  /\ Line(i, k, Empty).ind = i /\ Line(i, k, Empty).key = k /\ Line(i, k, Empty).val = Empty
             /\ ~NamesLib(x, Line(i, k, Empty)) /\ ~AddsLib(x, Line(i, k, Empty))
             /\ ~AddsFunc(x, Line(i, k, Empty)) /\ ~Heads(x, Line(i, k, Empty))
  <2> DEFINE ln == Line(i, k, Empty)
  <2>1. ln.ind = i /\ ln.key = k /\ ln.val = Empty
    BY DEF Line
  <2> HIDE DEF ln
  <2>2. ~NamesLib(x, ln) /\ ~AddsLib(x, ln) /\ ~AddsFunc(x, ln) /\ ~Heads(x, ln)
    BY <1>1, <2>1 DEF NamesLib, AddsLib, AddsFunc, Heads
  <2> QED
    BY <2>1, <2>2 DEF ln
<1>2. After(x, Line(i, "libraries", Empty)) = State(x.lib, x.nid, x.inF, i + 2, x.funcs, x.libs)
  <2> DEFINE ln == Line(i, "libraries", Empty)
  <2>1. /\ ln.ind = i /\ ln.key = "libraries" /\ ln.val = Empty
        /\ ~NamesLib(x, ln) /\ ~AddsLib(x, ln) /\ ~AddsFunc(x, ln) /\ ~Heads(x, ln)
    BY <1>1, Zenon
  <2> HIDE DEF ln
  <2> QED
    BY <2>1 DEF After, ln
<1>3. After(x, Line(i, "functions", Empty)) = State(x.lib, x.nid, 1, x.ind, x.funcs, x.libs)
  <2> DEFINE ln == Line(i, "functions", Empty)
  <2>1. /\ ln.ind = i /\ ln.key = "functions" /\ ln.val = Empty
        /\ ~NamesLib(x, ln) /\ ~AddsLib(x, ln) /\ ~AddsFunc(x, ln) /\ ~Heads(x, ln)
    BY <1>1, Zenon
  <2> HIDE DEF ln
  <2> QED
    BY <2>1 DEF After, ln
<1>4. ASSUME NEW k, k # "libraries", k # "functions", i # x.ind
      PROVE  After(x, Line(i, k, Empty)) = x
  <2> DEFINE ln == Line(i, k, Empty)
  <2>1. /\ ln.ind = i /\ ln.key = k /\ ln.val = Empty
        /\ ~NamesLib(x, ln) /\ ~AddsLib(x, ln) /\ ~AddsFunc(x, ln) /\ ~Heads(x, ln)
    BY <1>1, <1>4
  <2> HIDE DEF ln
  <2> QED
    BY <1>4, <2>1 DEF After, IsState, ln
<1> QED
  BY <1>2, <1>3, <1>4

(* The entries of a section of a library, one line each. *)
EntryOf(lib, e) == [lib |-> lib, nid |-> e.nid, name |-> e.name]

EntriesOf(lib, E) == IF lib # 0 THEN { EntryOf(lib, e) : e \in E } ELSE {}

EntryLines(es) == [k \in 1 .. Len(es) |-> Line(10, es[k].name, es[k].nid)]

LEMMA EntriesRun ==
  ASSUME NEW es \in Seq(DbEntry), NEW x, IsState(x), x.inF = 1
  PROVE  /\ EntryLines(es) \in Seq(DbLine)
         /\ Runs(x, EntryLines(es),
                 State(x.lib, x.nid, 1, x.ind, x.funcs \cup EntriesOf(x.nid, Range(es)), x.libs))
<1> DEFINE n == Len(es)
           s == EntryLines(es)
           E(i) == { es[k] : k \in 1 .. i }
           Z(i) == State(x.lib, x.nid, 1, x.ind, x.funcs \cup EntriesOf(x.nid, E(i)), x.libs)
           h == [i \in 0 .. n |-> Z(i)]
<1>1. n \in Nat /\ \A k \in 1 .. n : es[k] \in DbEntry
  BY ElementOfSeq
<1>2. \A k \in 1 .. n : es[k].name \in STRING /\ es[k].nid \in Nat \ {0}
  BY <1>1 DEF DbEntry
<1>3. s \in Seq(DbLine) /\ Len(s) = n /\ \A k \in 1 .. n : s[k] = Line(10, es[k].name, es[k].nid)
  <2>1. ASSUME NEW k \in 1 .. n
        PROVE  Line(10, es[k].name, es[k].nid) \in DbLine
    <3>1. 10 \in Int /\ es[k].name \in Keys /\ es[k].nid \in Int
      BY <1>2 DEF Keys
    <3> QED
      BY <3>1, LineIs, Zenon
  <2> QED
    BY <1>1, <2>1 DEF EntryLines
<1>4. E(n) = Range(es)
  BY RangeEquality
<1>5. Z(0) = x
  <2>1. E(0) = {}
    OBVIOUS
  <2> HIDE DEF E
  <2>2. EntriesOf(x.nid, E(0)) = {}
    BY <2>1 DEF EntriesOf
  <2>3. x.funcs \cup EntriesOf(x.nid, E(0)) = x.funcs
    BY <2>2
  <2> QED
    BY <2>3, Zenon DEF IsState
<1>6. ASSUME NEW i \in 1 .. n
      PROVE  Z(i) = After(Z(i - 1), s[i])
  <2> DEFINE z == Z(i - 1)
             e == es[i]
             F == x.funcs \cup EntriesOf(x.nid, E(i - 1))
  <2>1. E(i) = E(i - 1) \cup {e}
    BY <1>1
  <2>2. s[i] = Line(10, e.name, e.nid) /\ e.nid \in Nat \ {0}
    BY <1>2, <1>3
  <2> HIDE DEF s, e
  <2>3. z.lib = x.lib /\ z.nid = x.nid /\ z.inF = 1 /\ z.ind = x.ind /\ z.funcs = F /\ z.libs = x.libs
        /\ IsState(z)
    BY DEF State, IsState
  <2> HIDE DEF z, F, E
  <2>6. After(z, Line(10, e.name, e.nid))
          = State(z.lib, z.nid, 1, z.ind,
                  IF z.nid # 0 THEN z.funcs \cup {[lib |-> z.nid, nid |-> e.nid, name |-> e.name]}
                               ELSE z.funcs, z.libs)
    BY <2>2, <2>3, AfterEntry, Zenon
  <2>4. After(z, s[i]) = State(x.lib, x.nid, 1, x.ind,
                               IF x.nid # 0 THEN F \cup {EntryOf(x.nid, e)} ELSE F, x.libs)
    BY <2>2, <2>3, <2>6 DEF EntryOf
  <2>5. (IF x.nid # 0 THEN F \cup {EntryOf(x.nid, e)} ELSE F) = x.funcs \cup EntriesOf(x.nid, E(i))
    BY <2>1 DEF EntriesOf, F
  <2> QED
    BY <2>4, <2>5 DEF z
<1>7. ASSUME NEW i \in 1 .. n
      PROVE  h[i] = After(h[i - 1], s[i])
  <2>1. i \in 0 .. n /\ i - 1 \in 0 .. n
    BY <1>1
  <2> HIDE DEF Z, s
  <2>2. h[i] = Z(i) /\ h[i - 1] = Z(i - 1)
    BY <2>1
  <2> HIDE DEF h
  <2> QED
    BY <1>6, <2>2
<1> HIDE DEF Z, s
<1>8. h[0] = x /\ h[n] = Z(n)
  BY <1>1, <1>5
<1> HIDE DEF h
<1>9. RunsBy(h, x, s, Z(n))
  BY <1>3, <1>7, <1>8 DEF RunsBy
<1>10. Runs(x, s, Z(n))
  BY <1>9, Zenon DEF Runs
<1>11. Z(n) = State(x.lib, x.nid, 1, x.ind, x.funcs \cup EntriesOf(x.nid, Range(es)), x.libs)
  BY <1>4, Zenon DEF Z
<1> QED
  BY <1>3, <1>10, <1>11, Zenon DEF s

(* Entries outside the functions are passed over: none is called nid.      *)
LEMMA EntriesSkipped ==
  ASSUME NEW es \in Seq(DbEntry), NEW x, IsState(x), x.inF # 1
  PROVE  EntryLines(es) \in Seq(DbLine) /\ Runs(x, EntryLines(es), x)
<1> DEFINE n == Len(es)
           s == EntryLines(es)
           h == [i \in 0 .. n |-> x]
<1>1. n \in Nat /\ \A k \in 1 .. n : es[k] \in DbEntry
  BY ElementOfSeq
<1>2. \A k \in 1 .. n : es[k].name \in STRING /\ es[k].name # "nid" /\ es[k].nid \in Nat
  BY <1>1 DEF DbEntry
<1>3. s \in Seq(DbLine) /\ Len(s) = n /\ \A k \in 1 .. n : s[k] = Line(10, es[k].name, es[k].nid)
  <2>1. ASSUME NEW k \in 1 .. n
        PROVE  Line(10, es[k].name, es[k].nid) \in DbLine
    <3>1. 10 \in Int /\ es[k].name \in Keys /\ es[k].nid \in Int
      BY <1>2 DEF Keys
    <3> QED
      BY <3>1, LineIs, Zenon
  <2> QED
    BY <1>1, <2>1 DEF EntryLines
<1> HIDE DEF s
<1>4. \A i \in 1 .. n : After(x, s[i]) = x
  BY <1>2, <1>3, AfterValue
<1>5. h[0] = x /\ h[n] = x /\ \A i \in 1 .. n : h[i] = x /\ h[i - 1] = x
  BY <1>1
<1> HIDE DEF h, n
<1>6. \A i \in 1 .. n : h[i] = After(h[i - 1], s[i])
  BY <1>4, <1>5
<1>7. RunsBy(h, x, s, x)
  BY <1>3, <1>5, <1>6 DEF RunsBy
<1>8. Runs(x, s, x)
  BY <1>7, Zenon DEF Runs
<1> QED
  BY <1>3, <1>8, Zenon DEF s

--------------------------------------------------------------------------------
(* The lines of a library, of a module and of a file, each as a whole.     *)

NewLibs(L, l) == IF l.nid # 0 THEN Named(L, l.nid, l.name) ELSE L

(* Whether the functions of a library are read when it ends.               *)
Opens(l) == IF l.funcs # << >> THEN 1 ELSE 0

(* Variables after functions are read as functions. *)
LibEntries(l) ==
  EntriesOf(l.nid, Range(l.funcs))
  \cup (IF l.funcs # << >> THEN EntriesOf(l.nid, Range(l.vars)) ELSE {})

LEMMA RunsTwo ==
  ASSUME NEW a \in DbLine, NEW b \in DbLine, NEW x, NEW y, NEW z,
         y = After(x, a), z = After(y, b)
  PROVE  Runs(x, << a, b >>, z) /\ << a, b >> \in Seq(DbLine)
<1> DEFINE s == << a, b >>
           h == [i \in 0 .. 2 |-> IF i = 0 THEN x ELSE IF i = 1 THEN y ELSE z]
<1>1. Len(s) = 2 /\ s[1] = a /\ s[2] = b /\ s \in Seq(DbLine)
  OBVIOUS
<1>2. h[0] = x /\ h[1] = y /\ h[2] = z /\ 1 - 1 = 0 /\ 2 - 1 = 1
  OBVIOUS
<1> HIDE DEF s, h
<1>3. \A i \in 1 .. Len(s) : i = 1 \/ i = 2
  BY <1>1
<1>4. \A i \in 1 .. Len(s) : h[i] = After(h[i - 1], s[i])
  BY <1>1, <1>2, <1>3
<1>5. RunsBy(h, x, s, z)
  BY <1>1, <1>2, <1>4 DEF RunsBy
<1>6. Runs(x, s, z)
  BY <1>5, Zenon DEF Runs
<1> QED
  BY <1>1, <1>6 DEF s

LEMMA StateIs ==
  ASSUME NEW a, NEW b, NEW c, NEW d, NEW F, NEW L, NEW x, x = State(a, b, c, d, F, L)
  PROVE  /\ IsState(x)
         /\ x.lib = a /\ x.nid = b /\ x.inF = c /\ x.ind = d /\ x.funcs = F /\ x.libs = L
BY DEF State, IsState

(* A whole library: its entries are added, and its name if it is the first.*)
LEMMA LibRun ==
  ASSUME NEW l \in DbLib, NEW x, IsState(x), x.ind = 6
  PROVE  /\ LibLines(l) \in Seq(DbLine)
         /\ Runs(x, LibLines(l),
                 State(l.name, l.nid, Opens(l), 6, x.funcs \cup LibEntries(l), NewLibs(x.libs, l)))
<1> DEFINE p1 == << Line(6, l.name, Empty), Line(8, "kernel", 0) >>
           p2 == IF l.nid # 0 THEN << Line(8, "nid", l.nid) >> ELSE << >>
           p3 == IF l.funcs # << >> THEN << Line(8, "functions", Empty) >> ELSE << >>
           p4 == EntryLines(l.funcs)
           p5 == IF l.vars # << >> THEN << Line(8, "variables", Empty) >> ELSE << >>
           p6 == EntryLines(l.vars)
           L2 == NewLibs(x.libs, l)
           F4 == x.funcs \cup EntriesOf(l.nid, Range(l.funcs))
           F6 == F4 \cup (IF l.funcs # << >> THEN EntriesOf(l.nid, Range(l.vars)) ELSE {})
           o == Opens(l)
           x1 == State(l.name, 0, 0, 6, x.funcs, x.libs)
           x2 == State(l.name, l.nid, 0, 6, x.funcs, L2)
           x3 == State(l.name, l.nid, o, 6, x.funcs, L2)
           x4 == State(l.name, l.nid, o, 6, F4, L2)
           x6 == State(l.name, l.nid, o, 6, F6, L2)
<1>1. /\ l.name \in STRING /\ l.name # NoName /\ l.name # "libraries" /\ l.name # "functions"
      /\ l.nid \in Nat /\ l.funcs \in Seq(DbEntry) /\ l.vars \in Seq(DbEntry) /\ l.name \in Keys
      /\ "kernel" \in Keys /\ "nid" \in Keys /\ "functions" \in Keys /\ "variables" \in Keys
  BY DEF DbLib, Keys
<1>2. LibLines(l) = ((((p1 \o p2) \o p3) \o p4) \o p5) \o p6
  BY Zenon DEF LibLines, EntryLines
<1>3. Empty \in Int /\ 6 \in Int /\ 8 \in Nat /\ 8 \in Int /\ 0 \in Int /\ 0 \in Nat /\ 8 # 6 /\ 0 # 1
  BY DEF Empty
<1>4. p1 \in Seq(DbLine) /\ Runs(x, p1, x1)
  <2>1. Line(6, l.name, Empty) \in DbLine /\ Line(8, "kernel", 0) \in DbLine
    BY <1>1, <1>3, LineIs
  <2>2. x1 = After(x, Line(6, l.name, Empty))
    BY <1>1, AfterName
  <2> HIDE DEF x1
  <2>3. IsState(x1) /\ x1.inF = 0
    BY StateIs DEF x1
  <2>4. After(x1, Line(8, "kernel", 0)) = x1
    BY <1>3, <2>3, AfterValue
  <2> QED
    BY <2>1, <2>2, <2>4, RunsTwo
<1>5. p2 \in Seq(DbLine) /\ Runs(x1, p2, x2)
  <2>1. /\ IsState(x1) /\ x1.lib = l.name /\ x1.nid = 0 /\ x1.inF = 0 /\ x1.ind = 6
        /\ x1.funcs = x.funcs /\ x1.libs = x.libs
    BY StateIs DEF x1
  <2> HIDE DEF x1
  <2>2. CASE l.nid = 0
    <3>1. L2 = x.libs /\ p2 = << >>
      BY <2>2 DEF NewLibs
    <3>2. x2 = x1
      BY <2>2, <3>1 DEF x1
    <3>3. << >> \in Seq(DbLine)
      OBVIOUS
    <3> HIDE DEF x2, p2
    <3> QED
      BY <3>1, <3>2, <3>3, RunsEmpty
  <2>3. CASE l.nid # 0
    <3> DEFINE ln == Line(8, "nid", l.nid)
    <3>1. p2 = << ln >>
      BY <2>3
    <3>2. << ln >> \in Seq(DbLine)
      BY <1>1, <1>3, LineIs
    <3>3. x1.lib # NoName /\ x1.inF # 1 /\ l.nid \in Nat \ {0}
      BY <1>1, <2>1, <2>3
    <3>4. After(x1, ln) = State(x1.lib, l.nid, x1.inF, x1.ind, x1.funcs, Named(x1.libs, l.nid, x1.lib))
      BY <2>1, <3>3, AfterNid, Zenon
    <3>5. L2 = Named(x1.libs, l.nid, x1.lib)
      BY <2>1, <2>3 DEF NewLibs
    <3> HIDE DEF L2, ln
    <3>6. After(x1, ln) = x2
      BY <2>1, <3>4, <3>5
    <3>7. Runs(x1, << ln >>, x2)
      BY <3>6, RunsOne
    <3> HIDE DEF p2, x2
    <3> QED
      BY <3>1, <3>2, <3>7
  <2> QED
    BY <2>2, <2>3
<1>6. p3 \in Seq(DbLine) /\ Runs(x2, p3, x3)
  <2>1. /\ IsState(x2) /\ x2.lib = l.name /\ x2.nid = l.nid /\ x2.ind = 6
        /\ x2.funcs = x.funcs /\ x2.libs = L2
    BY StateIs DEF x2
  <2>2. CASE l.funcs # << >>
    <3>1. p3 = << Line(8, "functions", Empty) >> /\ o = 1
      BY <2>2 DEF Opens
    <3> HIDE DEF x2, L2
    <3>2. After(x2, Line(8, "functions", Empty)) = x3
      BY <1>3, <2>1, <3>1, AfterSection
    <3>3. << Line(8, "functions", Empty) >> \in Seq(DbLine)
      BY <1>1, <1>3, LineIs
    <3> HIDE DEF x3, p3
    <3> QED
      BY <3>1, <3>2, <3>3, RunsOne
  <2>3. CASE l.funcs = << >>
    <3>1. p3 = << >> /\ o = 0
      BY <2>3 DEF Opens
    <3>2. x3 = x2
      BY <3>1
    <3>3. << >> \in Seq(DbLine)
      OBVIOUS
    <3> HIDE DEF x2, x3, p3
    <3> QED
      BY <3>1, <3>2, <3>3, RunsEmpty
  <2> QED
    BY <2>2, <2>3
<1>7. p4 \in Seq(DbLine) /\ Runs(x3, p4, x4)
  <2>1. /\ IsState(x3) /\ x3.lib = l.name /\ x3.nid = l.nid /\ x3.inF = o /\ x3.ind = 6
        /\ x3.funcs = x.funcs /\ x3.libs = L2
    BY StateIs DEF x3
  <2>2. CASE l.funcs # << >>
    <3>1. o = 1
      BY <2>2 DEF Opens
    <3> HIDE DEF x3, L2, o
    <3>2. p4 \in Seq(DbLine)
          /\ Runs(x3, p4, State(x3.lib, x3.nid, 1, x3.ind,
                                x3.funcs \cup EntriesOf(x3.nid, Range(l.funcs)), x3.libs))
      BY <1>1, <2>1, <3>1, EntriesRun, Zenon
    <3> HIDE DEF p4
    <3> QED
      BY <2>1, <3>1, <3>2
  <2>3. CASE l.funcs = << >>
    <3>1. o = 0 /\ 0 # 1
      BY <2>3 DEF Opens
    <3>2. Range(l.funcs) = {}
      BY <2>3 DEF Range
    <3>3. F4 = x.funcs
      BY <3>2 DEF EntriesOf
    <3>4. x4 = x3
      BY <3>3
    <3> HIDE DEF x3, x4, p4
    <3>5. EntryLines(l.funcs) \in Seq(DbLine) /\ Runs(x3, EntryLines(l.funcs), x3)
      BY <1>1, <2>1, <3>1, EntriesSkipped
    <3> QED
      BY <3>4, <3>5 DEF p4
  <2> QED
    BY <2>2, <2>3
<1>8. p5 \in Seq(DbLine) /\ Runs(x4, p5, x4)
  <2>1. IsState(x4) /\ x4.ind = 6
    BY StateIs DEF x4
  <2> HIDE DEF x4
  <2>2. "variables" # "libraries" /\ "variables" # "functions"
    OBVIOUS
  <2>3. After(x4, Line(8, "variables", Empty)) = x4
    BY <1>3, <2>1, <2>2, AfterSection
  <2>4. Runs(x4, << Line(8, "variables", Empty) >>, x4)
    BY <2>3, RunsOne
  <2>5. Runs(x4, << >>, x4) /\ << >> \in Seq(DbLine) /\ << Line(8, "variables", Empty) >> \in Seq(DbLine)
    BY <1>1, <1>3, LineIs, RunsEmpty
  <2> QED
    BY <2>4, <2>5
<1>9. p6 \in Seq(DbLine) /\ Runs(x4, p6, x6)
  <2>1. /\ IsState(x4) /\ x4.lib = l.name /\ x4.nid = l.nid /\ x4.inF = o /\ x4.ind = 6
        /\ x4.funcs = F4 /\ x4.libs = L2
    BY StateIs DEF x4
  <2>2. CASE l.funcs # << >>
    <3>1. o = 1 /\ F6 = F4 \cup EntriesOf(l.nid, Range(l.vars))
      BY <2>2 DEF Opens
    <3> HIDE DEF x4, L2, F4, F6, o
    <3>2. p6 \in Seq(DbLine)
          /\ Runs(x4, p6, State(x4.lib, x4.nid, 1, x4.ind,
                                x4.funcs \cup EntriesOf(x4.nid, Range(l.vars)), x4.libs))
      BY <1>1, <2>1, <3>1, EntriesRun, Zenon
    <3> HIDE DEF p6
    <3> QED
      BY <2>1, <3>1, <3>2
  <2>3. CASE l.funcs = << >>
    <3>1. o = 0 /\ 0 # 1 /\ F6 = F4
      BY <2>3 DEF Opens
    <3> HIDE DEF F4, F6
    <3>2. x6 = x4
      BY <3>1
    <3> HIDE DEF x4, x6, p6
    <3>3. EntryLines(l.vars) \in Seq(DbLine) /\ Runs(x4, EntryLines(l.vars), x4)
      BY <1>1, <2>1, <3>1, EntriesSkipped
    <3> QED
      BY <3>2, <3>3 DEF p6
  <2> QED
    BY <2>2, <2>3
<1>10. x6 = State(l.name, l.nid, Opens(l), 6, x.funcs \cup LibEntries(l), NewLibs(x.libs, l))
  <2>1. F6 = x.funcs \cup LibEntries(l)
    BY DEF LibEntries
  <2> HIDE DEF F6
  <2> QED
    BY <2>1
<1> HIDE DEF p1, p2, p3, p4, p5, p6, x1, x2, x3, x4, x6
<1>11. p1 \o p2 \in Seq(DbLine) /\ Runs(x, p1 \o p2, x2)
  BY <1>4, <1>5, RunsOn, Zenon
<1>12. (p1 \o p2) \o p3 \in Seq(DbLine) /\ Runs(x, (p1 \o p2) \o p3, x3)
  BY <1>6, <1>11, RunsOn, Zenon
<1>13. ((p1 \o p2) \o p3) \o p4 \in Seq(DbLine) /\ Runs(x, ((p1 \o p2) \o p3) \o p4, x4)
  BY <1>7, <1>12, RunsOn, Zenon
<1>14. (((p1 \o p2) \o p3) \o p4) \o p5 \in Seq(DbLine)
       /\ Runs(x, (((p1 \o p2) \o p3) \o p4) \o p5, x4)
  BY <1>8, <1>13, RunsOn, Zenon
<1>15. ((((p1 \o p2) \o p3) \o p4) \o p5) \o p6 \in Seq(DbLine)
       /\ Runs(x, ((((p1 \o p2) \o p3) \o p4) \o p5) \o p6, x6)
  BY <1>9, <1>14, RunsOn, Zenon
<1> QED
  BY <1>2, <1>10, <1>15, Zenon

(* What reading adds to the names of libraries: those of the libraries A,  *)
(* and perhaps some under the NIDs V.                                      *)
LibsGrow(L, A, V, M) ==
  /\ L \subseteq M
  /\ \A e \in M : e \in L \/ e.nid \in V \/ \E l \in A : e = [nid |-> l.nid, name |-> l.name]
  /\ \A l \in A : l.nid # 0 => \E e \in M : e.nid = l.nid

LEMMA GrowNone ==
  ASSUME NEW L, NEW V
  PROVE  LibsGrow(L, {}, V, L)
BY DEF LibsGrow

LEMMA GrowNamed ==
  ASSUME NEW L, NEW v, NEW k
  PROVE  LibsGrow(L, {}, {v}, Named(L, v, k))
<1> DEFINE r == [nid |-> v, name |-> k]
<1>1. r.nid = v
  OBVIOUS
<1> HIDE DEF r
<1>2. Named(L, v, k) = IF \A e \in L : e.nid # v THEN L \cup {r} ELSE L
  BY DEF Named, r
<1> QED
  BY <1>1, <1>2 DEF LibsGrow

LEMMA GrowOne ==
  ASSUME NEW L, NEW l
  PROVE  LibsGrow(L, {l}, {}, NewLibs(L, l))
<1> DEFINE r == [nid |-> l.nid, name |-> l.name]
<1>1. r.nid = l.nid
  OBVIOUS
<1> HIDE DEF r
<1>2. NewLibs(L, l) = IF l.nid # 0 /\ \A e \in L : e.nid # l.nid THEN L \cup {r} ELSE L
  BY DEF NewLibs, Named, r
<1>3. LibsGrow(L, {l}, {}, NewLibs(L, l)) <=>
        /\ L \subseteq NewLibs(L, l)
        /\ \A e \in NewLibs(L, l) : e \in L \/ e = r
        /\ l.nid # 0 => \E e \in NewLibs(L, l) : e.nid = l.nid
  BY DEF LibsGrow, r
<1> QED
  BY <1>1, <1>2, <1>3

LEMMA GrowOn ==
  ASSUME NEW L, NEW M, NEW N, NEW A, NEW B, NEW V, NEW W,
         LibsGrow(L, A, V, M), LibsGrow(M, B, W, N)
  PROVE  LibsGrow(L, A \cup B, V \cup W, N)
<1>1. L \subseteq N
  BY DEF LibsGrow
<1>2. ASSUME NEW e \in N
      PROVE  e \in L \/ e.nid \in V \cup W \/ \E l \in A \cup B : e = [nid |-> l.nid, name |-> l.name]
  <2>1. e \in M \/ e.nid \in W \/ \E l \in B : e = [nid |-> l.nid, name |-> l.name]
    BY Zenon DEF LibsGrow
  <2>2. e \in M => e \in L \/ e.nid \in V \/ \E l \in A : e = [nid |-> l.nid, name |-> l.name]
    BY Zenon DEF LibsGrow
  <2> QED
    BY <2>1, <2>2, Zenon
<1>3. ASSUME NEW l \in A \cup B, l.nid # 0
      PROVE  \E e \in N : e.nid = l.nid
  <2>1. CASE l \in A
    <3>1. PICK e \in M : e.nid = l.nid
      BY <1>3, <2>1, Zenon DEF LibsGrow
    <3>2. e \in N
      BY DEF LibsGrow
    <3> QED
      BY <3>1, <3>2
  <2>2. CASE l \in B
    BY <1>3, <2>2, Zenon DEF LibsGrow
  <2> QED
    BY <2>1, <2>2
<1> QED
  BY <1>1, <1>2, <1>3, Zenon DEF LibsGrow

--------------------------------------------------------------------------------
(* The lines of the libraries of a module, and of the modules of a file.    *)

LEMMA RangeUpTo ==
  ASSUME NEW S, NEW s \in Seq(S)
  PROVE  Range(s) = { s[j] : j \in 1 .. Len(s) }
BY RangeEquality

(* The libraries of a module, k of them read. *)
LibsDone(x, ls, k, y) ==
  /\ IsState(y) /\ y.ind = 6
  /\ k = 0 => y = x
  /\ k # 0 => y.lib = ls[k].name /\ y.nid = ls[k].nid /\ y.inF = Opens(ls[k])
  /\ y.funcs = x.funcs \cup UNION { LibEntries(ls[j]) : j \in 1 .. k }
  /\ LibsGrow(x.libs, { ls[j] : j \in 1 .. k }, {}, y.libs)

LibBlocks(ls) == [k \in 1 .. Len(ls) |-> LibLines(ls[k])]

LEMMA LibBlocksType ==
  ASSUME NEW ls \in Seq(DbLib)
  PROVE  /\ LibBlocks(ls) \in Seq(Seq(DbLine)) /\ Len(LibBlocks(ls)) = Len(ls) /\ Len(ls) \in Nat
         /\ \A k \in 1 .. Len(ls) : ls[k] \in DbLib /\ LibBlocks(ls)[k] = LibLines(ls[k])
<1>1. Len(ls) \in Nat /\ \A k \in 1 .. Len(ls) : ls[k] \in DbLib
  BY ElementOfSeq
<1>2. ASSUME NEW l \in DbLib
      PROVE  LibLines(l) \in Seq(DbLine)
  <2> DEFINE x == State(NoName, 0, 0, 6, {}, {})
  <2>1. IsState(x) /\ x.ind = 6
    BY StateIs
  <2> HIDE DEF x
  <2> QED
    BY <2>1, LibRun, Zenon
<1>3. \A k \in 1 .. Len(ls) : LibLines(ls[k]) \in Seq(DbLine)
  BY <1>1, <1>2
<1> QED
  BY <1>1, <1>3 DEF LibBlocks

LEMMA LibsRun ==
  ASSUME NEW ls \in Seq(DbLib), NEW x, IsState(x), x.ind = 6
  PROVE  /\ FlattenSeq(LibBlocks(ls)) \in Seq(DbLine)
         /\ \E y : Runs(x, FlattenSeq(LibBlocks(ls)), y) /\ LibsDone(x, ls, Len(ls), y)
<1> DEFINE n == Len(ls)
           s == LibBlocks(ls)
<1>1. /\ s \in Seq(Seq(DbLine)) /\ Len(s) = n /\ n \in Nat
      /\ \A k \in 1 .. n : ls[k] \in DbLib /\ s[k] = LibLines(ls[k])
  BY LibBlocksType
<1> HIDE DEF s, n
<1>2. PICK g : Flattens(g, s, DbLine)
  BY <1>1, FlattenIs
<1>3. g[0] = << >> /\ \A k \in 1 .. n : g[k] = g[k - 1] \o s[k] /\ g[k - 1] \in Seq(DbLine)
  <2>1. g \in [0 .. n -> Seq(DbLine)] /\ g[0] = << >> /\ \A k \in 1 .. n : g[k] = g[k - 1] \o s[k]
    BY <1>1, <1>2 DEF Flattens
  <2>2. \A k \in 1 .. n : k - 1 \in 0 .. n
    BY <1>1
  <2> QED
    BY <2>1, <2>2
<1> DEFINE T == { k \in Nat : k <= n => \E y : Runs(x, g[k], y) /\ LibsDone(x, ls, k, y) }
<1>4. 0 \in T
  <2>1. Runs(x, g[0], x)
    BY <1>3, RunsEmpty
  <2>2. LibsDone(x, ls, 0, x)
    <3> DEFINE A == { ls[j] : j \in 1 .. 0 }
               F == UNION { LibEntries(ls[j]) : j \in 1 .. 0 }
    <3>1. A = {} /\ F = {}
      OBVIOUS
    <3>2. LibsGrow(x.libs, A, {}, x.libs)
      BY <3>1, GrowNone
    <3>3. x.funcs = x.funcs \cup F
      BY <3>1
    <3> HIDE DEF A, F
    <3> QED
      BY <3>2, <3>3 DEF LibsDone, A, F
  <2> QED
    BY <2>1, <2>2
<1>5. ASSUME NEW k \in Nat, k \in T
      PROVE  k + 1 \in T
  <2>1. SUFFICES ASSUME k + 1 <= n
                 PROVE  \E y : Runs(x, g[k + 1], y) /\ LibsDone(x, ls, k + 1, y)
    OBVIOUS
  <2>2. PICK z : Runs(x, g[k], z) /\ LibsDone(x, ls, k, z)
    BY <1>1, <1>5, <2>1
  <2> DEFINE l == ls[k + 1]
             a == g[k]
             b == LibLines(l)
             y == State(l.name, l.nid, Opens(l), 6, z.funcs \cup LibEntries(l), NewLibs(z.libs, l))
  <2>3. /\ k + 1 \in 1 .. n /\ (k + 1) - 1 = k /\ k + 1 # 0
        /\ 1 .. k + 1 = (1 .. k) \cup {k + 1}
    BY <1>1, <2>1
  <2>4. g[k + 1] = a \o b /\ a \in Seq(DbLine) /\ l \in DbLib
    BY <1>1, <1>3, <2>3
  <2>5. IsState(z) /\ z.ind = 6
    BY <2>2, Zenon DEF LibsDone
  <2> HIDE DEF a
  <2>6. b \in Seq(DbLine) /\ Runs(z, b, y)
    <3> HIDE DEF l
    <3> QED
      BY <2>4, <2>5, LibRun
  <2>7. IsState(y) /\ y.ind = 6 /\ y.lib = l.name /\ y.nid = l.nid /\ y.inF = Opens(l)
        /\ y.funcs = z.funcs \cup LibEntries(l) /\ y.libs = NewLibs(z.libs, l)
    BY StateIs DEF y
  <2> HIDE DEF b, y
  <2>8. Runs(x, g[k + 1], y)
    <3>1. Runs(x, a, z)
      BY <2>2 DEF a
    <3>2. Runs(x, a \o b, y)
      BY <2>4, <2>6, <3>1, RunsOn, Zenon
    <3> QED
      BY <2>4, <3>2
  <2>9. y.funcs = x.funcs \cup UNION { LibEntries(ls[j]) : j \in 1 .. k + 1 }
    <3> DEFINE P == UNION { LibEntries(ls[j]) : j \in 1 .. k }
               Q == UNION { LibEntries(ls[j]) : j \in 1 .. k + 1 }
    <3>1. Q = P \cup LibEntries(l)
      BY <2>3
    <3>2. z.funcs = x.funcs \cup P
      BY <2>2, Zenon DEF LibsDone
    <3> HIDE DEF P, Q, l
    <3>3. y.funcs = x.funcs \cup Q
      BY <2>7, <3>1, <3>2
    <3> QED
      BY <3>3 DEF Q
  <2>10. LibsGrow(x.libs, { ls[j] : j \in 1 .. k + 1 }, {}, y.libs)
    <3> DEFINE P == { ls[j] : j \in 1 .. k }
               Q == { ls[j] : j \in 1 .. k + 1 }
    <3>1. Q = P \cup {l}
      BY <2>3
    <3>2. LibsGrow(x.libs, P, {}, z.libs)
      BY <2>2, Zenon DEF LibsDone
    <3> HIDE DEF P, Q, l
    <3>3. LibsGrow(z.libs, {l}, {}, y.libs)
      BY <2>7, GrowOne
    <3>4. LibsGrow(x.libs, P \cup {l}, {} \cup {}, y.libs)
      BY <3>2, <3>3, GrowOn, Zenon
    <3>5. LibsGrow(x.libs, Q, {}, y.libs)
      BY <3>1, <3>4
    <3> QED
      BY <3>5 DEF Q
  <2>11. LibsDone(x, ls, k + 1, y)
    BY <2>3, <2>7, <2>9, <2>10, Zenon DEF LibsDone, l
  <2> QED
    BY <2>8, <2>11
<1>6. Nat \subseteq T
  <2> HIDE DEF T
  <2> QED
    BY <1>4, <1>5, SetInduction
<1>7. \E y : Runs(x, g[n], y) /\ LibsDone(x, ls, n, y)
  BY <1>1, <1>6
<1>8. FlattenSeq(s) = g[n] /\ FlattenSeq(s) \in Seq(DbLine)
  BY <1>1, <1>2, FlattenLast
<1> QED
  BY <1>7, <1>8 DEF s, n

(* The NID of a module is read as a function of the library before it, or, *)
(* if that had none, as that library's NID.                                *)
Between(x, B) ==
  /\ IsState(x) /\ x.ind \in {-1, 6}
  /\ B = << >> => x.lib = NoName /\ x.inF = 0
  /\ B # << >> => x.lib # NoName /\ x.inF = Opens(Last(B)) /\ (x.inF = 1 => x.nid = Last(B).nid)

ModuleEntries(B, m) ==
  IF B # << >> /\ Opens(Last(B)) = 1 /\ m.nid # 0 /\ Last(B).nid # 0
    THEN {[lib |-> Last(B).nid, nid |-> m.nid, name |-> "nid"]} ELSE {}

PartOf(B, m) == ModuleEntries(B, m) \cup UNION { LibEntries(m.libs[j]) : j \in 1 .. Len(m.libs) }

LEMMA AfterModuleNid ==
  ASSUME NEW x, NEW B, Between(x, B), NEW m \in DbModule
  PROVE  \E z : /\ z = After(x, Line(4, "nid", m.nid))
                /\ Between(z, B) /\ z.funcs = x.funcs \cup ModuleEntries(B, m)
                /\ LibsGrow(x.libs, {}, {m.nid}, z.libs)
<1> DEFINE z == After(x, Line(4, "nid", m.nid))
           ln == Line(4, "nid", m.nid)
<1>1. m.nid \in Nat /\ IsState(x)
  BY DEF DbModule, Between
<1>5. LibsGrow(x.libs, {}, {m.nid}, x.libs)
  BY GrowNone
<1>2. CASE B = << >>
  <2>1. x.lib = NoName /\ x.inF # 1
    BY <1>2 DEF Between
  <2>2. z = x
    BY <1>1, <2>1, AfterValue
  <2>3. ModuleEntries(B, m) = {}
    BY <1>2 DEF ModuleEntries
  <2> QED
    BY <1>5, <2>2, <2>3
<1>3. CASE B # << >> /\ x.inF = 1 /\ m.nid = 0
  <2>2. ln.val = 0 /\ ln.key = "nid" /\ 0 # Empty
    BY <1>3 DEF Line, Empty
  <2> HIDE DEF ln
  <2>3. ~Heads(x, ln) /\ ~NamesLib(x, ln) /\ ~AddsLib(x, ln) /\ ~AddsFunc(x, ln)
    BY <1>3, <2>2 DEF Heads, NamesLib, AddsLib, AddsFunc
  <2>4. After(x, ln) = x
    BY <1>1, <2>2, <2>3 DEF After, IsState
  <2>5. z = x
    BY <2>4 DEF ln
  <2>6. ModuleEntries(B, m) = {}
    BY <1>3 DEF ModuleEntries
  <2> QED
    BY <1>5, <2>5, <2>6
<1>4. CASE B # << >> /\ x.inF = 1 /\ m.nid # 0
  <2>1. x.lib # NoName /\ Opens(Last(B)) = 1 /\ x.nid = Last(B).nid /\ x.ind \in {-1, 6}
    BY <1>4 DEF Between
  <2> DEFINE F == IF x.nid # 0 THEN x.funcs \cup {[lib |-> x.nid, nid |-> m.nid, name |-> "nid"]}
                               ELSE x.funcs
  <2>2. z = State(x.lib, x.nid, 1, x.ind, F, x.libs)
    BY <1>1, <1>4, AfterEntry
  <2>3. F = x.funcs \cup ModuleEntries(B, m)
    BY <1>4, <2>1 DEF ModuleEntries
  <2> HIDE DEF F, z
  <2>4. IsState(z) /\ z.lib = x.lib /\ z.nid = x.nid /\ z.inF = 1 /\ z.ind = x.ind /\ z.funcs = F
        /\ z.libs = x.libs
    BY <2>2, StateIs
  <2>5. Between(z, B)
    BY <1>4, <2>1, <2>4 DEF Between
  <2> QED
    BY <1>5, <2>3, <2>4, <2>5 DEF z
<1>6. CASE B # << >> /\ x.inF # 1
  <2>1. x.lib # NoName /\ x.inF = Opens(Last(B)) /\ x.ind \in {-1, 6}
    BY <1>6 DEF Between
  <2> DEFINE L == IF m.nid # 0 THEN Named(x.libs, m.nid, x.lib) ELSE x.libs
  <2>2. z = State(x.lib, m.nid, x.inF, x.ind, x.funcs, L)
    BY <1>1, <1>6, <2>1, AfterNid, Zenon
  <2>3. LibsGrow(x.libs, {}, {m.nid}, L)
    <3>1. LibsGrow(x.libs, {}, {m.nid}, Named(x.libs, m.nid, x.lib))
      BY GrowNamed
    <3> QED
      BY <1>5, <3>1
  <2>4. ModuleEntries(B, m) = {}
    BY <1>6, <2>1 DEF ModuleEntries
  <2> HIDE DEF L, z
  <2>5. IsState(z) /\ z.lib = x.lib /\ z.inF = x.inF /\ z.ind = x.ind /\ z.funcs = x.funcs
        /\ z.libs = L
    BY <2>2, StateIs
  <2>6. Between(z, B)
    BY <1>6, <2>1, <2>5 DEF Between
  <2> QED
    BY <2>3, <2>4, <2>5, <2>6 DEF z
<1> QED
  BY <1>2, <1>3, <1>4, <1>6

(* A whole module, after the libraries B.                                  *)
LEMMA ModuleRun ==
  ASSUME NEW m \in DbModule, NEW B \in Seq(DbLib), NEW x, Between(x, B)
  PROVE  /\ ModuleLines(m) \in Seq(DbLine)
         /\ \E y : /\ Runs(x, ModuleLines(m), y)
                   /\ Between(y, B \o m.libs)
                   /\ y.funcs = x.funcs \cup PartOf(B, m)
                   /\ LibsGrow(x.libs, { m.libs[j] : j \in 1 .. Len(m.libs) }, {m.nid}, y.libs)
<1> DEFINE ls == m.libs
           n == Len(ls)
           l1 == Line(2, m.name, Empty)
           l2 == Line(4, "nid", m.nid)
           l3 == Line(4, "libraries", Empty)
           p == << l1, l2, l3 >>
           q == FlattenSeq(LibBlocks(ls))
<1>1. /\ m.name \in STRING /\ m.name # "libraries" /\ m.name # "functions" /\ m.nid \in Nat
      /\ ls \in Seq(DbLib) /\ m.name \in Keys /\ "nid" \in Keys /\ "libraries" \in Keys
      /\ Empty \in Int /\ 4 \in Int /\ 2 \in Int /\ m.nid \in Int
  BY DEF DbModule, Keys, Empty
<1>2. l1 \in DbLine /\ l2 \in DbLine /\ l3 \in DbLine
  BY <1>1, LineIs
<1>3. After(x, l1) = x
  <2>1. IsState(x) /\ 2 # x.ind /\ 2 \in Nat
    BY DEF Between
  <2>2. \A k : k # "libraries" /\ k # "functions" /\ 2 # x.ind => After(x, Line(2, k, Empty)) = x
    BY <2>1, AfterSection, Zenon
  <2> QED
    BY <1>1, <2>1, <2>2
<1>4. PICK z : /\ z = After(x, l2) /\ Between(z, B)
               /\ z.funcs = x.funcs \cup ModuleEntries(B, m)
               /\ LibsGrow(x.libs, {}, {m.nid}, z.libs)
  BY AfterModuleNid
<1> DEFINE w == State(z.lib, z.nid, z.inF, 6, z.funcs, z.libs)
<1>5. After(z, l3) = w
  <2>1. IsState(z) /\ 4 \in Nat /\ 4 + 2 = 6
    BY <1>4 DEF Between
  <2>2. After(z, l3) = State(z.lib, z.nid, z.inF, 4 + 2, z.funcs, z.libs)
    BY <2>1, AfterSection
  <2> QED
    BY <2>1, <2>2
<1>6. IsState(w) /\ w.lib = z.lib /\ w.nid = z.nid /\ w.inF = z.inF /\ w.ind = 6
      /\ w.funcs = z.funcs /\ w.libs = z.libs
  BY StateIs DEF w
<1> HIDE DEF l1, l2, l3, w
<1>7. p \in Seq(DbLine) /\ Runs(x, p, w)
  <2>1. << l1, l2 >> \in Seq(DbLine) /\ Runs(x, << l1, l2 >>, z)
    BY <1>2, <1>3, <1>4, RunsTwo
  <2>2. << l3 >> \in Seq(DbLine) /\ Runs(z, << l3 >>, w)
    BY <1>2, <1>5, RunsOne
  <2>3. p = << l1, l2 >> \o << l3 >>
    <3> DEFINE c == << l1, l2 >> \o << l3 >>
    <3>1. << l1, l2 >> \in Seq(DbLine) /\ << l3 >> \in Seq(DbLine)
          /\ Len(<< l1, l2 >>) = 2 /\ Len(<< l3 >>) = 1
      BY <1>2
    <3>2. c \in Seq(DbLine) /\ Len(c) = 3 /\ c[1] = l1 /\ c[2] = l2 /\ c[3] = l3
      BY <3>1
    <3>3. p \in Seq(DbLine) /\ Len(p) = 3 /\ p[1] = l1 /\ p[2] = l2 /\ p[3] = l3
      BY <1>2
    <3> HIDE DEF c, p
    <3>4. \A i \in 1 .. 3 : c[i] = p[i]
      <4>1. \A i \in 1 .. 3 : i = 1 \/ i = 2 \/ i = 3
        OBVIOUS
      <4> QED
        BY <3>2, <3>3, <4>1
    <3>5. c = p
      BY <3>2, <3>3, <3>4, SeqEqual
    <3> QED
      BY <3>5 DEF c
  <2> HIDE DEF p
  <2> QED
    BY <2>1, <2>2, <2>3, RunsOn
<1>8. q \in Seq(DbLine) /\ \E y : Runs(w, q, y) /\ LibsDone(w, ls, n, y)
  BY <1>1, <1>6, LibsRun
<1>9. PICK y : Runs(w, q, y) /\ LibsDone(w, ls, n, y)
  BY <1>8
<1>10. ModuleLines(m) = p \o q
  BY Zenon DEF ModuleLines, LibBlocks, l1, l2, l3
<1> HIDE DEF p, q
<1>11. Runs(x, p \o q, y) /\ p \o q \in Seq(DbLine)
  BY <1>7, <1>8, <1>9, RunsOn
<1>12. n \in Nat
  BY <1>1
<1>13. Between(y, B \o ls)
  <2>1. IsState(y) /\ y.ind = 6
    BY <1>9, Zenon DEF LibsDone
  <2>2. CASE n = 0
    <3>1. y = w
      BY <1>9, <2>2, Zenon DEF LibsDone
    <3>2. ls = << >>
      BY <1>1, <2>2, EmptySeq
    <3>3. B \o ls = B
      BY <3>2, ConcatEmptySeq
    <3>4. Between(w, B)
      BY <1>4, <1>6 DEF Between
    <3> QED
      BY <3>1, <3>3, <3>4
  <2>3. CASE n # 0
    <3> DEFINE C == B \o ls
    <3>1. y.lib = ls[n].name /\ y.nid = ls[n].nid /\ y.inF = Opens(ls[n])
      BY <1>9, <2>3, Zenon DEF LibsDone
    <3>5. ls[n].name # NoName
      <4>1. ls[n] \in DbLib
        BY <1>1, <2>3, ElementOfSeq
      <4> QED
        BY <4>1 DEF DbLib
    <3>2. C \in Seq(DbLib) /\ Len(C) = Len(B) + n /\ Len(B) \in Nat
          /\ \A i \in 1 .. Len(B) + n : C[i] = IF i <= Len(B) THEN B[i] ELSE ls[i - Len(B)]
      BY <1>1, ConcatProperties
    <3>3. C # << >> /\ Last(C) = ls[n]
      <4>1. Len(B) + n \in 1 .. Len(B) + n /\ ~(Len(B) + n <= Len(B)) /\ (Len(B) + n) - Len(B) = n
            /\ Len(B) + n # 0
        BY <1>12, <2>3, <3>2
      <4> HIDE DEF C, n
      <4>2. C[Len(C)] = ls[n]
        BY <3>2, <4>1
      <4>3. C # << >>
        BY <3>2, <4>1
      <4> QED
        BY <4>2, <4>3 DEF Last
    <3> HIDE DEF C
    <3>4. Between(y, C)
      BY <2>1, <3>1, <3>3, <3>5 DEF Between
    <3> QED
      BY <3>4 DEF C
  <2> QED
    BY <2>2, <2>3
<1>14. y.funcs = x.funcs \cup PartOf(B, m)
  <2> DEFINE P == UNION { LibEntries(ls[j]) : j \in 1 .. n }
  <2>1. y.funcs = w.funcs \cup P
    BY <1>9, Zenon DEF LibsDone
  <2>2. PartOf(B, m) = ModuleEntries(B, m) \cup P
    BY Zenon DEF PartOf
  <2> HIDE DEF P
  <2> QED
    BY <1>4, <1>6, <2>1, <2>2
<1>15. LibsGrow(x.libs, { ls[j] : j \in 1 .. n }, {m.nid}, y.libs)
  <2> DEFINE A == { ls[j] : j \in 1 .. n }
  <2>1. LibsGrow(w.libs, A, {}, y.libs)
    BY <1>9, Zenon DEF LibsDone
  <2>2. LibsGrow(x.libs, {}, {m.nid}, w.libs)
    BY <1>4, <1>6
  <2> HIDE DEF A
  <2>3. LibsGrow(x.libs, {} \cup A, {m.nid} \cup {}, y.libs)
    BY <2>1, <2>2, GrowOn, Zenon
  <2>4. {} \cup A = A /\ {m.nid} \cup {} = {m.nid}
    OBVIOUS
  <2>5. LibsGrow(x.libs, A, {m.nid}, y.libs)
    BY <2>3, <2>4
  <2> QED
    BY <2>5 DEF A
<1> QED
  BY <1>10, <1>11, <1>13, <1>14, <1>15

(* The libraries before a module are those of the modules before it.       *)
LibsBefore(f, k) == FlattenSeq([j \in 1 .. k - 1 |-> f[j].libs])

LEMMA LibsBeforeType ==
  ASSUME NEW f \in Seq(DbModule)
  PROVE  /\ LibsBefore(f, 1) = << >>
         /\ \A k \in 1 .. Len(f) : LibsBefore(f, k + 1) = LibsBefore(f, k) \o f[k].libs
         /\ \A k \in 1 .. Len(f) : LibsBefore(f, k) \in Seq(DbLib)
<1> DEFINE n == Len(f)
           s(k) == [j \in 1 .. k - 1 |-> f[j].libs]
<1>1. n \in Nat /\ \A j \in 1 .. n : f[j].libs \in Seq(DbLib)
  <2>1. \A j \in 1 .. n : f[j] \in DbModule
    BY ElementOfSeq
  <2> QED
    BY <2>1 DEF DbModule
<1> HIDE DEF n
<1>2. \A k \in 1 .. n : s(k) \in Seq(Seq(DbLib)) /\ s(k + 1) \in Seq(Seq(DbLib))
  BY <1>1
<1>3. \A k : LibsBefore(f, k) = FlattenSeq(s(k))
  BY Zenon DEF LibsBefore
<1>4. LibsBefore(f, 1) = << >>
  <2>1. s(1) = << >> /\ s(1) \in Seq(Seq(DbLib)) /\ Len(s(1)) = 0
    OBVIOUS
  <2> DEFINE c == s(1)
  <2> HIDE DEF s
  <2>2. PICK g : Flattens(g, c, DbLib)
    BY <2>1, FlattenIs
  <2>3. FlattenSeq(c) = g[Len(c)] /\ g[0] = << >> /\ Len(c) = 0
    <3>1. g[0] = << >>
      BY <2>2 DEF Flattens
    <3>2. FlattenSeq(c) = g[Len(c)]
      BY <2>1, <2>2, FlattenLast
    <3> QED
      BY <2>1, <3>1, <3>2
  <2> QED
    BY <1>3, <2>3
<1>5. ASSUME NEW k \in 1 .. n
      PROVE  LibsBefore(f, k + 1) = LibsBefore(f, k) \o f[k].libs /\ LibsBefore(f, k) \in Seq(DbLib)
  <2> DEFINE a == s(k)
             e == f[k].libs
             b == s(k + 1)
  <2>1. a \in Seq(Seq(DbLib)) /\ e \in Seq(DbLib)
    BY <1>1, <1>2
  <2>2. b = Append(a, e)
    <3>1. Len(a) = k - 1 /\ (k - 1) + 1 = k /\ (k + 1) - 1 = k /\ \A j \in 1 .. k - 1 : a[j] = f[j].libs
      BY <1>1
    <3>2. b \in Seq(Seq(DbLib)) /\ Len(b) = k /\ \A j \in 1 .. k : b[j] = f[j].libs
      BY <1>1, <1>2
    <3> DEFINE c == Append(a, e)
    <3> HIDE DEF a, b
    <3>3. c \in Seq(Seq(DbLib)) /\ Len(c) = k /\ \A j \in 1 .. k : c[j] = IF j = k THEN e ELSE a[j]
      BY <1>1, <2>1, <3>1
    <3> HIDE DEF c, e
    <3>4. \A j \in 1 .. k : c[j] = b[j]
      <4>1. ASSUME NEW j \in 1 .. k
            PROVE  c[j] = b[j]
        <5>1. CASE j = k
          BY <3>2, <3>3, <5>1 DEF e
        <5>2. CASE j # k
          <6>1. j \in 1 .. k - 1
            BY <1>1, <5>2
          <6> QED
            BY <3>1, <3>2, <3>3, <5>2, <6>1
        <5> QED
          BY <5>1, <5>2
      <4> QED
        BY <4>1
    <3> QED
      BY <3>2, <3>3, <3>4, SeqEqual DEF c
  <2> HIDE DEF a, b, e
  <2>3. FlattenSeq(b) = FlattenSeq(a) \o e
    BY <2>1, <2>2, FlattenAppend
  <2>4. FlattenSeq(a) \in Seq(DbLib)
    <3>1. PICK g : Flattens(g, a, DbLib)
      BY <2>1, FlattenIs
    <3> QED
      BY <2>1, <3>1, FlattenLast
  <2> QED
    BY <1>3, <2>3, <2>4 DEF a, b, e
<1> QED
  BY <1>4, <1>5 DEF n

LibSetOf(m) == { m.libs[j] : j \in 1 .. Len(m.libs) }

NidsUpTo(f, k) == { f[j].nid : j \in 1 .. k }

(* The modules of a file, k of them read. *)
FileDone(x, f, k, y) ==
  /\ Between(y, LibsBefore(f, k + 1))
  /\ y.funcs = x.funcs \cup UNION { PartOf(LibsBefore(f, j), f[j]) : j \in 1 .. k }
  /\ LibsGrow(x.libs, UNION { LibSetOf(f[j]) : j \in 1 .. k }, NidsUpTo(f, k), y.libs)

ModuleBlocks(f) == [k \in 1 .. Len(f) |-> ModuleLines(f[k])]

LEMMA ModuleBlocksType ==
  ASSUME NEW f \in Seq(DbModule)
  PROVE  /\ ModuleBlocks(f) \in Seq(Seq(DbLine)) /\ Len(ModuleBlocks(f)) = Len(f) /\ Len(f) \in Nat
         /\ \A k \in 1 .. Len(f) : f[k] \in DbModule /\ ModuleBlocks(f)[k] = ModuleLines(f[k])
<1>1. Len(f) \in Nat /\ \A k \in 1 .. Len(f) : f[k] \in DbModule
  BY ElementOfSeq
<1>2. ASSUME NEW m \in DbModule
      PROVE  ModuleLines(m) \in Seq(DbLine)
  <2> DEFINE x == State(NoName, 0, 0, 6, {}, {})
             B == << >>
  <2>1. IsState(x) /\ x.ind = 6 /\ x.lib = NoName /\ x.inF = 0
    BY StateIs
  <2> HIDE DEF x
  <2>2. Between(x, B) /\ B \in Seq(DbLib)
    BY <2>1 DEF Between
  <2> HIDE DEF B
  <2> QED
    BY <2>2, ModuleRun, Zenon
<1>3. \A k \in 1 .. Len(f) : ModuleLines(f[k]) \in Seq(DbLine)
  BY <1>1, <1>2
<1> QED
  BY <1>1, <1>3 DEF ModuleBlocks

LEMMA ModulesRun ==
  ASSUME NEW f \in Seq(DbModule), NEW x, Between(x, << >>)
  PROVE  /\ FlattenSeq(ModuleBlocks(f)) \in Seq(DbLine)
         /\ \E y : Runs(x, FlattenSeq(ModuleBlocks(f)), y) /\ FileDone(x, f, Len(f), y)
<1> DEFINE n == Len(f)
           s == ModuleBlocks(f)
<1>1. /\ s \in Seq(Seq(DbLine)) /\ Len(s) = n /\ n \in Nat
      /\ \A k \in 1 .. n : f[k] \in DbModule /\ s[k] = ModuleLines(f[k])
  BY ModuleBlocksType
<1>9. /\ LibsBefore(f, 1) = << >>
      /\ \A k \in 1 .. n : LibsBefore(f, k + 1) = LibsBefore(f, k) \o f[k].libs
      /\ \A k \in 1 .. n : LibsBefore(f, k) \in Seq(DbLib)
  BY LibsBeforeType, Zenon
<1> HIDE DEF s, n
<1>2. PICK g : Flattens(g, s, DbLine)
  BY <1>1, FlattenIs
<1>3. g[0] = << >> /\ \A k \in 1 .. n : g[k] = g[k - 1] \o s[k] /\ g[k - 1] \in Seq(DbLine)
  <2>1. g \in [0 .. n -> Seq(DbLine)] /\ g[0] = << >> /\ \A k \in 1 .. n : g[k] = g[k - 1] \o s[k]
    BY <1>1, <1>2 DEF Flattens
  <2>2. \A k \in 1 .. n : k - 1 \in 0 .. n
    BY <1>1
  <2> QED
    BY <2>1, <2>2
<1> DEFINE T == { k \in Nat : k <= n => \E y : Runs(x, g[k], y) /\ FileDone(x, f, k, y) }
<1>4. 0 \in T
  <2>1. Runs(x, g[0], x)
    BY <1>3, RunsEmpty
  <2>2. FileDone(x, f, 0, x)
    <3> DEFINE A == UNION { LibSetOf(f[j]) : j \in 1 .. 0 }
               F == UNION { PartOf(LibsBefore(f, j), f[j]) : j \in 1 .. 0 }
    <3>1. A = {} /\ F = {}
      OBVIOUS
    <3>2. LibsGrow(x.libs, A, NidsUpTo(f, 0), x.libs)
      BY <3>1, GrowNone
    <3>3. x.funcs = x.funcs \cup F
      BY <3>1
    <3>4. Between(x, LibsBefore(f, 0 + 1))
      <4>1. 0 + 1 = 1
        OBVIOUS
      <4> QED
        BY <1>9, <4>1
    <3> HIDE DEF A, F
    <3> QED
      BY <3>2, <3>3, <3>4 DEF FileDone, A, F
  <2> QED
    BY <2>1, <2>2
<1>5. ASSUME NEW k \in Nat, k \in T
      PROVE  k + 1 \in T
  <2>1. SUFFICES ASSUME k + 1 <= n
                 PROVE  \E y : Runs(x, g[k + 1], y) /\ FileDone(x, f, k + 1, y)
    OBVIOUS
  <2>2. PICK z : Runs(x, g[k], z) /\ FileDone(x, f, k, z)
    BY <1>1, <1>5, <2>1
  <2> DEFINE m == f[k + 1]
             a == g[k]
             b == ModuleLines(m)
             B == LibsBefore(f, k + 1)
             C == LibsBefore(f, (k + 1) + 1)
  <2>3. /\ k + 1 \in 1 .. n /\ (k + 1) - 1 = k
        /\ 1 .. k + 1 = (1 .. k) \cup {k + 1}
    BY <1>1, <2>1
  <2>4. /\ g[k + 1] = a \o b /\ a \in Seq(DbLine) /\ m \in DbModule
        /\ B \in Seq(DbLib) /\ C = B \o m.libs
    BY <1>1, <1>3, <1>9, <2>3
  <2>5. Between(z, B)
    BY <2>2, Zenon DEF FileDone
  <2>6. b \in Seq(DbLine) /\ \E y : /\ Runs(z, b, y)
                                    /\ Between(y, B \o m.libs)
                                    /\ y.funcs = z.funcs \cup PartOf(B, m)
                                    /\ LibsGrow(z.libs, LibSetOf(m), {m.nid}, y.libs)
    <3> HIDE DEF m, B
    <3> QED
      BY <2>4, <2>5, ModuleRun, Zenon DEF LibSetOf
  <2>7. PICK y : /\ Runs(z, b, y)
                 /\ Between(y, B \o m.libs)
                 /\ y.funcs = z.funcs \cup PartOf(B, m)
                 /\ LibsGrow(z.libs, LibSetOf(m), {m.nid}, y.libs)
    BY <2>6, Zenon
  <2> HIDE DEF a, b
  <2>8. Runs(x, g[k + 1], y)
    <3>1. Runs(x, a, z)
      BY <2>2 DEF a
    <3>2. Runs(x, a \o b, y)
      BY <2>4, <2>6, <2>7, <3>1, RunsOn, Zenon
    <3> QED
      BY <2>4, <3>2
  <2>9. y.funcs = x.funcs \cup UNION { PartOf(LibsBefore(f, j), f[j]) : j \in 1 .. k + 1 }
    <3> DEFINE P == UNION { PartOf(LibsBefore(f, j), f[j]) : j \in 1 .. k }
               Q == UNION { PartOf(LibsBefore(f, j), f[j]) : j \in 1 .. k + 1 }
    <3>1. Q = P \cup PartOf(B, m)
      BY <2>3
    <3>2. z.funcs = x.funcs \cup P
      BY <2>2, Zenon DEF FileDone
    <3> HIDE DEF P, Q, B, m
    <3>3. y.funcs = x.funcs \cup Q
      BY <2>7, <3>1, <3>2
    <3> QED
      BY <3>3 DEF Q
  <2>10. LibsGrow(x.libs, UNION { LibSetOf(f[j]) : j \in 1 .. k + 1 }, NidsUpTo(f, k + 1), y.libs)
    <3> DEFINE P == UNION { LibSetOf(f[j]) : j \in 1 .. k }
               Q == UNION { LibSetOf(f[j]) : j \in 1 .. k + 1 }
    <3>1. Q = P \cup LibSetOf(m) /\ NidsUpTo(f, k + 1) = NidsUpTo(f, k) \cup {m.nid}
      BY <2>3 DEF NidsUpTo
    <3>2. LibsGrow(x.libs, P, NidsUpTo(f, k), z.libs)
      BY <2>2, Zenon DEF FileDone
    <3> HIDE DEF P, Q, m
    <3>4. LibsGrow(x.libs, P \cup LibSetOf(m), NidsUpTo(f, k) \cup {m.nid}, y.libs)
      BY <2>7, <3>2, GrowOn, Zenon
    <3>3. LibsGrow(x.libs, Q, NidsUpTo(f, k + 1), y.libs)
      BY <3>1, <3>4
    <3> QED
      BY <3>3 DEF Q
  <2>11. Between(y, C)
    BY <2>4, <2>7, Zenon
  <2>12. FileDone(x, f, k + 1, y)
    BY <2>9, <2>10, <2>11, Zenon DEF FileDone
  <2> QED
    BY <2>8, <2>12
<1>6. Nat \subseteq T
  <2> HIDE DEF T
  <2> QED
    BY <1>4, <1>5, SetInduction
<1>7. \E y : Runs(x, g[n], y) /\ FileDone(x, f, n, y)
  BY <1>1, <1>6
<1>8. FlattenSeq(s) = g[n] /\ FlattenSeq(s) \in Seq(DbLine)
  BY <1>1, <1>2, FlattenLast
<1> QED
  BY <1>7, <1>8 DEF s, n

(* Reading a whole file, from the locals parse_file starts with.            *)
LEMMA FileRun ==
  ASSUME NEW f \in Seq(DbModule), NEW F, NEW L
  PROVE  /\ FileLines(f) \in Seq(DbLine)
         /\ \E y : Runs(State(NoName, 0, 0, -1, F, L), FileLines(f), y)
                   /\ y.funcs = F \cup UNION { PartOf(LibsBefore(f, j), f[j]) : j \in 1 .. Len(f) }
                   /\ LibsGrow(L, UNION { LibSetOf(f[j]) : j \in 1 .. Len(f) },
                               NidsUpTo(f, Len(f)), y.libs)
<1> DEFINE x == State(NoName, 0, 0, -1, F, L)
           l1 == Line(0, "version", 2)
           l2 == Line(0, "modules", Empty)
           p == << l1, l2 >>
           q == FlattenSeq(ModuleBlocks(f))
<1>1. /\ IsState(x) /\ x.lib = NoName /\ x.inF = 0 /\ x.ind = -1 /\ x.funcs = F /\ x.libs = L
  BY StateIs
<1> HIDE DEF x
<1>2. 0 \in Int /\ 2 \in Int /\ 2 \in Nat /\ 0 \in Nat /\ Empty \in Int /\ "version" \in Keys
      /\ "modules" \in Keys /\ 0 # -1 /\ 0 # 1
      /\ "modules" # "libraries" /\ "modules" # "functions"
  BY DEF Empty, Keys
<1>3. l1 \in DbLine /\ l2 \in DbLine
  BY <1>2, LineIs
<1>4. After(x, l1) = x
  BY <1>1, <1>2, AfterValue
<1>5. After(x, l2) = x
  <2>1. \A k : k # "libraries" /\ k # "functions" /\ 0 # x.ind => After(x, Line(0, k, Empty)) = x
    BY <1>1, <1>2, AfterSection, Zenon
  <2> QED
    BY <1>1, <1>2, <2>1
<1> HIDE DEF l1, l2
<1>6. p \in Seq(DbLine) /\ Runs(x, p, x)
  BY <1>3, <1>4, <1>5, RunsTwo
<1>7. Between(x, << >>)
  BY <1>1 DEF Between
<1>8. q \in Seq(DbLine) /\ \E y : Runs(x, q, y) /\ FileDone(x, f, Len(f), y)
  BY <1>7, ModulesRun
<1>9. PICK y : Runs(x, q, y) /\ FileDone(x, f, Len(f), y)
  BY <1>8
<1>10. FileLines(f) = p \o q
  BY Zenon DEF FileLines, ModuleBlocks, l1, l2
<1> HIDE DEF p, q
<1>11. Runs(x, p \o q, y) /\ p \o q \in Seq(DbLine)
  BY <1>6, <1>8, <1>9, RunsOn
<1>12. /\ y.funcs = F \cup UNION { PartOf(LibsBefore(f, j), f[j]) : j \in 1 .. Len(f) }
       /\ LibsGrow(L, UNION { LibSetOf(f[j]) : j \in 1 .. Len(f) }, NidsUpTo(f, Len(f)), y.libs)
  BY <1>1, <1>9, Zenon DEF FileDone
<1>13. Runs(x, FileLines(f), y) /\ FileLines(f) \in Seq(DbLine)
  BY <1>10, <1>11
<1> QED
  BY <1>12, <1>13 DEF x

--------------------------------------------------------------------------------
(* What a file holds, by the modules in order. *)
FuncsOf(f) == UNION { PartOf(LibsBefore(f, j), f[j]) : j \in 1 .. Len(f) }
AllLibs(f) == UNION { LibSetOf(f[j]) : j \in 1 .. Len(f) }
NidsOf(f)  == NidsUpTo(f, Len(f))

LEMMA LibEntriesAre ==
  ASSUME NEW l \in DbLib, NEW z
  PROVE  z \in LibEntries(l) <=>
           /\ l.nid # 0
           /\ \/ \E e \in Range(l.funcs) : z = [lib |-> l.nid, nid |-> e.nid, name |-> e.name]
              \/ /\ l.funcs # << >>
                 /\ \E e \in Range(l.vars) : z = [lib |-> l.nid, nid |-> e.nid, name |-> e.name]
<1>1. \A E : z \in EntriesOf(l.nid, E) <=>
              l.nid # 0 /\ \E e \in E : z = [lib |-> l.nid, nid |-> e.nid, name |-> e.name]
  BY DEF EntriesOf, EntryOf
<1> QED
  BY <1>1 DEF LibEntries

(* The entries of a file are those it declares, and others only under the  *)
(* NIDs of modules and of variables.                                       *)
LEMMA FileEntries ==
  ASSUME NEW f \in Seq(DbModule)
  PROVE  /\ Declared(f) \subseteq FuncsOf(f)
         /\ \A z \in FuncsOf(f) : z \in Declared(f) \/ z.nid \in Strange(f)
<1> DEFINE n == Len(f)
           E(l, e) == [lib |-> l.nid, nid |-> e.nid, name |-> e.name]
<1>1. n \in Nat /\ Range(f) = { f[j] : j \in 1 .. n }
  BY RangeUpTo
<1>2. \A j \in 1 .. n : f[j] \in DbModule /\ f[j].libs \in Seq(DbLib)
  <2>1. \A j \in 1 .. n : f[j] \in DbModule
    BY ElementOfSeq
  <2> QED
    BY <2>1 DEF DbModule
<1>3. ASSUME NEW j \in 1 .. n
      PROVE  /\ Range(f[j].libs) = { f[j].libs[i] : i \in 1 .. Len(f[j].libs) }
             /\ \A l \in Range(f[j].libs) : l \in DbLib
  <2> DEFINE s == f[j].libs
  <2>1. s \in Seq(DbLib)
    BY <1>2
  <2> HIDE DEF s
  <2>2. Range(s) = { s[i] : i \in 1 .. Len(s) } /\ \A i \in 1 .. Len(s) : s[i] \in DbLib
    BY <2>1, RangeUpTo, ElementOfSeq
  <2> QED
    BY <2>2 DEF s
<1>4. \A z : z \in Declared(f) <=>
             \E m \in Range(f) : \E l \in Range(m.libs) :
               l.nid # 0 /\ \E e \in Range(l.funcs) : z = E(l, e)
  BY DEF Declared
<1>5. \A z : z \in FuncsOf(f) <=> \E j \in 1 .. n :
                \/ z \in ModuleEntries(LibsBefore(f, j), f[j])
                \/ \E i \in 1 .. Len(f[j].libs) : z \in LibEntries(f[j].libs[i])
  BY DEF FuncsOf, PartOf
<1>6. ASSUME NEW z \in Declared(f)
      PROVE  z \in FuncsOf(f)
  <2>1. PICK j \in 1 .. n : \E l \in Range(f[j].libs) :
               l.nid # 0 /\ \E e \in Range(l.funcs) : z = E(l, e)
    BY <1>1, <1>4
  <2>2. PICK i \in 1 .. Len(f[j].libs) :
               f[j].libs[i].nid # 0 /\ \E e \in Range(f[j].libs[i].funcs) : z = E(f[j].libs[i], e)
    <3>1. PICK x \in Range(f[j].libs) : x.nid # 0 /\ \E e \in Range(x.funcs) : z = E(x, e)
      BY <2>1
    <3>2. PICK i \in 1 .. Len(f[j].libs) : x = f[j].libs[i]
      BY <1>3, <3>1
    <3> QED
      BY <3>1, <3>2
  <2> DEFINE l == f[j].libs[i]
  <2>3. l \in DbLib
    BY <1>2, <2>2, ElementOfSeq
  <2>4. l.nid # 0 /\ \E e \in Range(l.funcs) : z = E(l, e)
    BY <2>2
  <2> HIDE DEF l
  <2>5. z \in LibEntries(l)
    BY <2>3, <2>4, LibEntriesAre
  <2> QED
    BY <1>5, <2>1, <2>2, <2>5 DEF l
<1>7. ASSUME NEW z \in FuncsOf(f)
      PROVE  z \in Declared(f) \/ z.nid \in Strange(f)
  <2>1. PICK j \in 1 .. n : \/ z \in ModuleEntries(LibsBefore(f, j), f[j])
                            \/ \E i \in 1 .. Len(f[j].libs) : z \in LibEntries(f[j].libs[i])
    BY <1>5
  <2>2. f[j] \in Range(f)
    BY <1>1, <2>1
  <2>3. CASE z \in ModuleEntries(LibsBefore(f, j), f[j])
    <3>1. \E a, b : z = [lib |-> a, nid |-> f[j].nid, name |-> b]
      BY <2>3, Zenon DEF ModuleEntries
    <3>2. z.nid = f[j].nid
      BY <3>1
    <3> QED
      BY <2>2, <3>2 DEF Strange
  <2>4. CASE \E i \in 1 .. Len(f[j].libs) : z \in LibEntries(f[j].libs[i])
    <3>1. PICK l \in Range(f[j].libs) : l \in DbLib /\ z \in LibEntries(l)
      BY <1>3, <2>4
    <3>2. l.nid # 0
      BY <3>1, LibEntriesAre
    <3>3. CASE \E e \in Range(l.funcs) : z = E(l, e)
      BY <1>4, <2>2, <3>1, <3>2, <3>3
    <3>4. CASE \E e \in Range(l.vars) : z = E(l, e)
      <4>1. PICK e \in Range(l.vars) : z = E(l, e)
        BY <3>4
      <4>2. z.nid = e.nid
        BY <4>1
      <4>3. e.nid \in Strange(f)
        BY <2>2, <3>1 DEF Strange
      <4> QED
        BY <4>2, <4>3
    <3> QED
      BY <3>1, <3>3, <3>4, LibEntriesAre
  <2> QED
    BY <2>1, <2>3, <2>4
<1> QED
  BY <1>6, <1>7

(* No entry is named as a missing one is.  *)
LEMMA EntriesNamed ==
  ASSUME NEW f \in Seq(DbModule), NEW z \in FuncsOf(f)
  PROVE  z.name # NoName
<1>1. PICK j \in 1 .. Len(f) : \/ z \in ModuleEntries(LibsBefore(f, j), f[j])
                               \/ \E i \in 1 .. Len(f[j].libs) : z \in LibEntries(f[j].libs[i])
  BY DEF FuncsOf, PartOf
<1>2. CASE z \in ModuleEntries(LibsBefore(f, j), f[j])
  <2>1. \E a, b : z = [lib |-> a, nid |-> b, name |-> "nid"]
    BY <1>2, Zenon DEF ModuleEntries
  <2>2. z.name = "nid"
    BY <2>1
  <2> QED
    BY <2>2 DEF NoName
<1>3. CASE \E i \in 1 .. Len(f[j].libs) : z \in LibEntries(f[j].libs[i])
  <2>1. PICK i \in 1 .. Len(f[j].libs) : z \in LibEntries(f[j].libs[i])
    BY <1>3
  <2>2. f[j].libs \in Seq(DbLib)
    <3>1. f[j] \in DbModule
      BY ElementOfSeq
    <3> QED
      BY <3>1 DEF DbModule
  <2> DEFINE l == f[j].libs[i]
  <2>3. l \in DbLib
    BY <2>1, <2>2, ElementOfSeq
  <2>4. l.funcs \in Seq(DbEntry) /\ l.vars \in Seq(DbEntry)
    BY <2>3 DEF DbLib
  <2> HIDE DEF l
  <2>5. \A e \in Range(l.funcs) \cup Range(l.vars) : e \in DbEntry
    <3>1. Range(l.funcs) = { l.funcs[k] : k \in 1 .. Len(l.funcs) }
          /\ Range(l.vars) = { l.vars[k] : k \in 1 .. Len(l.vars) }
      BY <2>4, RangeUpTo
    <3>2. (\A k \in 1 .. Len(l.funcs) : l.funcs[k] \in DbEntry)
          /\ \A k \in 1 .. Len(l.vars) : l.vars[k] \in DbEntry
      BY <2>4, ElementOfSeq
    <3> QED
      BY <3>1, <3>2
  <2>6. PICK e \in Range(l.funcs) \cup Range(l.vars) : z = [lib |-> l.nid, nid |-> e.nid, name |-> e.name]
    BY <2>1, <2>3, LibEntriesAre DEF l
  <2>7. e.name # NoName
    BY <2>5 DEF DbEntry
  <2> QED
    BY <2>6, <2>7
<1> QED
  BY <1>1, <1>2, <1>3

--------------------------------------------------------------------------------
(* The inductive invariant of the database: what is left of the file takes *)
(* the reader to a database that holds the files opened.                   *)

Reader ==
  State(curLib, curNid, IF inFunctions THEN 1 ELSE 0, libIndent, Range(funcs), Range(libs))

Holds(n, y) ==
  /\ y.funcs = UNION { FuncsOf(dir[j]) : j \in 1 .. n }
  /\ LibsGrow({}, UNION { AllLibs(dir[j]) : j \in 1 .. n }, UNION { NidsOf(dir[j]) : j \in 1 .. n }, y.libs)

DbType ==
  /\ dir \in Seq(Seq(DbModule)) /\ opened \in 0 .. Len(dir)
  /\ lines \in Seq(DbLine)
  /\ curLib \in Keys /\ curNid \in Int /\ inFunctions \in BOOLEAN /\ libIndent \in Int
  /\ funcs \in Seq(FuncEntry) /\ libs \in Seq(LibEntry)

DbInv ==
  /\ DbType
  /\ \E y : Runs(Reader, lines, y) /\ Holds(opened, y)

LEMMA DbInvInit == Init => DbInv
<1>1. SUFFICES ASSUME Init
               PROVE  DbInv
  OBVIOUS
<1>2. /\ dir \in Directories /\ opened = 0 /\ lines = << >>
      /\ curLib = NoName /\ curNid = 0 /\ inFunctions = FALSE /\ libIndent = -1
      /\ funcs = << >> /\ libs = << >>
  BY <1>1 DEF Init
<1>3. dir \in Seq(Seq(DbModule)) /\ Len(dir) \in Nat
  BY <1>2, ImportsAssumption
<1>4. DbType
  <2>1. inFunctions \in BOOLEAN
    BY <1>2, Zenon
  <2>2. curLib \in Keys /\ curNid \in Int /\ libIndent \in Int /\ opened \in 0 .. Len(dir)
    BY <1>2, <1>3 DEF Keys
  <2>3. << >> \in Seq(DbLine) /\ << >> \in Seq(FuncEntry) /\ << >> \in Seq(LibEntry)
    OBVIOUS
  <2> QED
    BY <1>2, <1>3, <2>1, <2>2, <2>3, Zenon DEF DbType
<1>5. Runs(Reader, lines, Reader)
  BY <1>2, RunsEmpty
<1>6. Holds(opened, Reader)
  <2>1. Range(funcs) = {} /\ Range(libs) = {}
    BY <1>2 DEF Range
  <2>2. Reader.funcs = {} /\ Reader.libs = {}
    BY <2>1 DEF Reader, State
  <2>3. \A j \in 1 .. 0 : FALSE
    OBVIOUS
  <2>4. UNION { FuncsOf(dir[j]) : j \in 1 .. 0 } = {} /\ UNION { AllLibs(dir[j]) : j \in 1 .. 0 } = {}
    BY <2>3
  <2> HIDE DEF Reader
  <2> QED
    BY <1>2, <2>2, <2>4, GrowNone DEF Holds
<1> QED
  BY <1>4, <1>5, <1>6 DEF DbInv

LEMMA OpenKeeps ==
  ASSUME DbInv, OpenFile
  PROVE  DbInv'
<1>1. /\ opened < Len(dir) /\ lines = << >> /\ lines' = FileLines(dir[opened + 1])
      /\ opened' = opened + 1 /\ dir' = dir /\ funcs' = funcs /\ libs' = libs
      /\ curLib' = NoName /\ curNid' = 0 /\ inFunctions' = FALSE /\ libIndent' = -1
  BY DEF OpenFile
<1>2. DbType
  BY DEF DbInv
<1>3. /\ dir \in Seq(Seq(DbModule)) /\ opened \in Nat /\ Len(dir) \in Nat /\ opened + 1 \in 1 .. Len(dir)
      /\ 1 .. opened + 1 = (1 .. opened) \cup {opened + 1}
  BY <1>1, <1>2 DEF DbType
<1> DEFINE f == dir[opened + 1]
           F == Range(funcs)
           L == Range(libs)
           x == State(NoName, 0, 0, -1, F, L)
<1>4. f \in Seq(DbModule)
  BY <1>3, ElementOfSeq
<1>5. F = UNION { FuncsOf(dir[j]) : j \in 1 .. opened }
      /\ LibsGrow({}, UNION { AllLibs(dir[j]) : j \in 1 .. opened },
                  UNION { NidsOf(dir[j]) : j \in 1 .. opened }, L)
  <2>1. PICK y : Runs(Reader, << >>, y) /\ Holds(opened, y)
    BY <1>1 DEF DbInv
  <2>2. y = Reader
    BY <2>1, RunsNothing
  <2>3. y.funcs = F /\ y.libs = L
    BY <2>2, StateIs DEF Reader
  <2> HIDE DEF F, L
  <2> QED
    BY <2>1, <2>3 DEF Holds
<1>6. Reader' = x
  BY <1>1 DEF Reader
<1> HIDE DEF F, L, x
<1>7. /\ FileLines(f) \in Seq(DbLine)
      /\ \E y : /\ Runs(x, FileLines(f), y) /\ y.funcs = F \cup FuncsOf(f)
               /\ LibsGrow(L, AllLibs(f), NidsOf(f), y.libs)
  <2> HIDE DEF f
  <2> QED
    BY <1>4, FileRun, Zenon DEF x, FuncsOf, AllLibs, NidsOf
<1>8. PICK y : /\ Runs(x, FileLines(f), y) /\ y.funcs = F \cup FuncsOf(f)
               /\ LibsGrow(L, AllLibs(f), NidsOf(f), y.libs)
  BY <1>7
<1>9. y.funcs = UNION { FuncsOf(dir[j]) : j \in 1 .. opened + 1 }
  <2> DEFINE P == UNION { FuncsOf(dir[j]) : j \in 1 .. opened }
             Q == UNION { FuncsOf(dir[j]) : j \in 1 .. opened + 1 }
  <2>1. Q = P \cup FuncsOf(f)
    BY <1>3
  <2> HIDE DEF Q, f
  <2>2. y.funcs = Q
    BY <1>5, <1>8, <2>1
  <2> QED
    BY <2>2 DEF Q
<1>10. LibsGrow({}, UNION { AllLibs(dir[j]) : j \in 1 .. opened + 1 },
               UNION { NidsOf(dir[j]) : j \in 1 .. opened + 1 }, y.libs)
  <2> DEFINE P == UNION { AllLibs(dir[j]) : j \in 1 .. opened }
             Q == UNION { AllLibs(dir[j]) : j \in 1 .. opened + 1 }
             V == UNION { NidsOf(dir[j]) : j \in 1 .. opened }
             W == UNION { NidsOf(dir[j]) : j \in 1 .. opened + 1 }
  <2>1. Q = P \cup AllLibs(f) /\ W = V \cup NidsOf(f)
    BY <1>3
  <2>2. LibsGrow({}, P, V, L)
    BY <1>5
  <2> HIDE DEF P, Q, V, W, f
  <2>3. LibsGrow({}, P \cup AllLibs(f), V \cup NidsOf(f), y.libs)
    BY <1>8, <2>2, GrowOn, Zenon
  <2>4. LibsGrow({}, Q, W, y.libs)
    BY <2>1, <2>3
  <2> QED
    BY <2>4 DEF Q, W
<1>11. Holds(opened, y)'
  BY <1>1, <1>9, <1>10 DEF Holds
<1>12. DbType'
  <2>1. lines' \in Seq(DbLine) /\ opened' \in 0 .. Len(dir) /\ NoName \in Keys /\ 0 \in Int /\ -1 \in Int
    BY <1>1, <1>3, <1>7 DEF Keys
  <2> QED
    BY <1>1, <1>2, <2>1 DEF DbType
<1>13. Runs(Reader', lines', y)
  BY <1>1, <1>6, <1>8
<1> QED
  BY <1>11, <1>12, <1>13 DEF DbInv

LEMMA RangeAppend ==
  ASSUME NEW S, NEW s \in Seq(S), NEW e \in S
  PROVE  Range(Append(s, e)) = Range(s) \cup {e} /\ Append(s, e) \in Seq(S)
<1> DEFINE t == Append(s, e)
<1>1. t \in Seq(S) /\ Len(t) = Len(s) + 1 /\ t[Len(s) + 1] = e /\ \A i \in 1 .. Len(s) : t[i] = s[i]
  BY AppendProperties
<1>2. Range(s) = { s[i] : i \in 1 .. Len(s) } /\ Len(s) \in Nat
  BY RangeUpTo
<1> HIDE DEF t
<1>3. Range(t) = { t[i] : i \in 1 .. Len(t) }
  BY <1>1, RangeUpTo
<1>4. 1 .. Len(t) = (1 .. Len(s)) \cup {Len(s) + 1}
  BY <1>1, <1>2
<1>5. Range(t) = Range(s) \cup {e}
  BY <1>1, <1>2, <1>3, <1>4
<1> QED
  BY <1>1, <1>5 DEF t

(* A line changes the locals and the database as After says.               *)
LEMMA LineReads ==
  ASSUME DbType, NEW ln \in DbLine, Section(ln) \/ LibNid(ln) \/ Value(ln)
  PROVE  /\ Reader' = After(Reader, ln)
         /\ curLib' \in Keys /\ curNid' \in Int /\ inFunctions' \in BOOLEAN /\ libIndent' \in Int
         /\ funcs' \in Seq(FuncEntry) /\ libs' \in Seq(LibEntry)
<1> DEFINE x == Reader
<1>1. /\ IsState(x) /\ x.lib = curLib /\ x.nid = curNid /\ (x.inF = 1 <=> inFunctions)
      /\ x.ind = libIndent /\ x.funcs = Range(funcs) /\ x.libs = Range(libs)
      /\ x.inF = IF inFunctions THEN 1 ELSE 0
  BY StateIs DEF Reader, DbType
<1>2. /\ curLib \in Keys /\ curNid \in Int /\ inFunctions \in BOOLEAN /\ libIndent \in Int
      /\ funcs \in Seq(FuncEntry) /\ libs \in Seq(LibEntry)
      /\ ln.key \in Keys /\ ln.val \in Int /\ ln.ind \in Int
  BY DEF DbType, DbLine
<1> HIDE DEF x
<1>3. Reader' = State(curLib', curNid', IF inFunctions' THEN 1 ELSE 0, libIndent', Range(funcs'), Range(libs'))
  BY DEF Reader
<1>4. CASE Section(ln)
  <2>1. /\ ln.val = Empty /\ funcs' = funcs /\ libs' = libs
        /\ libIndent' = IF ln.key = "libraries" THEN ln.ind + 2 ELSE libIndent
    BY <1>4 DEF Section
  <2>2. ~NamesLib(x, ln) /\ ~AddsLib(x, ln) /\ ~AddsFunc(x, ln)
    BY <2>1 DEF NamesLib, AddsLib, AddsFunc
  <2>3. libIndent' \in Int
    BY <1>2, <2>1
  <2>4. CASE ln.key = "libraries"
    <3>1. curLib' = curLib /\ curNid' = curNid /\ inFunctions' = inFunctions
      BY <1>4, <2>4 DEF Section
    <3>2. ~Heads(x, ln)
      BY <2>4 DEF Heads
    <3>3. Reader' = After(x, ln)
      BY <1>1, <1>3, <2>1, <2>2, <2>4, <3>1, <3>2 DEF After
    <3> QED
      BY <1>2, <2>1, <2>3, <3>1, <3>3 DEF x
  <2>5. CASE ln.key = "functions"
    <3>1. curLib' = curLib /\ curNid' = curNid /\ inFunctions' = TRUE
      BY <1>4, <2>5 DEF Section
    <3>2. ~Heads(x, ln)
      BY <2>5 DEF Heads
    <3>3. Reader' = After(x, ln)
      BY <1>1, <1>3, <2>1, <2>2, <2>5, <3>1, <3>2 DEF After
    <3> QED
      BY <1>2, <2>1, <2>3, <3>1, <3>3 DEF x
  <2>6. CASE ln.key # "libraries" /\ ln.key # "functions"
    <3>1. Header(ln)
      BY <1>4, <2>6 DEF Section
    <3>2. Heads(x, ln) <=> libIndent >= 0 /\ ln.ind = libIndent
      BY <1>1, <2>1, <2>6 DEF Heads
    <3>3. CASE Heads(x, ln)
      <4>1. curLib' = ln.key /\ curNid' = 0 /\ inFunctions' = FALSE
        BY <3>1, <3>2, <3>3 DEF Header
      <4>2. Reader' = After(x, ln)
        BY <1>1, <1>3, <2>1, <2>2, <2>6, <3>3, <4>1 DEF After
      <4>3. inFunctions' \in BOOLEAN
        BY <4>1, Zenon
      <4>4. /\ curLib' \in Keys /\ curNid' \in Int
            /\ funcs' \in Seq(FuncEntry) /\ libs' \in Seq(LibEntry)
        BY <1>2, <2>1, <4>1
      <4> QED
        BY <2>3, <4>2, <4>3, <4>4 DEF x
    <3>4. CASE ~Heads(x, ln)
      <4>1. curLib' = curLib /\ curNid' = curNid /\ inFunctions' = inFunctions
        BY <3>1, <3>2, <3>4 DEF Header
      <4>2. Reader' = After(x, ln)
        BY <1>1, <1>3, <2>1, <2>2, <2>6, <3>4, <4>1 DEF After
      <4> QED
        BY <1>2, <2>1, <2>3, <4>1, <4>2 DEF x
    <3> QED
      BY <3>3, <3>4
  <2> QED
    BY <2>4, <2>5, <2>6
<1>5. CASE LibNid(ln)
  <2> DEFINE e == [nid |-> ln.val, name |-> curLib]
             new == ln.val # 0 /\ \A k \in 1 .. Len(libs) : libs[k].nid # ln.val
  <2>1. /\ ln.val # Empty /\ ~inFunctions /\ ln.key = "nid" /\ curLib # NoName
        /\ curNid' = ln.val /\ curLib' = curLib /\ inFunctions' = inFunctions
        /\ libIndent' = libIndent /\ funcs' = funcs
        /\ libs' = IF new THEN Append(libs, e) ELSE libs
    BY <1>5 DEF LibNid
  <2>2. NamesLib(x, ln) /\ ~Heads(x, ln) /\ ~AddsFunc(x, ln)
    BY <1>1, <2>1 DEF NamesLib, Heads, AddsFunc
  <2>3. AddsLib(x, ln) <=> new
    <3>1. Range(libs) = { libs[k] : k \in 1 .. Len(libs) }
      BY <1>2, RangeUpTo
    <3>2. (\A k \in 1 .. Len(libs) : libs[k].nid # ln.val) <=> \A d \in x.libs : d.nid # ln.val
      BY <1>1, <3>1
    <3> QED
      BY <2>2, <3>2 DEF AddsLib
  <2>4. e \in LibEntry
    BY <1>2 DEF LibEntry
  <2>5. Range(Append(libs, e)) = Range(libs) \cup {e} /\ Append(libs, e) \in Seq(LibEntry)
    BY <1>2, <2>4, RangeAppend
  <2>6. e = [nid |-> ln.val, name |-> x.lib]
    BY <1>1
  <2> HIDE DEF e, new
  <2>7. libs' \in Seq(LibEntry) /\ Range(libs') = IF new THEN Range(libs) \cup {e} ELSE Range(libs)
    BY <1>2, <2>1, <2>5
  <2>8. Reader' = After(x, ln)
    BY <1>1, <1>3, <2>1, <2>2, <2>3, <2>6, <2>7 DEF After
  <2> QED
    BY <1>2, <2>1, <2>7, <2>8 DEF x
<1>6. CASE Value(ln)
  <2> DEFINE e == [lib |-> curNid, nid |-> ln.val, name |-> ln.key]
             new == inFunctions /\ curNid # 0 /\ ln.val # 0
  <2>1. /\ ln.val # Empty /\ ~(~inFunctions /\ ln.key = "nid" /\ curLib # NoName)
        /\ curNid' = curNid /\ curLib' = curLib /\ inFunctions' = inFunctions
        /\ libIndent' = libIndent /\ libs' = libs
        /\ funcs' = IF new THEN Append(funcs, e) ELSE funcs
    BY <1>6 DEF Value
  <2>2. ~NamesLib(x, ln) /\ ~Heads(x, ln) /\ ~AddsLib(x, ln) /\ (AddsFunc(x, ln) <=> new)
    BY <1>1, <2>1 DEF NamesLib, Heads, AddsFunc, AddsLib
  <2>4. e \in FuncEntry
    BY <1>2 DEF FuncEntry
  <2>5. Range(Append(funcs, e)) = Range(funcs) \cup {e} /\ Append(funcs, e) \in Seq(FuncEntry)
    BY <1>2, <2>4, RangeAppend
  <2>6. e = [lib |-> x.nid, nid |-> ln.val, name |-> ln.key]
    BY <1>1
  <2> HIDE DEF e, new
  <2>7. funcs' \in Seq(FuncEntry) /\ Range(funcs') = IF new THEN Range(funcs) \cup {e} ELSE Range(funcs)
    BY <1>2, <2>1, <2>5
  <2>8. Reader' = After(x, ln)
    BY <1>1, <1>3, <2>1, <2>2, <2>6, <2>7 DEF After
  <2> QED
    BY <1>2, <2>1, <2>7, <2>8 DEF x
<1> QED
  BY <1>4, <1>5, <1>6

LEMMA ReadKeeps ==
  ASSUME DbInv, ReadLine
  PROVE  DbInv'
<1> DEFINE ln == Head(lines)
<1>1. /\ lines # << >>
      /\ Section(ln) \/ LibNid(ln) \/ Value(ln)
      /\ lines' = Tail(lines) /\ dir' = dir /\ opened' = opened
  BY DEF ReadLine
<1>2. DbType /\ lines \in Seq(DbLine) /\ dir \in Seq(Seq(DbModule)) /\ opened \in 0 .. Len(dir)
  BY DEF DbInv, DbType
<1>3. ln \in DbLine /\ Tail(lines) \in Seq(DbLine)
  <2>1. lines[1] \in DbLine /\ ln = lines[1] /\ Tail(lines) \in Seq(DbLine)
    BY <1>1, <1>2, HeadTailProperties
  <2> QED
    BY <2>1
<1> HIDE DEF ln
<1>4. /\ Reader' = After(Reader, ln)
      /\ curLib' \in Keys /\ curNid' \in Int /\ inFunctions' \in BOOLEAN /\ libIndent' \in Int
      /\ funcs' \in Seq(FuncEntry) /\ libs' \in Seq(LibEntry)
  BY <1>1, <1>2, <1>3, LineReads
<1>5. PICK y : Runs(Reader, lines, y) /\ Holds(opened, y)
  BY DEF DbInv
<1>6. Runs(After(Reader, ln), Tail(lines), y)
  BY <1>1, <1>2, <1>5, RunsLine, Zenon DEF ln
<1>7. Runs(Reader', lines', y)
  BY <1>1, <1>4, <1>6
<1>8. Holds(opened, y)'
  BY <1>1, <1>5 DEF Holds
<1>9. DbType'
  BY <1>1, <1>2, <1>3, <1>4 DEF DbType
<1> QED
  BY <1>7, <1>8, <1>9 DEF DbInv

(* DbInv is inductive.                                                     *)
LEMMA DbInvStep ==
  ASSUME DbInv, [Next]_vars
  PROVE  DbInv'
<1>1. ASSUME dbVars' = dbVars
      PROVE  DbInv'
  <2>1. /\ dir' = dir /\ opened' = opened /\ lines' = lines /\ curLib' = curLib /\ curNid' = curNid
        /\ inFunctions' = inFunctions /\ libIndent' = libIndent /\ funcs' = funcs /\ libs' = libs
    BY <1>1 DEF dbVars
  <2>2. DbType'
    BY <2>1 DEF DbInv, DbType
  <2>3. PICK y : Runs(Reader, lines, y) /\ Holds(opened, y)
    BY DEF DbInv
  <2>4. Reader' = Reader
    BY <2>1 DEF Reader
  <2>5. Runs(Reader', lines', y) /\ Holds(opened, y)'
    BY <2>1, <2>3, <2>4 DEF Holds
  <2> QED
    BY <2>2, <2>5 DEF DbInv
<1>2. CASE ParseHeader \/ WalkImport \/ EndWalk \/ PairImport \/ SortStubs
  BY <1>1, <1>2 DEF ParseHeader, WalkImport, EndWalk, PairImport, SortStubs
<1>3. CASE OpenFile
  BY <1>3, OpenKeeps
<1>4. CASE ReadLine
  BY <1>4, ReadKeeps
<1>5. CASE Done \/ UNCHANGED vars
  BY <1>1, <1>5 DEF Done, vars
<1> QED
  BY <1>2, <1>3, <1>4, <1>5 DEF Next

--------------------------------------------------------------------------------
(* What the lookups of a name yield.                                      *)

LEMMA FirstNameIs ==
  ASSUME NEW S, NEW s \in Seq(S), NEW H, H \subseteq 1 .. Len(s), H # {}
  PROVE  \E k \in H : FirstName(s, H) = s[k].name
<1>1. Len(s) \in Nat
  OBVIOUS
<1>2. H \subseteq Nat
  BY <1>1
<1>3. \E k \in H : \A j \in H : k <= j
  BY <1>2, LeastNumber
<1> DEFINE c == CHOOSE k \in H : \A j \in H : k <= j
<1>4. c \in H
  BY <1>3
<1>5. FirstName(s, H) = s[c].name
  BY Zenon DEF FirstName
<1> HIDE DEF c
<1> QED
  BY <1>4, <1>5

(* What the lookup of a function yields. *)
LEMMA FuncNameIs ==
  ASSUME funcs \in Seq(FuncEntry), NEW lib, NEW nid
  PROVE  /\ (\E e \in Range(funcs) : e.lib = lib /\ e.nid = nid) =>
              \E e \in Range(funcs) : e.lib = lib /\ e.nid = nid /\ nid_func_name(lib, nid) = e.name
         /\ (\E e \in Range(funcs) : e.nid = nid) =>
              \E e \in Range(funcs) : e.nid = nid /\ nid_func_name(lib, nid) = e.name
         /\ ~(\E e \in Range(funcs) : e.nid = nid) => nid_func_name(lib, nid) = NoName
<1> DEFINE I == 1 .. Len(funcs)
           named == { k \in I : funcs[k].nid = nid }
           exact == { k \in named : funcs[k].lib = lib }
           w == nid_func_name(lib, nid)
<1>1. Range(funcs) = { funcs[k] : k \in I } /\ DOMAIN funcs = I
  BY RangeUpTo
<1>2. w = FirstName(funcs, IF exact # {} THEN exact ELSE named)
  BY <1>1 DEF nid_func_name
<1>3. ASSUME exact # {}
      PROVE  \E k \in exact : w = funcs[k].name
  <2>1. exact \subseteq I
    OBVIOUS
  <2> HIDE DEF exact, w
  <2>2. w = FirstName(funcs, exact)
    BY <1>2, <1>3
  <2>3. \E k \in exact : FirstName(funcs, exact) = funcs[k].name
    BY <1>3, <2>1, FirstNameIs, Zenon DEF I
  <2> QED
    BY <2>2, <2>3
<1>4. ASSUME exact = {}, named # {}
      PROVE  \E k \in named : w = funcs[k].name
  <2>1. named \subseteq I
    OBVIOUS
  <2>2. w = FirstName(funcs, named)
    BY <1>2, <1>4
  <2> HIDE DEF named, w, exact
  <2>3. \E k \in named : FirstName(funcs, named) = funcs[k].name
    BY <1>4, <2>1, FirstNameIs, Zenon DEF I
  <2> QED
    BY <2>2, <2>3
<1>5. ASSUME named = {}
      PROVE  w = NoName
  <2>1. w = FirstName(funcs, {})
    BY <1>2, <1>5
  <2> QED
    BY <2>1 DEF FirstName
<1> HIDE DEF w
<1>6. (\E e \in Range(funcs) : e.lib = lib /\ e.nid = nid) <=> exact # {}
  BY <1>1
<1>7. (\E e \in Range(funcs) : e.nid = nid) <=> named # {}
  BY <1>1
<1>8. exact # {} => \E e \in Range(funcs) : e.lib = lib /\ e.nid = nid /\ w = e.name
  BY <1>1, <1>3
<1>9. exact = {} /\ named # {} => \E e \in Range(funcs) : e.nid = nid /\ w = e.name
  BY <1>1, <1>4
<1> HIDE DEF exact, named
<1> QED
  BY <1>5, <1>6, <1>7, <1>8, <1>9 DEF w

LEMMA LibNameIs ==
  ASSUME libs \in Seq(LibEntry), NEW nid, \E e \in Range(libs) : e.nid = nid
  PROVE  \E e \in Range(libs) : e.nid = nid /\ nid_lib_name(nid) = e.name
<1> DEFINE I == 1 .. Len(libs)
           H == { k \in I : libs[k].nid = nid }
<1>1. Range(libs) = { libs[k] : k \in I } /\ DOMAIN libs = I
  BY RangeUpTo
<1>2. nid_lib_name(nid) = FirstName(libs, H)
  BY <1>1 DEF nid_lib_name
<1>3. H # {} /\ H \subseteq I
  BY <1>1
<1>4. \E k \in H : FirstName(libs, H) = libs[k].name
  <2> HIDE DEF H
  <2> QED
    BY <1>3, FirstNameIs, Zenon DEF I
<1> QED
  BY <1>1, <1>2, <1>4

(* The files read, as the property puts them.  *)
ReadAs(H, A, V) ==
  /\ UNION { Declared(f) : f \in Range(dir) } \subseteq H
  /\ \A z \in H : \/ z \in UNION { Declared(f) : f \in Range(dir) }
                 \/ z.nid \in UNION { Strange(f) : f \in Range(dir) }
  /\ UNION { LibsOf(f) : f \in Range(dir) } = { l \in A : l.nid # 0 }
  /\ UNION { { m.nid : m \in Range(f) } : f \in Range(dir) } = V

LEMMA DirectoryHolds ==
  ASSUME dir \in Seq(Seq(DbModule)),
         NEW H, H = UNION { FuncsOf(dir[j]) : j \in 1 .. Len(dir) },
         NEW A, A = UNION { AllLibs(dir[j]) : j \in 1 .. Len(dir) },
         NEW V, V = UNION { NidsOf(dir[j]) : j \in 1 .. Len(dir) }
  PROVE  ReadAs(H, A, V)
<1>1. Range(dir) = { dir[j] : j \in 1 .. Len(dir) } /\ \A j \in 1 .. Len(dir) : dir[j] \in Seq(DbModule)
  BY RangeUpTo, ElementOfSeq
<1>2. \A f \in Range(dir) : f \in Seq(DbModule)
  BY <1>1
<1>3. \A f \in Range(dir) :
        /\ Declared(f) \subseteq FuncsOf(f)
        /\ \A z \in FuncsOf(f) : z \in Declared(f) \/ z.nid \in Strange(f)
  BY <1>2, FileEntries
<1>4. ASSUME NEW f \in Seq(DbModule)
      PROVE  LibsOf(f) = { l \in AllLibs(f) : l.nid # 0 } /\ { m.nid : m \in Range(f) } = NidsOf(f)
  <2>1. Range(f) = { f[j] : j \in 1 .. Len(f) } /\ \A j \in 1 .. Len(f) : f[j] \in DbModule
    BY RangeUpTo, ElementOfSeq
  <2>2. ASSUME NEW m \in DbModule
        PROVE  Range(m.libs) = LibSetOf(m)
    <3>1. m.libs \in Seq(DbLib)
      BY DEF DbModule
    <3> QED
      BY <3>1, RangeUpTo DEF LibSetOf
  <2>3. \A m \in Range(f) : Range(m.libs) = LibSetOf(m)
    BY <2>1, <2>2
  <2>4. UNION { Range(m.libs) : m \in Range(f) } = UNION { LibSetOf(m) : m \in Range(f) }
    BY <2>3
  <2>5. UNION { LibSetOf(m) : m \in Range(f) } = AllLibs(f)
    BY <2>1 DEF AllLibs
  <2>6. { m.nid : m \in Range(f) } = NidsOf(f)
    BY <2>1 DEF NidsOf, NidsUpTo
  <2> QED
    BY <2>4, <2>5, <2>6 DEF LibsOf
<1>5. H = UNION { FuncsOf(f) : f \in Range(dir) }
  BY <1>1
<1>6. A = UNION { AllLibs(f) : f \in Range(dir) }
  BY <1>1
<1>7. V = UNION { NidsOf(f) : f \in Range(dir) }
  BY <1>1
<1>8. UNION { LibsOf(f) : f \in Range(dir) } = { l \in A : l.nid # 0 }
  <2>1. \A f \in Range(dir) : LibsOf(f) = { l \in AllLibs(f) : l.nid # 0 }
    BY <1>2, <1>4
  <2>2. \A l : l \in A <=> \E f \in Range(dir) : l \in AllLibs(f)
    BY <1>6
  <2>3. \A l : l \in UNION { LibsOf(f) : f \in Range(dir) } <=>
                 \E f \in Range(dir) : l \in AllLibs(f) /\ l.nid # 0
    BY <2>1
  <2> QED
    BY <2>2, <2>3
<1>9. UNION { { m.nid : m \in Range(f) } : f \in Range(dir) } = V
  <2>1. \A f \in Range(dir) : { m.nid : m \in Range(f) } = NidsOf(f)
    BY <1>2, <1>4
  <2>2. \A v : v \in V <=> \E f \in Range(dir) : v \in NidsOf(f)
    BY <1>7
  <2>3. \A v : v \in UNION { { m.nid : m \in Range(f) } : f \in Range(dir) } <=>
                 \E f \in Range(dir) : v \in NidsOf(f)
    BY <2>1
  <2> QED
    BY <2>2, <2>3
<1>10. UNION { Declared(f) : f \in Range(dir) } \subseteq H
  BY <1>3, <1>5
<1>11. ASSUME NEW z \in H
       PROVE  \/ z \in UNION { Declared(f) : f \in Range(dir) }
              \/ z.nid \in UNION { Strange(f) : f \in Range(dir) }
  <2>1. PICK f \in Range(dir) : z \in FuncsOf(f)
    BY <1>5
  <2>2. z \in Declared(f) \/ z.nid \in Strange(f)
    BY <1>3, <2>1
  <2> QED
    BY <2>2
<1> QED
  BY <1>8, <1>9, <1>10, <1>11, Zenon DEF ReadAs

(* With the directory read, the property holds.                            *)
LEMMA ReadIsNamed ==
  ASSUME DbInv
  PROVE  ImportsNamed
<1> DEFINE declared == UNION { Declared(f) : f \in Range(dir) }
           strange  == UNION { Strange(f) : f \in Range(dir) }
           all      == UNION { LibsOf(f) : f \in Range(dir) }
           modules  == UNION { { m.nid : m \in Range(f) } : f \in Range(dir) }
           Symbol(s) ==
             CASE Names(declared, s) # {} -> hle_symbol(s) \in Names(declared, s)
               [] Names(declared, s) = {} /\ AnyNames(declared, s) # {} ->
                    hle_symbol(s) \in AnyNames(declared, s)
               [] AnyNames(declared, s) = {} -> hle_symbol(s) = s.nid
           Libraries == \A l \in { x \in all : x.nid \notin modules } :
             nid_lib_name(l.nid) \in { x.name : x \in { y \in all : y.nid = l.nid } }
<1>1. SUFFICES ASSUME opened = Len(dir), lines = << >>
               PROVE  /\ declared \subseteq Range(funcs)
                      /\ \A e \in Range(funcs) : e.nid \notin strange => e \in declared
                      /\ \A s \in { x \in Range(stubs) : x.nid \notin strange } : Symbol(s)
                      /\ Libraries
  BY Zenon DEF ImportsNamed, DirectoryRead
<1>2. /\ dir \in Seq(Seq(DbModule)) /\ funcs \in Seq(FuncEntry) /\ libs \in Seq(LibEntry)
  BY DEF DbInv, DbType
<1> DEFINE H == UNION { FuncsOf(dir[j]) : j \in 1 .. Len(dir) }
           A == UNION { AllLibs(dir[j]) : j \in 1 .. Len(dir) }
           V == UNION { NidsOf(dir[j]) : j \in 1 .. Len(dir) }
<1>3. Range(funcs) = H /\ LibsGrow({}, A, V, Range(libs))
  <2>1. PICK y : Runs(Reader, << >>, y) /\ Holds(Len(dir), y)
    BY <1>1 DEF DbInv
  <2>2. y = Reader
    BY <2>1, RunsNothing
  <2>3. y.funcs = Range(funcs) /\ y.libs = Range(libs)
    BY <2>2, StateIs DEF Reader
  <2> QED
    BY <2>1, <2>3 DEF Holds
<1>4. /\ declared \subseteq H
      /\ \A z \in H : z \in declared \/ z.nid \in strange
      /\ all = { l \in A : l.nid # 0 }
      /\ modules = V
  <2>1. /\ H = UNION { FuncsOf(dir[j]) : j \in 1 .. Len(dir) }
        /\ A = UNION { AllLibs(dir[j]) : j \in 1 .. Len(dir) }
        /\ V = UNION { NidsOf(dir[j]) : j \in 1 .. Len(dir) }
    OBVIOUS
  <2> HIDE DEF H, A, V
  <2>2. ReadAs(H, A, V)
    BY <1>2, <2>1, DirectoryHolds
  <2> QED
    BY <2>2, Zenon DEF ReadAs
<1>6. \A z \in H : z.name # NoName
  <2>1. \A j \in 1 .. Len(dir) : dir[j] \in Seq(DbModule)
    BY <1>2, ElementOfSeq
  <2>2. \A j \in 1 .. Len(dir) : \A z \in FuncsOf(dir[j]) : z.name # NoName
    BY <2>1, EntriesNamed
  <2> QED
    BY <2>2
<1> HIDE DEF declared, strange, all, modules, H, A, V
<1>7. ASSUME NEW s \in Range(stubs), s.nid \notin strange
      PROVE  Symbol(s)
  <2> DEFINE w == nid_func_name(s.lib, s.nid)
             N == Names(declared, s)
             M == AnyNames(declared, s)
             h == hle_symbol(s)
  <2>1. h = IF w # NoName THEN w ELSE s.nid
    BY Zenon DEF hle_symbol
  <2>2. /\ (\E e \in Range(funcs) : e.lib = s.lib /\ e.nid = s.nid) =>
             \E e \in Range(funcs) : e.lib = s.lib /\ e.nid = s.nid /\ w = e.name
        /\ (\E e \in Range(funcs) : e.nid = s.nid) => \E e \in Range(funcs) : e.nid = s.nid /\ w = e.name
        /\ ~(\E e \in Range(funcs) : e.nid = s.nid) => w = NoName
    BY <1>2, FuncNameIs
  <2>3. /\ \A n : n \in N <=> \E e \in declared : e.lib = s.lib /\ e.nid = s.nid /\ n = e.name
        /\ \A n : n \in M <=> \E e \in declared : e.nid = s.nid /\ n = e.name
    BY DEF Names, AnyNames
  <2>11. \A e : e.nid = s.nid => (e \in Range(funcs) <=> e \in declared)
    BY <1>3, <1>4, <1>7
  <2>12. /\ \A n : n \in N <=> \E e \in Range(funcs) : e.lib = s.lib /\ e.nid = s.nid /\ n = e.name
         /\ \A n : n \in M <=> \E e \in Range(funcs) : e.nid = s.nid /\ n = e.name
    <3> HIDE DEF N, M
    <3> QED
      BY <2>3, <2>11
  <2>13. \A z \in Range(funcs) : z.name # NoName
    BY <1>3, <1>6
  <2> HIDE DEF w, N, M, h
  <2>4. N # {} => w \in N /\ w # NoName
    BY <2>2, <2>12, <2>13
  <2>5. M # {} => w \in M /\ w # NoName
    BY <2>2, <2>12, <2>13
  <2>6. M = {} => w = NoName
    BY <2>2, <2>12
  <2>7. N # {} => M # {}
    BY <2>3
  <2>8. CASE N # {}
    <3>1. h \in N
      BY <2>1, <2>4, <2>8
    <3>2. M # {}
      BY <2>7, <2>8
    <3> QED
      BY <2>8, <3>1, <3>2 DEF N, M, h
  <2>9. CASE N = {} /\ M # {}
    <3>1. h \in M
      BY <2>1, <2>5, <2>9
    <3> QED
      BY <2>9, <3>1 DEF N, M, h
  <2>10. CASE M = {}
    <3>1. h = s.nid /\ N = {}
      BY <2>1, <2>6, <2>7, <2>10
    <3> QED
      BY <2>10, <3>1 DEF N, M, h
  <2> QED
    BY <2>8, <2>9, <2>10
<1>8. ASSUME NEW l \in all, l.nid \notin modules
      PROVE  nid_lib_name(l.nid) \in { x.name : x \in { y \in all : y.nid = l.nid } }
  <2>0. l \in A /\ l.nid # 0
    BY <1>4
  <2>1. \E e \in Range(libs) : e.nid = l.nid
    BY <1>3, <2>0, Zenon DEF LibsGrow
  <2>2. PICK e \in Range(libs) : e.nid = l.nid /\ nid_lib_name(l.nid) = e.name
    BY <1>2, <2>1, LibNameIs
  <2>3. e \in {} \/ e.nid \in V \/ \E k \in A : e = [nid |-> k.nid, name |-> k.name]
    BY <1>3, Zenon DEF LibsGrow
  <2>4. PICK k \in A : e = [nid |-> k.nid, name |-> k.name]
    BY <1>4, <1>8, <2>2, <2>3
  <2>5. k.nid = l.nid /\ k.name = nid_lib_name(l.nid)
    BY <2>2, <2>4
  <2>6. k \in all
    BY <1>4, <2>0, <2>4, <2>5
  <2> QED
    BY <2>5, <2>6
<1>9. \A e \in Range(funcs) : e.nid \notin strange => e \in declared
  BY <1>3, <1>4
<1> QED
  BY <1>3, <1>4, <1>7, <1>8, <1>9

(* nid_db_load leaves the functions the directory declares in the database,*)
(* and others only under NIDs of modules and of variables; hle_symbol      *)
(* names every callee of another NID after a function declared for it, if  *)
(* there is one, and nid_lib_name every library of another NID.            *)
THEOREM ImportsAreNamed == Spec => []ImportsNamed
<1>1. DbInv /\ [Next]_vars => DbInv'
  BY DbInvStep
<1> QED
  BY DbInvInit, <1>1, ReadIsNamed, PTL DEF Spec
================================================================================
