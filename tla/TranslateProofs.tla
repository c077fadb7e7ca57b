---------------------------- MODULE TranslateProofs ----------------------------
(***************************************************************************)
(* For every width of a word, every operand and every program: what the C  *)
(* does to registers, flags and memory is what the machine does, but for   *)
(* the gaps Translate.tla names.                                           *)
(*                                                                         *)
(* The argument goes up in five parts.  A word is the sum of its bits, so  *)
(* the bitwise helpers of recomp_rt.h can be held against division and     *)
(* remainder, in which the architecture is written.  On that rest the      *)
(* shifts, extends, bit fields and byte reversal; then the flags, where an *)
(* addition with carry that does not wrap has to be found again by a test  *)
(* on the wrapped result; then each kind of instruction, encoding by       *)
(* encoding, with its operands and addresses.  An instruction that a gap   *)
(* turns into another is only shown to leave alone what neither names.     *)
(* The last part is the invariant of a run.                                *)
(***************************************************************************)
EXTENDS Translate, Induction

--------------------------------------------------------------------------------
(* Division, powers and the bits of a number. *)

(* Division with remainder, and that it is the only one. *)
LEMMA DivMod ==
  ASSUME NEW x \in Int, NEW p \in Nat \ {0}
  PROVE  x \div p \in Int /\ x % p \in 0 .. p - 1 /\ x = p * (x \div p) + (x % p)
  OBVIOUS

(* A number in the form p * q + r has no other quotient and remainder.     *)
LEMMA DivModIs ==
  ASSUME NEW p \in Nat \ {0}, NEW q \in Int, NEW r \in 0 .. p - 1
  PROVE  (p * q + r) \div p = q /\ (p * q + r) % p = r
<1> DEFINE x == p * q + r
           d == x \div p
           m == x % p
<1>1. x \in Int
  OBVIOUS
<1>2. d \in Int /\ m \in 0 .. p - 1 /\ x = p * d + m
  BY <1>1, DivMod
<1>3. p * (d - q) = r - m
  <2>1. p * d + m = p * q + r
    BY <1>2
  <2> HIDE DEF d, m
  <2> QED
    BY <2>1, <1>2
<1> HIDE DEF x, d, m
<1>4. CASE d - q >= 1
  <2>1. p * (d - q) >= p
    BY <1>2, <1>4
  <2> QED
    BY <2>1, <1>2, <1>3
<1>5. CASE d - q <= -1
  <2>1. p * (d - q) <= -p
    BY <1>2, <1>5
  <2> QED
    BY <2>1, <1>2, <1>3
<1>6. CASE d = q
  BY <1>2, <1>3, <1>6 DEF d, m, x
<1> QED
  BY <1>2, <1>4, <1>5, <1>6

(* Dividing twice, and what is left of both divisions. *)
LEMMA DivTwice ==
  ASSUME NEW x \in Int, NEW p \in Nat \ {0}, NEW r \in Nat \ {0}
  PROVE  /\ p * r \in Nat \ {0}
         /\ x \div (p * r) = (x \div p) \div r
         /\ x % (p * r) = p * ((x \div p) % r) + (x % p)
<1> DEFINE q == x \div p
           s == x % p
           t == q \div r
           u == q % r
<1>1. q \in Int /\ s \in 0 .. p - 1 /\ x = p * q + s
  BY DivMod
<1>2. t \in Int /\ u \in 0 .. r - 1 /\ q = r * t + u
  BY <1>1, DivMod
<1> HIDE DEF q, s, t, u
<1>3. p * r \in Nat \ {0}
  OBVIOUS
<1>4. x = (p * r) * t + (p * u + s)
  <2>1. p * q = p * (r * t) + p * u
    BY <1>2
  <2>2. p * (r * t) = (p * r) * t
    BY <1>2
  <2>3. p * q \in Int /\ p * u \in Int /\ (p * r) * t \in Int
    BY <1>1, <1>2
  <2>4. x = ((p * r) * t + p * u) + s
    BY <2>1, <2>2, <1>1
  <2> DEFINE a == (p * r) * t
             b == p * u
  <2>5. x = (a + b) + s /\ a \in Int /\ b \in Int /\ s \in Int
    BY <2>3, <2>4, <1>1
  <2> HIDE DEF a, b
  <2>6. x = a + (b + s)
    BY <2>5
  <2> QED
    BY <2>6 DEF a, b
<1>5. p * u + s \in 0 .. p * r - 1
  <2>1. p * u <= p * (r - 1)
    BY <1>2
  <2>2. p * (r - 1) = p * r - p
    OBVIOUS
  <2>3. p * u \in Nat
    BY <1>2
  <2> QED
    BY <2>1, <2>2, <2>3, <1>1, <1>3
<1>6. x \div (p * r) = t /\ x % (p * r) = p * u + s
  <2> DEFINE m == p * r
             v == p * u + s
  <2>1. m \in Nat \ {0} /\ v \in 0 .. m - 1 /\ x = m * t + v
    BY <1>3, <1>4, <1>5
  <2> HIDE DEF m, v
  <2>2. x \div m = t /\ x % m = v
    BY <2>1, <1>2, DivModIs
  <2> QED
    BY <2>2 DEF m, v
<1> QED
  BY <1>3, <1>6 DEF q, s, t, u

--------------------------------------------------------------------------------
(* Powers of two. *)

(* A power of two is a positive number, twice the one before. *)
LEMMA PowerType ==
  ASSUME NEW n \in Nat
  PROVE  2 ^ n \in Nat \ {0} /\ 2 ^ (n + 1) = 2 * 2 ^ n
  BY PowerStep

(* The recursion of the powers of two starts at one. *)
LEMMA PowerZero == 2 ^ 0 = 1
  OBVIOUS

(* Exponents add up. *)
LEMMA PowerSum ==
  ASSUME NEW a \in Nat, NEW b \in Nat
  PROVE  2 ^ (a + b) = 2 ^ a * 2 ^ b
<1> DEFINE T == { n \in Nat : 2 ^ (a + n) = 2 ^ a * 2 ^ n }
<1>1. 0 \in T
  BY PowerZero, PowerType
<1>2. ASSUME NEW n \in Nat, n \in T
      PROVE  n + 1 \in T
  <2> DEFINE p == 2 ^ a
             q == 2 ^ n
             u == 2 ^ (a + n)
  <2>1. u = p * q /\ p \in Nat /\ q \in Nat /\ u \in Nat
    BY <1>2, PowerType
  <2>2. 2 ^ (a + n + 1) = 2 * u /\ 2 ^ (n + 1) = 2 * q
    BY PowerType
  <2>3. a + (n + 1) = a + n + 1
    OBVIOUS
  <2>4. 2 ^ (a + (n + 1)) = 2 * u
    BY <2>2, <2>3
  <2> HIDE DEF p, q, u
  <2>5. 2 * u = p * (2 * q)
    BY <2>1
  <2>6. 2 ^ (a + (n + 1)) = p * 2 ^ (n + 1)
    BY <2>2, <2>4, <2>5
  <2> QED
    BY <2>6 DEF p
<1>3. Nat \subseteq T
  <2> HIDE DEF T
  <2> QED
    BY <1>1, <1>2, SetInduction
<1> QED
  BY <1>3

(* A larger power of two is a multiple of a smaller one. *)
LEMMA PowerGrows ==
  ASSUME NEW a \in Nat, NEW b \in Nat, a <= b
  PROVE  /\ 2 ^ b = 2 ^ a * 2 ^ (b - a) /\ 2 ^ a <= 2 ^ b
         /\ a < b => 2 * 2 ^ a <= 2 ^ b
<1> DEFINE p == 2 ^ a
           q == 2 ^ (b - a)
<1>1. b - a \in Nat /\ a + (b - a) = b
  OBVIOUS
<1>2. 2 ^ b = p * q
  BY <1>1, PowerSum
<1>3. p \in Nat \ {0} /\ q \in Nat \ {0}
  BY <1>1, PowerType
<1>4. ASSUME a < b PROVE q >= 2
  <2>1. b - a - 1 \in Nat /\ (b - a - 1) + 1 = b - a
    BY <1>4
  <2>2. q = 2 * 2 ^ (b - a - 1) /\ 2 ^ (b - a - 1) \in Nat \ {0}
    BY <2>1, PowerType
  <2> HIDE DEF q
  <2> QED
    BY <2>2
<1> HIDE DEF p, q
<1>5. p <= p * q /\ (a < b => 2 * p <= p * q)
  BY <1>3, <1>4
<1> QED
  BY <1>2, <1>5 DEF p, q

(* What every width that is a multiple of four has. *)
LEMMA WidthFacts ==
  /\ Width \in Nat /\ Width >= 4
  /\ Mod \in Nat \ {0} /\ Half \in Nat \ {0} /\ Mod = 2 * Half /\ Mod >= 4
  /\ Mod = 2 ^ Width /\ Half = 2 ^ (Width - 1)
<1>1. Width \in Nat /\ Width >= 4
  BY WidthAssumption
<1>2. Width - 1 \in Nat /\ (Width - 1) + 1 = Width
  BY <1>1
<1>3. Mod = 2 * Half /\ Half \in Nat \ {0}
  BY <1>2, PowerType DEF Mod, Half
<1> DEFINE n == Width - 2
<1>4. n \in Nat /\ 0 < n /\ n < Width
  BY <1>1
<1> HIDE DEF n
<1>5. 2 * 2 ^ n <= 2 ^ Width
  BY <1>1, <1>4, PowerGrows
<1>7. 2 <= 2 ^ n
  <2>1. n - 1 \in Nat /\ (n - 1) + 1 = n
    BY <1>4
  <2>2. 2 ^ (n - 1) \in Nat \ {0} /\ 2 ^ ((n - 1) + 1) = 2 * 2 ^ (n - 1)
    BY <2>1, PowerType
  <2> QED
    BY <2>1, <2>2
<1>6. 2 ^ n \in Nat /\ 2 ^ Width \in Nat
  BY <1>1, <1>4, PowerType
<1> QED
  BY <1>1, <1>3, <1>5, <1>6, <1>7, PowerZero DEF Mod, Half

--------------------------------------------------------------------------------
(* Bits. *)

(* A bit is zero or one. *)
LEMMA BitType ==
  ASSUME NEW x \in Int, NEW i \in Nat
  PROVE  /\ BitAt(x, i) \in {0, 1} /\ x % 2 ^ i \in 0 .. 2 ^ i - 1
         /\ x % 2 ^ (i + 1) = (x % 2 ^ i) + BitAt(x, i) * 2 ^ i
<1> DEFINE p == 2 ^ i
           two == 2
<1>1. p \in Nat \ {0} /\ two \in Nat \ {0} /\ 2 ^ (i + 1) = p * two
  BY PowerType
<1> HIDE DEF p, two
<1>2. x % (p * two) = p * ((x \div p) % two) + (x % p)
  BY <1>1, DivTwice
<1> USE DEF two
<1>3. x \div p \in Int /\ x % p \in 0 .. p - 1
  BY <1>1, DivMod
<1>4. (x \div p) % 2 \in {0, 1}
  BY <1>3
<1> DEFINE b == (x \div p) % 2
<1>5. p * b + (x % p) = (x % p) + b * p
  <2> HIDE DEF b
  <2> QED
    BY <1>1, <1>3, <1>4 DEF b
<1>6. b = BitAt(x, i)
  BY DEF p, BitAt
<1> QED
  BY <1>1, <1>2, <1>3, <1>4, <1>5, <1>6 DEF p

(* Numbers below a power add up as their bits do, when no carry arises.    *)
LEMMA BitsAdd ==
  ASSUME NEW x \in Nat, NEW y \in Nat, NEW z \in Nat, NEW n \in Nat,
         \A i \in 0 .. n - 1 : BitAt(x, i) + BitAt(y, i) = BitAt(z, i)
  PROVE  (x % 2 ^ n) + (y % 2 ^ n) = z % 2 ^ n
<1> DEFINE T == { k \in Nat : k <= n => (x % 2 ^ k) + (y % 2 ^ k) = z % 2 ^ k }
<1>1. 0 \in T
  BY PowerZero
<1>2. ASSUME NEW k \in Nat, k \in T
      PROVE  k + 1 \in T
  <2> SUFFICES ASSUME k + 1 <= n
               PROVE  (x % 2 ^ (k + 1)) + (y % 2 ^ (k + 1)) = z % 2 ^ (k + 1)
    OBVIOUS
  <2>1. k \in 0 .. n - 1
    OBVIOUS
  <2>2. BitAt(x, k) + BitAt(y, k) = BitAt(z, k)
    BY <2>1
  <2>3. (x % 2 ^ k) + (y % 2 ^ k) = z % 2 ^ k
    BY <1>2, <2>1
  <2> DEFINE p == 2 ^ k
             a == BitAt(x, k)
             b == BitAt(y, k)
             c == BitAt(z, k)
             u == x % p
             v == y % p
             w == z % p
  <2>4. /\ x % 2 ^ (k + 1) = u + a * p /\ a \in {0, 1} /\ u \in Nat
        /\ y % 2 ^ (k + 1) = v + b * p /\ b \in {0, 1} /\ v \in Nat
        /\ z % 2 ^ (k + 1) = w + c * p /\ c \in {0, 1} /\ w \in Nat
        /\ p \in Nat
    BY BitType, PowerType
  <2>5. a + b = c /\ u + v = w
    BY <2>2, <2>3
  <2> HIDE DEF p, a, b, c, u, v, w
  <2>6. (u + a * p) + (v + b * p) = w + c * p
    BY <2>4, <2>5
  <2> QED
    BY <2>4, <2>6
<1>3. Nat \subseteq T
  <2> HIDE DEF T
  <2> QED
    BY <1>1, <1>2, SetInduction
<1> QED
  BY <1>3

(* A number below p is its own remainder. *)
LEMMA WordMod ==
  ASSUME NEW x \in Nat, NEW p \in Nat \ {0}, x < p
  PROVE  x % p = x /\ x \div p = 0
<1>1. (p * 0 + x) \div p = 0 /\ (p * 0 + x) % p = x
  BY DivModIs
<1> QED
  BY <1>1

(* Words add up as their bits do, when no carry arises. *)
LEMMA WordsAdd ==
  ASSUME NEW x \in Word, NEW y \in Word, NEW z \in Word,
         \A i \in 0 .. Width - 1 : BitAt(x, i) + BitAt(y, i) = BitAt(z, i)
  PROVE  x + y = z
<1>1. /\ x \in Nat /\ y \in Nat /\ z \in Nat /\ Width \in Nat
      /\ x < Mod /\ y < Mod /\ z < Mod /\ Mod \in Nat \ {0}
  BY WidthFacts DEF Word
<1>2. (x % 2 ^ Width) + (y % 2 ^ Width) = z % 2 ^ Width
  BY <1>1, BitsAdd
<1>3. x % Mod = x /\ y % Mod = y /\ z % Mod = z
  BY <1>1, WordMod
<1> QED
  BY <1>2, <1>3 DEF Mod

(* A bit, from any way to split the number at its place. *)
LEMMA BitIs ==
  ASSUME NEW i \in Nat, NEW q \in Int, NEW r \in 0 .. 2 ^ i - 1, NEW x, x = 2 ^ i * q + r
  PROVE  BitAt(x, i) = q % 2
<1> DEFINE p == 2 ^ i
<1>1. p \in Nat \ {0} /\ x = p * q + r /\ r \in 0 .. p - 1
  BY PowerType
<1> HIDE DEF p
<1>2. x \div p = q
  BY <1>1, DivModIs
<1> QED
  BY <1>2 DEF p, BitAt

(* The value of bits, built from the lowest up. *)
LEMMA FromBitsIs ==
  ASSUME NEW b \in [0 .. Width - 1 -> {0, 1}]
  PROVE  FromBits(b) \in Word /\ \A i \in 0 .. Width - 1 : BitAt(FromBits(b), i) = b[i]
<1> DEFINE Turn(i, x) == x + b[i - 1] * 2 ^ (i - 1)
           step == [i \in Nat |-> [x \in Nat |-> IF i \in 1 .. Width THEN Turn(i, x) ELSE 0]]
           v == CHOOSE v : v = [i \in 0 .. Width |-> IF i = 0 THEN 0 ELSE Turn(i, v[i - 1])]
<1>1. Width \in Nat
  BY WidthFacts
<1>2. ASSUME NEW i \in 1 .. Width, NEW x \in Nat
      PROVE  Turn(i, x) \in Nat
  <2>1. i - 1 \in Nat /\ i - 1 \in 0 .. Width - 1
    BY <1>1
  <2> DEFINE c == b[i - 1]
             w == 2 ^ (i - 1)
  <2>2. c \in {0, 1} /\ w \in Nat
    BY <2>1, PowerType
  <2> HIDE DEF c, w
  <2>3. x + c * w \in Nat
    BY <2>2
  <2> QED
    BY <2>3 DEF c, w
<1>3. step \in [Nat -> [Nat -> Nat]]
  BY <1>2
<1>4. v = [i \in 0 .. Width |-> IF i = 0 THEN 0 ELSE Turn(i, v[i - 1])]
      /\ v \in [0 .. Width -> Nat]
  <2>1. PICK g : Recurses(g, Nat, 0, step, Width)
    <3> HIDE DEF step
    <3>1. 0 \in Nat
      OBVIOUS
    <3> QED
      BY <1>1, <1>3, <3>1, Recursion, Zenon
  <2>2. g \in [0 .. Width -> Nat] /\ g[0] = 0 /\ \A i \in 1 .. Width : g[i] = Turn(i, g[i - 1])
    <3>1. /\ g \in [0 .. Width -> Nat] /\ g[0] = 0
          /\ \A i \in 1 .. Width : g[i] = step[i][g[i - 1]]
      BY <2>1 DEF Recurses
    <3> HIDE DEF Turn, v
    <3>2. \A i \in 1 .. Width, x \in Nat : step[i][x] = Turn(i, x)
      BY <1>1
    <3> HIDE DEF step
    <3>3. \A i \in 1 .. Width : g[i - 1] \in Nat
      BY <1>1, <3>1
    <3> QED
      BY <3>1, <3>2, <3>3
  <2> HIDE DEF Turn
  <2>3. g = [i \in 0 .. Width |-> IF i = 0 THEN 0 ELSE Turn(i, g[i - 1])]
    BY <1>1, <2>2
  <2>4. v = [i \in 0 .. Width |-> IF i = 0 THEN 0 ELSE Turn(i, v[i - 1])]
    BY <2>3
  <2> HIDE DEF v, step
  <2>5. v[0] = 0 /\ \A i \in 1 .. Width : v[i] = Turn(i, v[i - 1])
    <3>1. \A i \in 0 .. Width : v[i] = IF i = 0 THEN 0 ELSE Turn(i, v[i - 1])
      BY <2>4, Zenon
    <3>2. 0 \in 0 .. Width /\ \A i \in 1 .. Width : i \in 0 .. Width /\ i # 0
      BY <1>1
    <3> QED
      BY <3>1, <3>2
  <2> DEFINE T == { k \in Nat : k <= Width => v[k] \in Nat }
  <2>6. 0 \in T
    BY <2>5
  <2>7. ASSUME NEW k \in Nat, k \in T
        PROVE  k + 1 \in T
    <3> SUFFICES ASSUME k + 1 <= Width PROVE v[k + 1] \in Nat
      OBVIOUS
    <3>1. k + 1 \in 1 .. Width /\ (k + 1) - 1 = k /\ k <= Width
      BY <1>1
    <3>2. v[k] \in Nat
      BY <2>7, <3>1
    <3>3. v[k + 1] = Turn(k + 1, v[k])
      BY <2>5, <3>1
    <3> QED
      BY <3>1, <3>2, <3>3, <1>2
  <2>8. Nat \subseteq T
    <3> HIDE DEF T
    <3> QED
      BY <2>6, <2>7, SetInduction
  <2>9. \A k \in 0 .. Width : v[k] \in Nat
    BY <2>8, <1>1
  <2> QED
    BY <2>4, <2>9
<1> HIDE DEF v, step, Turn
<1>5. v[0] = 0 /\ \A i \in 0 .. Width - 1 : v[i + 1] = v[i] + b[i] * 2 ^ i
  <2>1. v[0] = 0 /\ \A i \in 1 .. Width : v[i] = Turn(i, v[i - 1])
    <3>1. \A i \in 0 .. Width : v[i] = IF i = 0 THEN 0 ELSE Turn(i, v[i - 1])
      BY <1>4, Zenon
    <3>2. 0 \in 0 .. Width /\ \A i \in 1 .. Width : i \in 0 .. Width /\ i # 0
      BY <1>1
    <3> QED
      BY <3>1, <3>2
  <2>2. ASSUME NEW i \in 0 .. Width - 1
        PROVE  v[i + 1] = v[i] + b[i] * 2 ^ i
    <3>1. i + 1 \in 1 .. Width /\ (i + 1) - 1 = i
      BY <1>1
    <3>2. v[i + 1] = Turn(i + 1, v[i])
      BY <2>1, <3>1
    <3> QED
      BY <3>1, <3>2 DEF Turn
  <2> QED
    BY <2>1, <2>2
<1> DEFINE T == { k \in Nat : k <= Width =>
                   /\ v[k] \in 0 .. 2 ^ k - 1
                   /\ \A i \in 0 .. k - 1 : BitAt(v[k], i) = b[i] }
<1>6. 0 \in T
  BY <1>5, PowerZero
<1>7. ASSUME NEW k \in Nat, k \in T
      PROVE  k + 1 \in T
  <2> SUFFICES ASSUME k + 1 <= Width
               PROVE  /\ v[k + 1] \in 0 .. 2 ^ (k + 1) - 1
                      /\ \A i \in 0 .. k : BitAt(v[k + 1], i) = b[i]
    BY <1>1
  <2>1. k \in 0 .. Width - 1 /\ k <= Width
    BY <1>1
  <2> DEFINE p == 2 ^ k
             x == v[k]
             y == v[k + 1]
  <2>2. /\ y = x + b[k] * p /\ b[k] \in {0, 1} /\ x \in 0 .. p - 1
        /\ p \in Nat \ {0} /\ 2 ^ (k + 1) = 2 * p
        /\ \A i \in 0 .. k - 1 : BitAt(x, i) = b[i]
    BY <1>5, <1>7, <2>1, PowerType
  <2>3. y \in 0 .. 2 * p - 1
    <3> HIDE DEF p, x, y
    <3> QED
      BY <2>2
  <2>4. BitAt(y, k) = b[k]
    <3>1. y = p * b[k] + x
      <4> HIDE DEF p, x, y
      <4> QED
        BY <2>2
    <3>2. b[k] \in Int /\ x \in 0 .. 2 ^ k - 1 /\ y = 2 ^ k * b[k] + x
      BY <2>2, <3>1
    <3> HIDE DEF p, x, y
    <3>3. BitAt(y, k) = b[k] % 2
      BY <3>2, BitIs
    <3> QED
      BY <3>3, <2>2
  <2>5. ASSUME NEW i \in 0 .. k - 1
        PROVE  BitAt(y, i) = b[i]
    <3> DEFINE w == 2 ^ i
               q == x \div w
               r == x % w
               h == 2 ^ (k - 1 - i)
               c == b[k]
    <3>1. i \in Nat /\ k - 1 - i \in Nat /\ i < k
      OBVIOUS
    <3>2. w \in Nat \ {0} /\ h \in Nat /\ p = w * (2 * h)
      <4>1. i + (k - i) = k /\ k - i \in Nat /\ (k - 1 - i) + 1 = k - i
        OBVIOUS
      <4>2. 2 ^ k = w * 2 ^ (k - i)
        BY <3>1, <4>1, PowerSum
      <4>3. 2 ^ ((k - 1 - i) + 1) = 2 * h
        BY <3>1, PowerType
      <4> QED
        BY <3>1, <4>1, <4>2, <4>3, PowerType
    <3>3. q \in Int /\ r \in 0 .. w - 1 /\ x = w * q + r
      <4>1. x \in Int
        BY <2>2
      <4> HIDE DEF x, w
      <4> QED
        BY <3>2, <4>1, DivMod
    <3>4. BitAt(x, i) = q % 2 /\ BitAt(x, i) = b[i]
      BY <2>2 DEF BitAt
    <3> HIDE DEF p, x, y, w, q, r, h, c
    <3>5. y = w * (q + 2 * (h * c)) + r
      <4>1. y = (w * q + r) + c * (w * (2 * h)) /\ c \in {0, 1}
        BY <2>2, <3>2, <3>3 DEF c
      <4>2. CASE c = 0
        BY <4>1, <4>2, <3>2, <3>3
      <4>3. CASE c = 1
        <5>1. y = w * q + r + w * (2 * h)
          BY <4>1, <4>3, <3>2, <3>3
        <5>2. w * (q + 2 * h) = w * q + w * (2 * h)
          BY <3>2, <3>3
        <5> DEFINE e == w * q
                   g == w * (2 * h)
        <5>3. e \in Int /\ g \in Int /\ r \in Int /\ y = e + r + g /\ w * (q + 2 * h) = e + g
          BY <5>1, <5>2, <3>2, <3>3
        <5> HIDE DEF e, g
        <5>4. y = w * (q + 2 * h) + r
          BY <5>3
        <5> QED
          BY <5>4, <4>3, <3>2, <3>3
      <4> QED
        BY <4>1, <4>2, <4>3
    <3>6. q + 2 * (h * c) \in Int /\ r \in 0 .. 2 ^ i - 1
          /\ y = 2 ^ i * (q + 2 * (h * c)) + r
      BY SMTT(30), <2>2, <3>2, <3>3, <3>5 DEF w, c
    <3>7. BitAt(y, i) = (q + 2 * (h * c)) % 2
      BY <3>1, <3>6, BitIs
    <3>8. (q + 2 * (h * c)) % 2 = q % 2
      <4> DEFINE e == h * c
      <4>1. e \in Int /\ q \in Int
        BY <2>2, <3>2, <3>3 DEF c
      <4> HIDE DEF e
      <4>2. (q + 2 * e) % 2 = q % 2
        BY <4>1
      <4> QED
        BY <4>2 DEF e
    <3> QED
      BY <3>4, <3>7, <3>8
  <2> QED
    BY <2>2, <2>3, <2>4, <2>5
<1>8. Nat \subseteq T
  <2> HIDE DEF T
  <2> QED
    BY <1>6, <1>7, SetInduction
<1>9. v[Width] \in 0 .. 2 ^ Width - 1 /\ \A i \in 0 .. Width - 1 : BitAt(v[Width], i) = b[i]
  BY <1>1, <1>8
<1>10. FromBits(b) = v[Width]
  BY DEF FromBits, v, Turn
<1> QED
  BY <1>9, <1>10 DEF Word, Mod

(* Parity does not see an even number. *)
LEMMA EvenAdded ==
  ASSUME NEW q \in Int, NEW e \in Int
  PROVE  (q + 2 * e) % 2 = q % 2
  OBVIOUS

(* A power of two above another is an even multiple of it. *)
LEMMA SplitPower ==
  ASSUME NEW i \in Nat, NEW k \in Nat, i < k
  PROVE  \E h \in Nat \ {0} : 2 ^ k = 2 ^ i * (2 * h)
<1>1. i + (k - i) = k /\ k - i \in Nat /\ (k - 1 - i) + 1 = k - i /\ k - 1 - i \in Nat
  OBVIOUS
<1>2. 2 ^ k = 2 ^ i * 2 ^ (k - i)
  BY <1>1, PowerSum
<1>3. 2 ^ ((k - 1 - i) + 1) = 2 * 2 ^ (k - 1 - i) /\ 2 ^ (k - 1 - i) \in Nat \ {0}
  BY <1>1, PowerType
<1> QED
  BY <1>1, <1>2, <1>3

(* Two numbers laid end to end. *)
LEMMA SpliceBits ==
  ASSUME NEW k \in Nat, NEW z \in Int, NEW r \in 0 .. 2 ^ k - 1, NEW i \in Nat
  PROVE  BitAt(2 ^ k * z + r, i) = IF i < k THEN BitAt(r, i) ELSE BitAt(z, i - k)
<1> DEFINE p == 2 ^ k
           w == 2 ^ i
<1>1. p \in Nat \ {0} /\ w \in Nat \ {0} /\ r \in 0 .. p - 1
  BY PowerType
<1>2. CASE i < k
  <2> DEFINE q == r \div w
             s == r % w
  <2>1. q \in Int /\ s \in 0 .. w - 1 /\ r = w * q + s
    <3> HIDE DEF w
    <3> QED
      BY <1>1, DivMod
  <2>2. PICK h \in Nat \ {0} : p = w * (2 * h)
    BY <1>2, SplitPower
  <2> HIDE DEF p, w, q, s
  <2>3. p * z + r = w * (q + 2 * (h * z)) + s
    <3> DEFINE e == h * z
    <3>1. e \in Int /\ p * z = w * (2 * e)
      BY <2>2, <1>1
    <3> HIDE DEF e
    <3>2. w * (q + 2 * e) = w * q + w * (2 * e)
      BY <3>1, <2>1, <1>1
    <3> DEFINE a == w * q
               b == w * (2 * e)
    <3>3. a \in Int /\ b \in Int /\ p * z + r = b + (a + s) /\ w * (q + 2 * e) = a + b
      BY <3>1, <3>2, <2>1, <1>1
    <3> HIDE DEF a, b
    <3>4. p * z + r = w * (q + 2 * e) + s
      BY <3>3, <2>1, <1>1
    <3> QED
      BY <3>4 DEF e
  <2>4. q + 2 * (h * z) \in Int /\ h * z \in Int
    BY <2>1
  <2>5. BitAt(p * z + r, i) = (q + 2 * (h * z)) % 2
    <3> DEFINE x == p * z + r
               g == q + 2 * (h * z)
    <3>1. s \in 0 .. 2 ^ i - 1 /\ x = 2 ^ i * g + s
      BY <2>1, <2>3 DEF w
    <3>2. g \in Int
      BY <2>4
    <3> HIDE DEF x, g
    <3>3. BitAt(x, i) = g % 2
      BY <3>1, <3>2, BitIs
    <3> QED
      BY <3>3 DEF x, g
  <2>6. BitAt(r, i) = q % 2
    BY DEF BitAt, q, w
  <2>7. (q + 2 * (h * z)) % 2 = q % 2
    BY <2>1, <2>4, EvenAdded
  <2> QED
    BY <1>2, <2>5, <2>6, <2>7 DEF p
<1>3. CASE ~(i < k)
  <2> DEFINE j == i - k
             v == 2 ^ j
             q == z \div v
             s == z % v
  <2>1. j \in Nat /\ k + j = i
    BY <1>3
  <2>2. v \in Nat \ {0} /\ w = p * v
    BY <2>1, PowerType, PowerSum
  <2>3. q \in Int /\ s \in 0 .. v - 1 /\ z = v * q + s
    <3> HIDE DEF v
    <3> QED
      BY <2>2, DivMod
  <2>4. BitAt(z, j) = q % 2
    BY DEF BitAt
  <2> HIDE DEF p, w, j, v, q, s
  <2>5. p * z + r = w * q + (p * s + r)
    <3>1. p * z = p * (v * q) + p * s
      BY <2>3, <2>2, <1>1
    <3>2. p * (v * q) = (p * v) * q
      BY <2>3, <2>2, <1>1
    <3> DEFINE a == w * q
               b == p * s
    <3>3. a \in Int /\ b \in Int /\ p * z = a + b
      BY <3>1, <3>2, <2>3, <2>2, <1>1
    <3> HIDE DEF a, b
    <3>4. p * z + r = a + (b + r)
      BY <3>3, <1>1
    <3> QED
      BY <3>4 DEF a, b
  <2>6. p * s + r \in 0 .. w - 1
    <3>1. p * s <= p * (v - 1) /\ p * s \in Nat
      BY <2>3, <2>2, <1>1
    <3>2. p * (v - 1) = p * v - p
      BY <2>2, <1>1
    <3> QED
      BY <3>1, <3>2, <2>2, <1>1
  <2>7. BitAt(p * z + r, i) = q % 2
    <3>1. p * s + r \in 0 .. 2 ^ i - 1 /\ p * z + r = 2 ^ i * q + (p * s + r)
      BY <2>5, <2>6 DEF w
    <3> QED
      BY <2>3, <3>1, BitIs
  <2> QED
    BY <1>3, <2>4, <2>7 DEF p, j
<1> QED
  BY <1>2, <1>3

(* And so the bits of halves, remainders, multiples and small numbers. *)
LEMMA ZeroBits == \A i \in Nat : BitAt(0, i) = 0
<1> SUFFICES ASSUME NEW i \in Nat PROVE BitAt(0, i) = 0
  OBVIOUS
<1>1. 0 \in 0 .. 2 ^ i - 1 /\ 2 ^ i * 0 + 0 = 0
  BY PowerType
<1> DEFINE x == 0
           q == 0
<1>2. q \in Int /\ x \in 0 .. 2 ^ i - 1 /\ x = 2 ^ i * q + x
  BY <1>1
<1> HIDE DEF x, q
<1>3. BitAt(x, i) = q % 2
  BY <1>2, BitIs
<1> QED
  BY <1>3 DEF x, q

(* The bits of what is above a place, and of what is below it. *)
LEMMA PartBits ==
  ASSUME NEW x \in Int, NEW k \in Nat, NEW i \in Nat
  PROVE  /\ BitAt(x \div 2 ^ k, i) = BitAt(x, i + k)
         /\ BitAt(x % 2 ^ k, i) = IF i < k THEN BitAt(x, i) ELSE 0
<1> DEFINE p == 2 ^ k
           z == x \div p
           r == x % p
<1>1. p \in Nat \ {0}
  BY PowerType
<1>2. z \in Int /\ r \in 0 .. p - 1 /\ x = p * z + r
  <2> HIDE DEF p
  <2> QED
    BY <1>1, DivMod
<1> HIDE DEF z, r
<1>3. \A j \in Nat : BitAt(x, j) = IF j < k THEN BitAt(r, j) ELSE BitAt(z, j - k)
  BY <1>2, SpliceBits
<1>4. \A j \in Nat : BitAt(r, j) = IF j < k THEN BitAt(r, j) ELSE BitAt(0, j - k)
  <2>1. r = 2 ^ k * 0 + r
    BY <1>1, <1>2
  <2> QED
    BY <1>2, <2>1, SpliceBits
<1>5. i + k \in Nat /\ ~(i + k < k) /\ (i + k) - k = i
  OBVIOUS
<1>6. BitAt(z, i) = BitAt(x, i + k)
  BY <1>3, <1>5
<1>7. BitAt(r, i) = IF i < k THEN BitAt(x, i) ELSE 0
  <2>1. CASE i < k
    BY <2>1, <1>3
  <2>2. CASE ~(i < k)
    <3>1. i - k \in Nat
      BY <2>2
    <3> QED
      BY <2>2, <3>1, <1>4, ZeroBits
  <2> QED
    BY <2>1, <2>2
<1> QED
  BY <1>6, <1>7 DEF p, z, r

(* The bits of a number moved up. *)
LEMMA MultipleBits ==
  ASSUME NEW z \in Int, NEW k \in Nat, NEW i \in Nat
  PROVE  BitAt(2 ^ k * z, i) = IF i < k THEN 0 ELSE BitAt(z, i - k)
<1>1. 0 \in 0 .. 2 ^ k - 1 /\ 2 ^ k * z + 0 = 2 ^ k * z
  BY PowerType
<1>2. BitAt(2 ^ k * z + 0, i) = IF i < k THEN BitAt(0, i) ELSE BitAt(z, i - k)
  BY <1>1, SpliceBits
<1> QED
  BY <1>1, <1>2, ZeroBits

(* A number below a power of two has no bits from there on. *)
LEMMA SmallBits ==
  ASSUME NEW k \in Nat, NEW x \in 0 .. 2 ^ k - 1, NEW i \in Nat, i >= k
  PROVE  BitAt(x, i) = 0
<1>1. 2 ^ k * 0 + x = x /\ ~(i < k) /\ i - k \in Nat
  BY PowerType
<1>2. BitAt(2 ^ k * 0 + x, i) = IF i < k THEN BitAt(x, i) ELSE BitAt(0, i - k)
  BY SpliceBits
<1> QED
  BY <1>1, <1>2, ZeroBits

(* The mask of the lowest k bits. *)
LEMMA MaskBits ==
  ASSUME NEW k \in Nat, NEW i \in Nat
  PROVE  BitAt(2 ^ k - 1, i) = IF i < k THEN 1 ELSE 0
<1>1. CASE i < k
  <2>1. PICK h \in Nat \ {0} : 2 ^ k = 2 ^ i * (2 * h)
    BY <1>1, SplitPower
  <2> DEFINE w == 2 ^ i
  <2>2. w \in Nat \ {0} /\ 2 ^ k = w * (2 * h)
    BY <2>1, PowerType
  <2> HIDE DEF w
  <2>3. w * (2 * h) - 1 = w * (2 * h - 1) + (w - 1)
    <3>1. w * (2 * h - 1) = w * (2 * h) - w
      BY <2>2
    <3> DEFINE a == w * (2 * h)
    <3>2. a \in Int /\ w * (2 * h - 1) = a - w
      BY <2>2, <3>1
    <3> HIDE DEF a
    <3>3. a - 1 = w * (2 * h - 1) + (w - 1)
      BY <3>2, <2>2
    <3> QED
      BY <3>3 DEF a
  <2>4. 2 * h - 1 \in Int /\ w - 1 \in 0 .. 2 ^ i - 1 /\ 2 ^ k - 1 = 2 ^ i * (2 * h - 1) + (w - 1)
    BY <2>2, <2>3 DEF w
  <2>5. BitAt(2 ^ k - 1, i) = (2 * h - 1) % 2
    <3> DEFINE x == 2 ^ k - 1
               g == 2 * h - 1
               r == w - 1
    <3>1. g \in Int /\ r \in 0 .. 2 ^ i - 1 /\ x = 2 ^ i * g + r
      BY <2>4
    <3> HIDE DEF x, g, r
    <3>2. BitAt(x, i) = g % 2
      BY <3>1, BitIs
    <3> QED
      BY <3>2 DEF x, g
  <2>6. (2 * h - 1) % 2 = 1
    OBVIOUS
  <2> QED
    BY <1>1, <2>5, <2>6
<1>2. CASE ~(i < k)
  <2>1. 2 ^ k - 1 \in 0 .. 2 ^ k - 1 /\ i >= k
    BY <1>2, PowerType
  <2>2. BitAt(2 ^ k - 1, i) = 0
    BY <2>1, SmallBits
  <2> QED
    BY <1>2, <2>2
<1> QED
  BY <1>1, <1>2

--------------------------------------------------------------------------------
(* Words and the bitwise operators. *)

(* A word is its bits. *)
LEMMA WordsEqual ==
  ASSUME NEW x \in Word, NEW y \in Word,
         \A i \in 0 .. Width - 1 : BitAt(x, i) = BitAt(y, i)
  PROVE  x = y
<1>1. 0 \in Word
  BY WidthFacts DEF Word
<1>2. ASSUME NEW i \in 0 .. Width - 1
      PROVE  BitAt(x, i) + BitAt(0, i) = BitAt(y, i)
  <2>1. BitAt(x, i) \in {0, 1} /\ BitAt(0, i) = 0 /\ BitAt(y, i) = BitAt(x, i)
    BY BitType, ZeroBits, WidthFacts DEF Word
  <2> QED
    BY <2>1
<1> DEFINE o == 0
<1>3. o \in Word /\ \A i \in 0 .. Width - 1 : BitAt(x, i) + BitAt(o, i) = BitAt(y, i)
  BY <1>1, <1>2
<1> HIDE DEF o
<1>4. x + o = y
  BY <1>3, WordsAdd
<1> QED
  BY <1>4, WidthFacts DEF o, Word

(* A word has no bits past its width. *)
LEMMA BitOfWord ==
  ASSUME NEW x \in Word, NEW i \in Nat
  PROVE  BitAt(x, i) \in {0, 1} /\ x \in Nat /\ (i >= Width => BitAt(x, i) = 0)
<1>1. x \in Nat /\ x \in 0 .. 2 ^ Width - 1 /\ Width \in Nat
  BY WidthFacts DEF Word, Mod
<1>2. BitAt(x, i) \in {0, 1}
  BY <1>1, BitType
<1>3. ASSUME i >= Width PROVE BitAt(x, i) = 0
  BY <1>1, <1>3, SmallBits
<1> QED
  BY <1>1, <1>2, <1>3

(* The largest word has every bit set. *)
LEMMA AllOnes ==
  /\ Mod - 1 \in Word
  /\ \A i \in 0 .. Width - 1 : BitAt(Mod - 1, i) = 1
<1>1. Mod - 1 \in Word
  BY WidthFacts DEF Word
<1>2. ASSUME NEW i \in 0 .. Width - 1
      PROVE  BitAt(Mod - 1, i) = 1
  <2>1. i \in Nat /\ Width \in Nat /\ i < Width
    BY WidthFacts
  <2>2. BitAt(2 ^ Width - 1, i) = 1
    BY <2>1, MaskBits
  <2> QED
    BY <2>2 DEF Mod
<1> QED
  BY <1>1, <1>2

(* Not turns every bit round. *)
LEMMA NotBits ==
  ASSUME NEW x \in Word
  PROVE  Not(x) \in Word /\ \A i \in 0 .. Width - 1 : BitAt(Not(x), i) = 1 - BitAt(x, i)
<1> DEFINE b == [i \in 0 .. Width - 1 |-> 1 - BitAt(x, i)]
           y == FromBits(b)
<1>1. \A i \in 0 .. Width - 1 : i \in Nat
  BY WidthFacts
<1>2. \A i \in 0 .. Width - 1 : 1 - BitAt(x, i) \in {0, 1}
  <2> TAKE i \in 0 .. Width - 1
  <2>1. BitAt(x, i) \in {0, 1}
    BY <1>1, BitOfWord
  <2> QED
    BY <2>1
<1>3. b \in [0 .. Width - 1 -> {0, 1}]
  BY <1>2
<1>4. \A i \in 0 .. Width - 1 : b[i] = 1 - BitAt(x, i)
  OBVIOUS
<1> HIDE DEF b
<1>5. y \in Word /\ \A i \in 0 .. Width - 1 : BitAt(y, i) = b[i]
  BY <1>3, FromBitsIs
<1> HIDE DEF y
<1> DEFINE z == Mod - 1
<1>6. z \in Word /\ \A i \in 0 .. Width - 1 : BitAt(z, i) = 1
  BY AllOnes
<1> HIDE DEF z
<1>7. ASSUME NEW i \in 0 .. Width - 1
      PROVE  BitAt(x, i) + BitAt(y, i) = BitAt(z, i)
  <2>1. BitAt(x, i) \in {0, 1} /\ BitAt(y, i) = 1 - BitAt(x, i) /\ BitAt(z, i) = 1
    BY <1>1, <1>4, <1>5, <1>6, BitOfWord
  <2> QED
    BY <2>1
<1>8. x + y = z
  BY <1>5, <1>6, <1>7, WordsAdd
<1>9. y = Not(x)
  BY <1>5, <1>8, WidthFacts DEF Not, z, Word
<1> QED
  BY <1>4, <1>5, <1>9

(* And, bit by bit. *)
LEMMA AndBits ==
  ASSUME NEW x \in Word, NEW y \in Word
  PROVE  /\ And(x, y) \in Word
         /\ \A i \in 0 .. Width - 1 : BitAt(And(x, y), i) = BitAt(x, i) * BitAt(y, i)
<1> DEFINE b == [i \in 0 .. Width - 1 |-> BitAt(x, i) * BitAt(y, i)]
<1>1. \A i \in 0 .. Width - 1 : i \in Nat
  BY WidthFacts
<1>2. \A i \in 0 .. Width - 1 : BitAt(x, i) * BitAt(y, i) \in {0, 1}
  <2> TAKE i \in 0 .. Width - 1
  <2>1. BitAt(x, i) \in {0, 1} /\ BitAt(y, i) \in {0, 1}
    BY <1>1, BitOfWord
  <2> QED
    BY <2>1
<1>3. b \in [0 .. Width - 1 -> {0, 1}]
  BY <1>2
<1>4. And(x, y) = FromBits(b)
  <2>1. << x, y >> \in Word \X Word /\ << x, y >>[1] = x /\ << x, y >>[2] = y
    OBVIOUS
  <2> QED
    BY <2>1 DEF And, AndTable
<1>5. \A i \in 0 .. Width - 1 : b[i] = BitAt(x, i) * BitAt(y, i)
  OBVIOUS
<1> HIDE DEF b
<1>6. FromBits(b) \in Word /\ \A i \in 0 .. Width - 1 : BitAt(FromBits(b), i) = b[i]
  BY <1>3, FromBitsIs
<1> QED
  BY <1>4, <1>5, <1>6

(* A word from the bits it is to have. *)
LEMMA WordOf ==
  ASSUME NEW b \in [0 .. Width - 1 -> {0, 1}]
  PROVE  \E x \in Word : \A i \in 0 .. Width - 1 : BitAt(x, i) = b[i]
  BY FromBitsIs

(* What x has over y, and the words built from it. *)
LEMMA OrXorType ==
  ASSUME NEW x \in Word, NEW y \in Word
  PROVE  Or(x, y) \in Word /\ Xor(x, y) \in Word
<1> DEFINE a == And(x, y)
           bx(i) == BitAt(x, i)
           by(i) == BitAt(y, i)
           p == [i \in 0 .. Width - 1 |-> bx(i) - bx(i) * by(i)]
           q == [i \in 0 .. Width - 1 |-> by(i) - bx(i) * by(i)]
           o == [i \in 0 .. Width - 1 |-> bx(i) + by(i) - bx(i) * by(i)]
           e == [i \in 0 .. Width - 1 |-> bx(i) + by(i) - 2 * (bx(i) * by(i))]
           BITS == [0 .. Width - 1 -> {0, 1}]
<1>1. \A i \in 0 .. Width - 1 : bx(i) \in {0, 1} /\ by(i) \in {0, 1}
  BY BitOfWord, WidthFacts
<1>2. p \in BITS /\ q \in BITS /\ o \in BITS /\ e \in BITS
  <2> SUFFICES ASSUME NEW i \in 0 .. Width - 1
               PROVE  /\ bx(i) - bx(i) * by(i) \in {0, 1} /\ by(i) - bx(i) * by(i) \in {0, 1}
                      /\ bx(i) + by(i) - bx(i) * by(i) \in {0, 1}
                      /\ bx(i) + by(i) - 2 * (bx(i) * by(i)) \in {0, 1}
    OBVIOUS
  <2> HIDE DEF bx, by
  <2>1. bx(i) \in {0, 1} /\ by(i) \in {0, 1}
    BY <1>1
  <2>2. CASE bx(i) = 0
    BY <2>1, <2>2
  <2>3. CASE bx(i) = 1
    BY <2>1, <2>3
  <2> QED
    BY <2>1, <2>2, <2>3
<1>3. PICK P \in Word : \A i \in 0 .. Width - 1 : BitAt(P, i) = p[i]
  BY <1>2, WordOf
<1>4. PICK Q \in Word : \A i \in 0 .. Width - 1 : BitAt(Q, i) = q[i]
  BY <1>2, WordOf
<1>5. PICK O \in Word : \A i \in 0 .. Width - 1 : BitAt(O, i) = o[i]
  BY <1>2, WordOf
<1>6. PICK E \in Word : \A i \in 0 .. Width - 1 : BitAt(E, i) = e[i]
  BY <1>2, WordOf
<1>7. a \in Word /\ \A i \in 0 .. Width - 1 : BitAt(a, i) = bx(i) * by(i)
  BY AndBits
<1>8. \A i \in 0 .. Width - 1 :
        /\ BitAt(P, i) = bx(i) - bx(i) * by(i) /\ BitAt(Q, i) = by(i) - bx(i) * by(i)
        /\ BitAt(O, i) = bx(i) + by(i) - bx(i) * by(i)
        /\ BitAt(E, i) = bx(i) + by(i) - 2 * (bx(i) * by(i))
  BY <1>3, <1>4, <1>5, <1>6
<1> HIDE DEF a, p, q, o, e
<1>9. ASSUME NEW i \in 0 .. Width - 1
      PROVE  /\ BitAt(P, i) + BitAt(a, i) = BitAt(x, i)
             /\ BitAt(Q, i) + BitAt(a, i) = BitAt(y, i)
             /\ BitAt(P, i) + BitAt(y, i) = BitAt(O, i)
             /\ BitAt(P, i) + BitAt(Q, i) = BitAt(E, i)
  <2> DEFINE c == bx(i)
             d == by(i)
             f == c * d
  <2>1. /\ BitAt(P, i) = c - f /\ BitAt(Q, i) = d - f /\ BitAt(O, i) = c + d - f
        /\ BitAt(E, i) = c + d - 2 * f /\ BitAt(a, i) = f /\ BitAt(x, i) = c /\ BitAt(y, i) = d
        /\ c \in {0, 1} /\ d \in {0, 1}
    BY <1>1, <1>7, <1>8
  <2>2. f \in Int
    BY <2>1
  <2> HIDE DEF c, d, f
  <2> QED
    BY <2>1, <2>2
<1>10. P + a = x
  BY <1>7, <1>9, WordsAdd
<1>11. Q + a = y
  BY <1>7, <1>9, WordsAdd
<1>12. P + y = O
  BY <1>9, WordsAdd
<1>13. P + Q = E
  BY <1>9, WordsAdd
<1>14. P \in Int /\ Q \in Int /\ a \in Int /\ x \in Int /\ y \in Int
  BY <1>7, BitOfWord, WidthFacts DEF Word
<1>15. x + y - a = O /\ x + y - 2 * a = E
  BY <1>10, <1>11, <1>12, <1>13, <1>14
<1> QED
  BY <1>5, <1>6, <1>15 DEF Or, Xor, a

(* Where no bit is in both, Or is the sum. *)
LEMMA OrApart ==
  ASSUME NEW x \in Word, NEW y \in Word,
         \A i \in 0 .. Width - 1 : BitAt(x, i) = 0 \/ BitAt(y, i) = 0
  PROVE  Or(x, y) = x + y
<1> DEFINE a == And(x, y)
           o == 0
<1>1. a \in Word /\ \A i \in 0 .. Width - 1 : BitAt(a, i) = BitAt(x, i) * BitAt(y, i)
  BY AndBits
<1>2. o \in Word /\ \A i \in 0 .. Width - 1 : BitAt(o, i) = 0
  BY ZeroBits, WidthFacts DEF Word
<1> HIDE DEF a, o
<1>3. ASSUME NEW i \in 0 .. Width - 1
      PROVE  BitAt(a, i) = BitAt(o, i)
  <2>1. BitAt(x, i) \in {0, 1} /\ BitAt(y, i) \in {0, 1}
    BY BitOfWord, WidthFacts
  <2>2. BitAt(x, i) = 0 \/ BitAt(y, i) = 0
    OBVIOUS
  <2>3. BitAt(x, i) * BitAt(y, i) = 0
    BY <2>1, <2>2
  <2> QED
    BY <1>1, <1>2, <2>3
<1>4. a = o
  BY <1>1, <1>2, <1>3, WordsEqual
<1>5. x \in Int /\ y \in Int
  BY WidthFacts DEF Word
<1> QED
  BY <1>4, <1>5 DEF Or, a, o

(* The lowest bits of a word. *)
LEMMA AndMask ==
  ASSUME NEW x \in Word, NEW k \in 0 .. Width
  PROVE  /\ 2 ^ k - 1 \in Word /\ x % 2 ^ k \in Word
         /\ And(x, 2 ^ k - 1) = x % 2 ^ k
<1> DEFINE p == 2 ^ k
           m == p - 1
           z == x % p
<1>1. k \in Nat /\ Width \in Nat /\ k <= Width
  BY WidthFacts
<1>2. p \in Nat \ {0} /\ p <= Mod /\ Mod \in Nat
  BY <1>1, PowerGrows, PowerType, WidthFacts DEF Mod
<1>3. x \in Nat /\ x \in Int
  BY BitOfWord, <1>1
<1>4. m \in Word /\ z \in Word
  <2>1. z \in 0 .. p - 1
    <3> HIDE DEF p
    <3> QED
      BY <1>2, <1>3
  <2> HIDE DEF z, p
  <2> QED
    BY <1>2, <2>1 DEF Word
<1> DEFINE a == And(x, m)
<1> HIDE DEF a
<1>5. \A i \in Nat : BitAt(m, i) = IF i < k THEN 1 ELSE 0
  BY <1>1, MaskBits
<1>6. \A i \in Nat : BitAt(z, i) = IF i < k THEN BitAt(x, i) ELSE 0
  BY <1>1, <1>3, PartBits
<1> HIDE DEF m, z
<1>7. a \in Word /\ \A i \in 0 .. Width - 1 : BitAt(a, i) = BitAt(x, i) * BitAt(m, i)
  BY <1>4, AndBits DEF a
<1>8. ASSUME NEW i \in 0 .. Width - 1
      PROVE  BitAt(a, i) = BitAt(z, i)
  <2>1. i \in Nat /\ BitAt(x, i) \in {0, 1}
    BY <1>1, BitOfWord
  <2>2. BitAt(a, i) = BitAt(x, i) * BitAt(m, i)
    BY <1>7
  <2>3. CASE i < k
    BY <2>1, <2>2, <2>3, <1>5, <1>6
  <2>4. CASE ~(i < k)
    BY <2>1, <2>2, <2>4, <1>5, <1>6
  <2> QED
    BY <2>3, <2>4
<1>9. a = z
  BY <1>4, <1>7, <1>8, WordsEqual
<1> QED
  BY <1>4, <1>9 DEF a, m, z, p

--------------------------------------------------------------------------------
(* Shifts and wrapping, in numbers and in words. *)

(* Modulo the word. *)
LEMMA WrapType ==
  ASSUME NEW x \in Int
  PROVE  Wrap(x) \in Word
<1> DEFINE M == Mod
<1>1. M \in Nat \ {0}
  BY WidthFacts
<1> HIDE DEF M
<1>2. x % M \in 0 .. M - 1
  BY <1>1
<1> QED
  BY <1>2 DEF Wrap, Word, M

(* What a number wraps to, from any way to write it. *)
LEMMA WrapIs ==
  ASSUME NEW x, NEW q \in Int, NEW r \in Word, x = Mod * q + r
  PROVE  Wrap(x) = r
<1> DEFINE M == Mod
<1>1. M \in Nat \ {0} /\ x = M * q + r /\ r \in 0 .. M - 1
  BY WidthFacts DEF Word
<1> HIDE DEF M
<1>2. x % M = r
  BY <1>1, DivModIs
<1> QED
  BY <1>2 DEF Wrap, M

(* A word does not wrap. *)
LEMMA WrapWord ==
  ASSUME NEW x \in Word
  PROVE  Wrap(x) = x /\ x \in Nat /\ x < Mod
<1>1. x \in Nat /\ x < Mod /\ Mod \in Nat \ {0}
  BY WidthFacts DEF Word
<1> QED
  BY <1>1, WordMod DEF Wrap

(* Dividing a word leaves a word. *)
LEMMA DivType ==
  ASSUME NEW x \in Word, NEW p \in Nat \ {0}
  PROVE  x \div p \in Word
<1> DEFINE q == x \div p
           r == x % p
<1>1. x \in Nat /\ x < Mod
  BY WrapWord
<1>2. q \in Int /\ r \in 0 .. p - 1 /\ x = p * q + r
  BY <1>1, DivMod
<1> HIDE DEF q, r
<1>3. q >= 0
  <2>1. SUFFICES ASSUME q <= -1 PROVE FALSE
    BY <1>2
  <2>2. p * q <= -p
    BY <1>2, <2>1
  <2> QED
    BY <1>1, <1>2, <2>2
<1>4. q <= x
  <2>1. q <= p * q
    BY <1>2, <1>3
  <2>2. p * q \in Int
    BY <1>2
  <2> QED
    BY <1>1, <1>2, <2>1, <2>2
<1>5. q \in Word
  BY <1>1, <1>2, <1>3, <1>4, WidthFacts DEF Word
<1> QED
  BY <1>5 DEF q

(* vita_lsl is the architecture's LSL, also by the width and more.         *)
LEMMA ShiftLeft ==
  ASSUME NEW v \in Word, NEW n \in Nat, NEW c
  PROVE  Shift("lsl", v, n, c).val = vita_lsl(v, n) /\ vita_lsl(v, n) \in Word
<1> DEFINE p == 2 ^ n
<1>1. p \in Nat \ {0} /\ v \in Nat /\ v < Mod /\ Width \in Nat /\ Width > 0
  BY PowerType, WrapWord, WidthFacts
<1>2. v * p \in Int
  <2> HIDE DEF p
  <2> QED
    BY <1>1
<1>3. vita_lsl(v, n) \in Word
  <2>1. Wrap(v * p) \in Word
    BY <1>2, WrapType
  <2> QED
    BY <2>1, WidthFacts DEF vita_lsl, Word
<1>4. CASE n = 0
  <2>1. p = 1 /\ Wrap(v) = v
    BY <1>4, PowerZero, WrapWord
  <2>2. v * p = v
    BY <1>1, <2>1
  <2>3. vita_lsl(v, n) = v
    BY <1>1, <1>4, <2>1, <2>2 DEF vita_lsl
  <2> QED
    BY <1>3, <1>4, <2>3 DEF Shift
<1>5. CASE n # 0 /\ n < Width
  BY <1>1, <1>3, <1>5 DEF vita_lsl, Shift
<1>6. CASE n >= Width
  <2>1. p = Mod * 2 ^ (n - Width) /\ 2 ^ (n - Width) \in Nat
    BY <1>1, <1>6, PowerGrows, PowerType DEF Mod
  <2> DEFINE q == v * 2 ^ (n - Width)
             x == v * p
             o == 0
  <2>2. q \in Int
    BY <1>1, <2>1
  <2>3. x = Mod * q + o
    <3> DEFINE h == 2 ^ (n - Width)
               M == Mod
    <3>1. h \in Nat /\ M \in Nat /\ p = M * h
      BY <2>1, WidthFacts
    <3> HIDE DEF h, M, p
    <3>2. v * p = M * (v * h) + 0
      BY <1>1, <3>1
    <3> QED
      BY <3>2 DEF h, M
  <2>4. o \in Word
    BY WidthFacts DEF Word
  <2> HIDE DEF q, x, o
  <2>5. Wrap(x) = o
    BY <2>2, <2>3, <2>4, WrapIs
  <2> QED
    BY <1>1, <1>3, <1>6, <2>5 DEF x, o, vita_lsl, Shift
<1> QED
  BY <1>1, <1>4, <1>5, <1>6

(* vita_lsr is the architecture's LSR, also by the width and more.         *)
LEMMA ShiftRight ==
  ASSUME NEW v \in Word, NEW n \in Nat, NEW c
  PROVE  Shift("lsr", v, n, c).val = vita_lsr(v, n) /\ vita_lsr(v, n) \in Word
<1> DEFINE p == 2 ^ n
           q == v \div p
<1>1. p \in Nat \ {0} /\ v \in Nat /\ v < Mod /\ Width \in Nat /\ Width > 0
  BY PowerType, WrapWord, WidthFacts
<1>2. q \in Word
  <2> HIDE DEF p
  <2> QED
    BY <1>1, DivType
<1>3. vita_lsr(v, n) \in Word
  BY <1>2, WidthFacts DEF vita_lsr, Word
<1>4. CASE n = 0
  <2>1. p = 1
    BY <1>4, PowerZero
  <2>2. q = v
    BY <1>1, <2>1
  <2>3. vita_lsr(v, n) = v
    BY <1>1, <1>4, <2>2 DEF vita_lsr
  <2> QED
    BY <1>3, <1>4, <2>3 DEF Shift
<1>5. CASE n # 0 /\ n < Width
  BY <1>1, <1>3, <1>5 DEF vita_lsr, Shift
<1>6. CASE n >= Width
  <2>1. v < p
    BY <1>1, <1>6, PowerGrows DEF Mod
  <2>2. q = 0
    BY <1>1, <2>1, WordMod
  <2> QED
    BY <1>1, <1>3, <1>6, <2>2 DEF vita_lsr, Shift
<1> QED
  BY <1>1, <1>4, <1>5, <1>6

(* The parts of a word on either side of a place inside it. *)
LEMMA WordParts ==
  ASSUME NEW v \in Word, NEW n \in 1 .. Width - 1
  PROVE  /\ Mod = 2 ^ n * 2 ^ (Width - n) /\ 2 ^ n \in Nat \ {0} /\ 2 ^ (Width - n) \in Nat \ {0}
         /\ v \div 2 ^ n \in 0 .. 2 ^ (Width - n) - 1 /\ v \div 2 ^ n \in Word
         /\ v = 2 ^ n * (v \div 2 ^ n) + (v % 2 ^ n) /\ v % 2 ^ n \in 0 .. 2 ^ n - 1
         /\ \A i \in Nat : i >= Width - n => BitAt(v \div 2 ^ n, i) = 0
<1> DEFINE p == 2 ^ n
           t == 2 ^ (Width - n)
           q == v \div p
           r == v % p
<1>1. n \in Nat /\ Width - n \in Nat /\ n + (Width - n) = Width /\ Width \in Nat
  BY WidthFacts
<1>2. p \in Nat \ {0} /\ t \in Nat \ {0} /\ Mod = p * t
  BY <1>1, PowerType, PowerSum DEF Mod
<1>3. v \in Nat /\ v < Mod
  BY WrapWord
<1>4. q \in Word
  <2> HIDE DEF p
  <2> QED
    BY <1>2, DivType
<1>5. q \in Int /\ r \in 0 .. p - 1 /\ v = p * q + r
  <2>1. v \in Int
    BY <1>3
  <2> HIDE DEF p
  <2> QED
    BY <1>2, <2>1, DivMod, Zenon
<1>6. q \in Nat
  BY <1>4, WrapWord
<1>7. q < t
  <2> HIDE DEF p, q, r, t
  <2>1. SUFFICES ASSUME q >= t PROVE FALSE
    BY <1>2, <1>6
  <2>2. p * q >= p * t
    BY <1>2, <1>6, <2>1
  <2> QED
    BY <1>2, <1>3, <1>5, <1>6, <2>2
<1>8. ASSUME NEW i \in Nat, i >= Width - n
      PROVE  BitAt(q, i) = 0
  <2>1. BitAt(q, i) = BitAt(v, i + n)
    BY <1>1, <1>3, PartBits
  <2>2. i + n \in Nat /\ i + n >= Width
    BY <1>1, <1>8
  <2> QED
    BY <2>1, <2>2, BitOfWord
<1>9. q \in 0 .. t - 1
  BY <1>2, <1>6, <1>7
<1> QED
  BY <1>2, <1>4, <1>5, <1>8, <1>9

(* vita_asr is the architecture's ASR: what it shifts in is the sign,      *)
(* whether it shifts by the width or by less.                              *)
LEMMA ShiftSigned ==
  ASSUME NEW v \in Word, NEW n \in Nat, NEW c
  PROVE  Shift("asr", v, n, c).val = vita_asr(v, n) /\ vita_asr(v, n) \in Word
<1> DEFINE p == 2 ^ n
           q == v \div p
           z == Signed(v)
<1>1. p \in Nat \ {0} /\ v \in Nat /\ v < Mod /\ Width \in Nat /\ Width > 0
  BY PowerType, WrapWord, WidthFacts
<1>2. z = (IF v >= Half THEN v - Mod ELSE v) /\ z \in Int /\ (Sign(v) = 1 <=> v >= Half)
      /\ Half \in Nat /\ Mod = 2 * Half /\ Half > 0
  BY <1>1, WidthFacts DEF Signed, Sign
<1> HIDE DEF z
<1>3. Mod - 1 \in Word /\ 0 \in Word
  BY WidthFacts DEF Word
<1>4. CASE n = 0
  <2>1. vita_asr(v, n) = v
    BY <1>1, <1>4 DEF vita_asr
  <2> QED
    BY <1>4, <2>1 DEF Shift
<1>5. CASE n >= Width
  <2>1. Mod <= p
    BY <1>1, <1>5, PowerGrows DEF Mod
  <2>2. vita_asr(v, n) = IF v >= Half THEN Mod - 1 ELSE 0
    BY <1>1, <1>2, <1>5 DEF vita_asr
  <2>3. Shift("asr", v, n, c).val = Wrap(z \div p)
    BY <1>1, <1>5 DEF Shift, z
  <2>4. CASE v >= Half
    <3> DEFINE s == p + z
               m == -1
    <3>1. z = p * m + s /\ s \in 0 .. p - 1 /\ m \in Int
      <4> HIDE DEF p
      <4> QED
        BY <1>1, <1>2, <2>1, <2>4
    <3> HIDE DEF p, s, m
    <3>2. z \div p = m
      BY <1>1, <3>1, DivModIs
    <3> DEFINE k == Mod - 1
    <3>3. m = Mod * m + k /\ k \in Word
      BY <1>3, WidthFacts DEF m
    <3> HIDE DEF k
    <3>4. Wrap(m) = k
      BY <3>1, <3>3, WrapIs
    <3> QED
      BY <1>3, <2>2, <2>3, <2>4, <3>2, <3>4 DEF k
  <2>5. CASE ~(v >= Half)
    <3>1. z = v /\ v < p
      BY <1>1, <1>2, <2>1, <2>5
    <3>2. v \div p = 0
      <4> HIDE DEF p
      <4> QED
        BY <1>1, <3>1, WordMod
    <3>3. Wrap(0) = 0
      BY <1>3, WrapWord
    <3> QED
      BY <1>3, <2>2, <2>3, <2>5, <3>1, <3>2, <3>3
  <2> QED
    BY <2>4, <2>5
<1>6. CASE n # 0 /\ n < Width
  <2> DEFINE t == 2 ^ (Width - n)
             r == v % p
             m == (Mod - 1) \div p
             N == Not(m)
  <2>1. n \in 1 .. Width - 1 /\ Width - n \in Nat
    BY <1>1, <1>6
  <2>2. /\ Mod = p * t /\ t \in Nat \ {0} /\ q \in 0 .. t - 1 /\ q \in Word
        /\ v = p * q + r /\ r \in 0 .. p - 1
        /\ \A i \in Nat : i >= Width - n => BitAt(q, i) = 0
    BY <2>1, WordParts
  <2>3. Shift("asr", v, n, c).val = Wrap(z \div p)
    BY <1>1, <1>6 DEF Shift, z
  <2>4. vita_asr(v, n) = Or(q, IF v >= Half THEN N ELSE 0)
    BY <1>1, <1>2, <1>6 DEF vita_asr
  <2>5. m = t - 1
    <3> DEFINE M == Mod - 1
               g == t - 1
               s == p - 1
    <3>1. g \in Int /\ s \in 0 .. p - 1 /\ M = p * g + s
      <4>1. p * g = p * t - p
        BY <1>1, <2>2
      <4> HIDE DEF p, t
      <4> QED
        BY <1>1, <2>2, <4>1, WidthFacts
    <3> HIDE DEF M, g, s, p
    <3>2. M \div p = g
      BY <1>1, <3>1, DivModIs
    <3> QED
      BY <3>2 DEF M, g
  <2>6. t <= Mod
    <3>1. Width - n <= Width
      BY <1>1
    <3> QED
      BY <1>1, <2>1, <3>1, PowerGrows DEF Mod
  <2>7. m \in Word /\ N = Mod - t
    <3> HIDE DEF m, t
    <3> QED
      BY <2>2, <2>5, <2>6, WidthFacts DEF Not, Word
  <2>8. \A i \in Nat : BitAt(t - 1, i) = IF i < Width - n THEN 1 ELSE 0
    BY <2>1, MaskBits
  <2>9. N \in Word /\ \A i \in 0 .. Width - 1 : BitAt(N, i) = 1 - BitAt(m, i)
    <3> HIDE DEF m
    <3> QED
      BY <2>7, NotBits
  <2>10. CASE v >= Half
    <3> HIDE DEF p, q, t, r, m, N
    <3>1. ASSUME NEW i \in 0 .. Width - 1
          PROVE  BitAt(q, i) = 0 \/ BitAt(N, i) = 0
      <4>1. i \in Nat /\ BitAt(N, i) = 1 - BitAt(m, i)
        BY <1>1, <2>9
      <4>2. CASE i < Width - n
        <5>1. BitAt(m, i) = 1
          BY <2>5, <2>8, <4>1, <4>2
        <5> QED
          BY <4>1, <5>1
      <4>3. CASE ~(i < Width - n)
        BY <2>2, <4>1, <4>3, <1>1
      <4> QED
        BY <4>2, <4>3
    <3>2. Or(q, N) = q + N /\ Or(q, N) \in Word
      BY <2>2, <2>9, <3>1, OrApart, OrXorType
    <3> DEFINE g == q - t
               e == q + N
    <3>3. z \div p = g
      <4>1. z = p * g + r /\ g \in Int
        <5>1. p * g = p * q - p * t
          BY <1>1, <2>2
        <5> DEFINE a == p * q
                   b == p * t
        <5>2. a \in Int /\ b \in Int /\ z = a + r - b /\ p * g = a - b
          BY <1>1, <1>2, <2>2, <2>10, <5>1
        <5> HIDE DEF a, b, g
        <5>3. z = p * g + r
          BY <2>2, <5>2
        <5> QED
          BY <2>2, <5>3 DEF g
      <4> HIDE DEF g
      <4> QED
        BY <1>1, <2>2, <4>1, DivModIs
    <3>4. Wrap(g) = e
      <4> DEFINE u == -1
      <4>1. g = Mod * u + e /\ u \in Int /\ e \in Word
        BY <2>2, <2>7, <3>2, WidthFacts
      <4> HIDE DEF g, e, u
      <4> QED
        BY <4>1, WrapIs
    <3> QED
      BY <2>3, <2>4, <2>10, <3>2, <3>3, <3>4
  <2>11. CASE ~(v >= Half)
    <3> DEFINE o == 0
    <3>1. o \in Word /\ \A i \in 0 .. Width - 1 : BitAt(o, i) = 0
      BY <1>1, <1>3, ZeroBits
    <3> HIDE DEF o, q
    <3>2. Or(q, o) = q + o
      BY <2>2, <3>1, OrApart
    <3>3. Or(q, o) = q
      BY <2>2, <3>2 DEF o
    <3>4. Wrap(q) = q
      BY <2>2, WrapWord
    <3> QED
      BY <1>2, <2>2, <2>3, <2>4, <2>11, <3>3, <3>4 DEF o, q
  <2> QED
    BY <2>10, <2>11
<1> QED
  BY <1>1, <1>4, <1>5, <1>6

(* vita_ror is the architecture's ROR, for counts past the width too.      *)
LEMMA ShiftRound ==
  ASSUME NEW v \in Word, NEW n \in Nat, NEW c
  PROVE  Shift("ror", v, n, c).val = vita_ror(v, n) /\ vita_ror(v, n) \in Word
<1> DEFINE k == n % Width
           q == v \div 2 ^ k
           t == 2 ^ (Width - k)
           y == Wrap(v * t)
<1>1. v \in Nat /\ v < Mod /\ Width \in Nat /\ Width > 0 /\ k \in 0 .. Width - 1
  BY WrapWord, WidthFacts
<1>2. n # 0 => Shift("ror", v, n, c).val = q + y
  BY DEF Shift
<1>3. n = 0 => Shift("ror", v, n, c).val = v
  BY DEF Shift
<1>4. CASE k = 0
  <2>1. vita_ror(v, n) = v
    BY <1>4 DEF vita_ror
  <2>2. q = v
    <3>1. 2 ^ k = 1
      BY <1>4, PowerZero
    <3> DEFINE p == 2 ^ k
    <3>2. p = 1
      BY <3>1
    <3> HIDE DEF p, k
    <3>3. v \div p = v
      BY <1>1, <3>2
    <3> QED
      BY <3>3 DEF p
  <2>3. y = 0
    <3> DEFINE x == v * t
               o == 0
    <3>1. x = Mod * v + o /\ v \in Int /\ o \in Word
      <4>1. t = Mod
        BY <1>1, <1>4 DEF Mod
      <4> QED
        BY <1>1, <4>1, WidthFacts DEF Word
    <3> HIDE DEF x, o
    <3>2. Wrap(x) = o
      BY <3>1, WrapIs
    <3> QED
      BY <3>2 DEF x, o
  <2> QED
    BY <1>1, <1>2, <1>3, <2>1, <2>2, <2>3
<1>5. CASE k # 0
  <2>1. k \in 1 .. Width - 1 /\ n # 0 /\ k \in Nat /\ Width - k \in Nat
    <3>1. n # 0
      <4>1. SUFFICES ASSUME n = 0 PROVE FALSE
        OBVIOUS
      <4> QED
        BY <1>1, <1>5, <4>1
    <3> QED
      BY <1>1, <1>5, <3>1
  <2> HIDE DEF k
  <2>2. q \in Word /\ \A i \in Nat : i >= Width - k => BitAt(q, i) = 0
    BY <2>1, WordParts
  <2>3. t \in Nat
    BY <2>1, PowerType
  <2>4. v * t \in Int /\ t * v = v * t
    <3> HIDE DEF t
    <3> QED
      BY <1>1, <2>3
  <2>5. y \in Word
    BY <2>4, WrapType
  <2>6. ASSUME NEW i \in Nat, i < Width - k
        PROVE  BitAt(y, i) = 0
    <3> DEFINE x == v * t
    <3>1. BitAt(x % 2 ^ Width, i) = BitAt(x, i)
      <4>1. x \in Int /\ i < Width
        BY <1>1, <2>1, <2>4, <2>6
      <4> HIDE DEF x
      <4> QED
        BY <1>1, <4>1, PartBits
    <3>2. BitAt(2 ^ (Width - k) * v, i) = 0
      BY <1>1, <2>1, <2>6, MultipleBits
    <3>3. x = 2 ^ (Width - k) * v
      BY <2>4
    <3> QED
      BY <3>1, <3>2, <3>3 DEF Wrap, Mod
  <2>7. ASSUME NEW i \in 0 .. Width - 1
        PROVE  BitAt(q, i) = 0 \/ BitAt(y, i) = 0
    <3>1. i \in Nat
      BY <1>1
    <3>2. CASE i < Width - k
      BY <2>6, <3>1, <3>2
    <3>3. CASE ~(i < Width - k)
      BY <2>2, <3>1, <3>3, <1>1, <2>1
    <3> QED
      BY <3>2, <3>3
  <2> HIDE DEF q, y
  <2>8. Or(q, y) = q + y /\ Or(q, y) \in Word
    BY <2>2, <2>5, <2>7, OrApart, OrXorType
  <2>9. vita_ror(v, n) = Or(q, y)
    BY <1>5 DEF vita_ror, q, y, k
  <2> QED
    BY <1>2, <2>1, <2>8, <2>9
<1> QED
  BY <1>4, <1>5

(* The C's shift helpers give the value of the architecture's shifts, for  *)
(* every count an instruction can ask for.                                 *)
THEOREM ShiftsExact ==
  ASSUME NEW type \in Shifts, NEW v \in Word, NEW n \in Nat, NEW c
  PROVE  Shifted(type, v, n) = Shift(type, v, n, c).val /\ Shifted(type, v, n) \in Word
<1>1. CASE type = "lsl"
  BY <1>1, ShiftLeft DEF Shifted
<1>2. CASE type = "lsr"
  BY <1>2, ShiftRight DEF Shifted
<1>3. CASE type = "asr"
  BY <1>3, ShiftSigned DEF Shifted
<1>4. CASE type = "ror"
  BY <1>4, ShiftRound DEF Shifted
<1> QED
  BY <1>1, <1>2, <1>3, <1>4 DEF Shifts

--------------------------------------------------------------------------------
(* Sign extension and bit fields. *)

(* Sign extension: the numbers of the upper half get the bits above. *)
LEMMA SignExtendIs ==
  ASSUME NEW h \in Nat \ {0}, NEW m, m = 2 * h, m <= Mod, NEW x \in 0 .. m - 1
  PROVE  /\ SignExtend(x, m) = IF x >= h THEN x + Mod - m ELSE x
         /\ SignExtend(x, m) \in Word
<1>1. m \div 2 = h /\ m \in Nat \ {0} /\ Mod \in Nat \ {0}
  BY WidthFacts
<1> DEFINE y == (x + h) % m
           z == IF x >= h THEN x + Mod - m ELSE x
<1>2. z \in Word
  BY <1>1 DEF Word
<1>3. CASE x >= h
  <2> DEFINE q == 1
             r == x - h
             s == x + h
  <2>1. s = m * q + r /\ r \in 0 .. m - 1 /\ q \in Int
    BY <1>1, <1>3
  <2> HIDE DEF q, r, s
  <2>2. s % m = r
    BY <1>1, <2>1, DivModIs
  <2>3. y - h = x - m
    BY <1>1, <1>3, <2>2 DEF r, s
  <2> DEFINE u == -1
             d == x - m
  <2>4. d = Mod * u + z /\ u \in Int
    BY <1>1, <1>3
  <2> HIDE DEF u, d, z
  <2>5. Wrap(d) = z
    BY <1>2, <2>4, WrapIs
  <2>6. SignExtend(x, m) = z
    BY <1>1, <2>3, <2>5 DEF SignExtend, d
  <2> QED
    BY <1>2, <2>6 DEF z
<1>4. CASE ~(x >= h)
  <2>1. y = x + h
    <3>1. x + h \in Nat /\ x + h < m
      BY <1>1, <1>4
    <3> QED
      BY <1>1, <3>1, WordMod
  <2>2. y - h = x /\ z = x
    BY <1>1, <1>4, <2>1
  <2>3. Wrap(x) = x
    BY <1>2, <2>2, WrapWord
  <2>4. SignExtend(x, m) = z
    BY <1>1, <2>2, <2>3 DEF SignExtend
  <2> QED
    BY <1>2, <2>4
<1> QED
  BY <1>3, <1>4

(* Bytes and shorts. *)
LEMMA ByteFacts ==
  /\ \A k \in 0 .. 4 : ByteAt(k) \in Nat \ {0}
  /\ \A k \in 0 .. 3 : ByteAt(k + 1) = ByteAt(k) * ByteMod
  /\ ByteAt(0) = 1 /\ ByteAt(1) = ByteMod /\ ByteAt(2) = ShortMod /\ ByteAt(4) = Mod
  /\ \A k \in 0 .. 4 : ByteAt(k) <= Mod
  /\ \E h \in Nat \ {0} : ByteMod = 2 * h
  /\ \E h \in Nat \ {0} : ShortMod = 2 * h
<1> DEFINE q == Width \div 4
<1>1. q \in Nat \ {0} /\ 4 * q = Width
  BY WidthAssumption
<1> HIDE DEF q
<1>2. ByteAt(0) = 2 ^ 0 /\ \A k \in 0 .. 4 : ByteAt(k) = 2 ^ (k * q) /\ k * q \in Nat
  <2>1. \A k \in 0 .. 4 : ByteAt(k) = 2 ^ (k * q)
    BY DEF ByteAt, q
  <2>2. \A k \in 0 .. 4 : k * q \in Nat
    BY <1>1
  <2>3. 0 * q = 0 /\ 0 \in 0 .. 4
    BY <1>1
  <2>4. ByteAt(0) = 2 ^ (0 * q)
    BY <2>1, <2>3
  <2> QED
    BY <2>1, <2>2, <2>3, <2>4
<1>3. \A k \in 0 .. 4 : ByteAt(k) \in Nat \ {0}
  BY <1>2, PowerType
<1>4. ASSUME NEW k \in 0 .. 3
      PROVE  ByteAt(k + 1) = ByteAt(k) * ByteMod
  <2>1. (k + 1) * q = k * q + 1 * q /\ 1 * q \in Nat /\ k * q \in Nat
    BY <1>1
  <2>2. 2 ^ (k * q + 1 * q) = 2 ^ (k * q) * 2 ^ (1 * q)
    BY <2>1, PowerSum
  <2>3. ByteAt(k + 1) = 2 ^ ((k + 1) * q) /\ ByteAt(k) = 2 ^ (k * q) /\ ByteMod = 2 ^ (1 * q)
    BY DEF ByteAt, ByteMod, q
  <2> QED
    BY <2>1, <2>2, <2>3
<1>5. ByteAt(4) = Mod
  BY <1>1, <1>2 DEF Mod
<1>6. ASSUME NEW k \in 0 .. 4
      PROVE  ByteAt(k) <= Mod
  <2>1. k * q <= 4 * q /\ k * q \in Nat /\ 4 * q \in Nat
    BY <1>1
  <2> QED
    BY <1>1, <1>2, <2>1, PowerGrows DEF Mod
<1>7. ASSUME NEW k \in 1 .. 2
      PROVE  \E h \in Nat \ {0} : ByteAt(k) = 2 * h
  <2> DEFINE n == k * q - 1
  <2>1. n \in Nat /\ n + 1 = k * q
    BY <1>1
  <2>2. 2 ^ n \in Nat \ {0} /\ 2 ^ (n + 1) = 2 * 2 ^ n
    BY <2>1, PowerType
  <2> QED
    BY <1>2, <2>1, <2>2
<1>8. ByteAt(0) = 1
  BY <1>2, PowerZero
<1> QED
  BY <1>3, <1>4, <1>5, <1>6, <1>7, <1>8 DEF ByteMod, ShortMod

(* A part of a word below a power. *)
LEMMA PartType ==
  ASSUME NEW x \in Int, NEW m \in Nat \ {0}, m <= Mod
  PROVE  x % m \in 0 .. m - 1 /\ x % m \in Word
<1>1. x % m \in 0 .. m - 1
  OBVIOUS
<1> QED
  BY <1>1, WidthFacts DEF Word

(* The extends of recomp_rt.h, written with masks and an exclusive or,     *)
(* give the architecture's sign and zero extension of a byte or halfword.  *)
THEOREM ExtendExact ==
  ASSUME NEW v \in Word
  PROVE  /\ vita_sxtb(v) = SignExtend(v % ByteMod, ByteMod) /\ vita_sxtb(v) \in Word
         /\ vita_sxth(v) = SignExtend(v % ShortMod, ShortMod) /\ vita_sxth(v) \in Word
         /\ vita_uxtb(v) = v % ByteMod /\ vita_uxtb(v) \in Word
         /\ vita_uxth(v) = v % ShortMod /\ vita_uxth(v) \in Word
<1>1. ASSUME NEW m, NEW h \in Nat \ {0}, m = 2 * h, m <= Mod
      PROVE  Extended(v, m) = SignExtend(v % m, m) /\ Extended(v, m) \in Word /\ v % m \in Word
  <2>1. m \in Nat \ {0} /\ v \in Int /\ m \div 2 = h
    BY <1>1, WrapWord
  <2> DEFINE x == v % m
  <2>2. x \in 0 .. m - 1 /\ x \in Word
    BY <1>1, <2>1, PartType
  <2> HIDE DEF x
  <2>3. SignExtend(x, m) = (IF x >= h THEN x + Mod - m ELSE x) /\ SignExtend(x, m) \in Word
    BY <1>1, <2>2, SignExtendIs
  <2>4. Extended(v, m) = IF x >= h THEN x + Mod - m ELSE x
    BY <2>1 DEF Extended, x
  <2> QED
    BY <2>2, <2>3, <2>4 DEF x
<1>2. PICK h \in Nat \ {0} : ByteMod = 2 * h
  BY ByteFacts
<1>3. PICK g \in Nat \ {0} : ShortMod = 2 * g
  BY ByteFacts
<1>4. ByteMod <= Mod /\ ShortMod <= Mod
  BY ByteFacts
<1>5. Extended(v, ByteMod) = SignExtend(v % ByteMod, ByteMod) /\ Extended(v, ByteMod) \in Word
      /\ v % ByteMod \in Word
  BY <1>1, <1>2, <1>4
<1>6. Extended(v, ShortMod) = SignExtend(v % ShortMod, ShortMod) /\ Extended(v, ShortMod) \in Word
      /\ v % ShortMod \in Word
  BY <1>1, <1>3, <1>4
<1> QED
  BY <1>5, <1>6 DEF vita_sxtb, vita_sxth, vita_uxtb, vita_uxth

(* A field, from its lowest bit. *)
LEMMA FieldMask ==
  ASSUME NEW w \in 1 .. Width
  PROVE  vita_bf_mask(w) = 2 ^ w - 1 /\ 2 ^ w \in Nat \ {0} /\ 2 ^ w <= Mod
         /\ w \in Nat /\ w - 1 \in Nat
         /\ 2 ^ w = 2 * 2 ^ (w - 1) /\ 2 ^ (w - 1) \in Nat \ {0} /\ vita_bf_mask(w) \in Word
<1>1. w \in Nat /\ w - 1 \in Nat /\ (w - 1) + 1 = w /\ Width \in Nat /\ w <= Width
  BY WidthFacts
<1>2. 2 ^ w \in Nat \ {0} /\ 2 ^ (w - 1) \in Nat \ {0} /\ 2 ^ ((w - 1) + 1) = 2 * 2 ^ (w - 1)
  BY <1>1, PowerType
<1>3. 2 ^ w <= 2 ^ Width
  BY <1>1, PowerGrows
<1>4. vita_bf_mask(w) = 2 ^ w - 1
  <2>1. w >= Width => w = Width
    BY <1>1
  <2> QED
    BY <2>1 DEF vita_bf_mask, Mod
<1>5. vita_bf_mask(w) \in Word
  <2> DEFINE p == 2 ^ w
  <2>1. p \in Nat \ {0} /\ p <= Mod /\ vita_bf_mask(w) = p - 1
    BY <1>2, <1>3, <1>4 DEF Mod
  <2> HIDE DEF p
  <2> QED
    BY <2>1, WidthFacts DEF Word
<1> QED
  BY <1>1, <1>2, <1>3, <1>4, <1>5 DEF Mod

(* vita_ubfx takes the field of width w from bit lsb, and nothing else.    *)
THEOREM FieldUnsigned ==
  ASSUME NEW v \in Word, NEW lsb \in Nat, NEW w \in 1 .. Width, lsb + w <= Width
  PROVE  /\ vita_ubfx(v, lsb, w) = (v \div 2 ^ lsb) % 2 ^ w
         /\ vita_ubfx(v, lsb, w) \in 0 .. 2 ^ w - 1 /\ vita_ubfx(v, lsb, w) \in Word
<1> DEFINE x == v \div 2 ^ lsb
           m == 2 ^ w
<1>1. lsb < Width /\ w \in 0 .. Width /\ 2 ^ lsb \in Nat \ {0}
  BY PowerType, WidthFacts
<1>2. x \in Word /\ vita_lsr(v, lsb) = x
  BY <1>1, DivType, WidthFacts DEF vita_lsr
<1> HIDE DEF x
<1>3. And(x, m - 1) = x % m
  BY <1>1, <1>2, AndMask
<1>4. m \in Nat \ {0} /\ m <= Mod /\ vita_bf_mask(w) = m - 1
  BY FieldMask
<1> HIDE DEF m
<1>5. vita_ubfx(v, lsb, w) = x % m
  BY <1>2, <1>3, <1>4 DEF vita_ubfx
<1>6. x % m \in 0 .. m - 1 /\ x % m \in Word
  <2>1. x \in Int
    BY <1>2, WrapWord
  <2> QED
    BY <1>4, <2>1, PartType, Zenon
<1> QED
  BY <1>5, <1>6 DEF x, m

(* The highest bit of a field. *)
LEMMA HighestBit ==
  ASSUME NEW k \in Nat, NEW f \in 0 .. 2 * 2 ^ k - 1
  PROVE  BitAt(f, k) = IF f >= 2 ^ k THEN 1 ELSE 0
<1> DEFINE h == 2 ^ k
<1>1. h \in Nat \ {0} /\ f \in 0 .. 2 * h - 1
  BY PowerType
<1>2. CASE f >= h
  <2> DEFINE q == 1
             r == f - h
  <2>1. f = 2 ^ k * q + r /\ r \in 0 .. 2 ^ k - 1 /\ q \in Int
    <3>1. f = h * q + r /\ r \in 0 .. h - 1 /\ q \in Int
      <4> HIDE DEF h
      <4> QED
        BY <1>1, <1>2
    <3> QED
      BY <3>1
  <2> HIDE DEF q, r, h
  <2>2. BitAt(f, k) = q % 2
    BY <2>1, BitIs
  <2>3. q % 2 = 1
    BY DEF q
  <2> QED
    BY <1>2, <2>2, <2>3 DEF h
<1>3. CASE ~(f >= h)
  <2>1. f \in 0 .. 2 ^ k - 1 /\ k >= k
    BY <1>1, <1>3
  <2>2. BitAt(f, k) = 0
    BY <2>1, SmallBits
  <2> QED
    BY <1>3, <2>2
<1> QED
  BY <1>2, <1>3

(* vita_sbfx extends the sign of that field, a field of the whole word     *)
(* included.                                                               *)
THEOREM FieldSigned ==
  ASSUME NEW v \in Word, NEW lsb \in Nat, NEW w \in 1 .. Width, lsb + w <= Width
  PROVE  /\ vita_sbfx(v, lsb, w) = SignExtend((v \div 2 ^ lsb) % 2 ^ w, 2 ^ w)
         /\ vita_sbfx(v, lsb, w) \in Word
<1> DEFINE f == vita_ubfx(v, lsb, w)
           m == 2 ^ w
           h == 2 ^ (w - 1)
<1>1. f = (v \div 2 ^ lsb) % m /\ f \in 0 .. m - 1 /\ f \in Word
  BY FieldUnsigned
<1>2. /\ m = 2 * h /\ h \in Nat \ {0} /\ m \in Nat \ {0} /\ m <= Mod /\ w \in Nat /\ w - 1 \in Nat
      /\ vita_bf_mask(w) = m - 1 /\ vita_bf_mask(w) \in Word
  BY FieldMask
<1>3. BitAt(f, w - 1) = IF f >= h THEN 1 ELSE 0
  <2> HIDE DEF f
  <2> QED
    BY <1>1, <1>2, HighestBit
<1>4. vita_sbfx(v, lsb, w) = IF w \in 1 .. Width - 1 /\ f >= h THEN Or(f, Not(m - 1)) ELSE f
  BY <1>2, <1>3 DEF vita_sbfx
<1>5. SignExtend(f, m) = (IF f >= h THEN f + Mod - m ELSE f) /\ SignExtend(f, m) \in Word
  <2> HIDE DEF f, m, h
  <2> QED
    BY <1>1, <1>2, SignExtendIs
<1>6. CASE w \in 1 .. Width - 1 /\ f >= h
  <2> DEFINE n == m - 1
             N == Not(n)
  <2>1. n \in Word /\ N = Mod - m /\ N \in Word
        /\ \A i \in 0 .. Width - 1 : BitAt(N, i) = 1 - BitAt(n, i)
    <3>1. n \in Word
      BY <1>2
    <3>2. N \in Word /\ \A i \in 0 .. Width - 1 : BitAt(N, i) = 1 - BitAt(n, i)
      BY <3>1, NotBits
    <3>3. N = Mod - m
      <4> HIDE DEF m
      <4> QED
        BY <1>2, WidthFacts DEF Not
    <3> QED
      BY <3>1, <3>2, <3>3
  <2>2. \A i \in Nat : BitAt(n, i) = IF i < w THEN 1 ELSE 0
    BY <1>2, MaskBits
  <2>3. \A i \in Nat : i >= w => BitAt(f, i) = 0
    <3> HIDE DEF f
    <3> QED
      BY <1>1, <1>2, SmallBits
  <2> HIDE DEF n, N, f, m
  <2>4. ASSUME NEW i \in 0 .. Width - 1
        PROVE  BitAt(f, i) = 0 \/ BitAt(N, i) = 0
    <3>1. i \in Nat /\ BitAt(N, i) = 1 - BitAt(n, i)
      BY <2>1, WidthFacts
    <3>2. CASE i < w
      <4>1. BitAt(n, i) = 1
        BY <2>2, <3>1, <3>2
      <4> QED
        BY <3>1, <4>1
    <3>3. CASE ~(i < w)
      BY <1>2, <2>3, <3>1, <3>3
    <3> QED
      BY <3>2, <3>3
  <2>5. Or(f, N) = f + N
    BY <1>1, <2>1, <2>4, OrApart
  <2>6. f + N = f + Mod - m
    BY <1>1, <1>2, <2>1, WidthFacts, WrapWord
  <2> QED
    BY <1>1, <1>4, <1>5, <1>6, <2>5, <2>6 DEF n, N, f, m
<1>7. CASE ~(w \in 1 .. Width - 1 /\ f >= h)
  <2>1. vita_sbfx(v, lsb, w) = f
    BY <1>4, <1>7
  <2>2. SignExtend(f, m) = f
    <3>1. CASE f >= h
      <4>1. w = Width
        BY <1>2, <1>7, <3>1, WidthFacts
      <4>2. m = Mod
        BY <4>1 DEF Mod
      <4>3. f \in Nat /\ Mod \in Nat
        BY <1>1, WrapWord, WidthFacts
      <4>4. f + Mod - m = f
        <5> HIDE DEF f, m
        <5> QED
          BY <4>2, <4>3
      <4> QED
        BY <1>5, <3>1, <4>4
    <3>2. CASE ~(f >= h)
      BY <1>5, <3>2
    <3> QED
      BY <3>1, <3>2
  <2> QED
    BY <1>1, <2>1, <2>2
<1> QED
  BY <1>6, <1>7

(* vita_bfi replaces that field by the lowest bits of its source and       *)
(* leaves the others.                                                      *)
THEOREM FieldInserted ==
  ASSUME NEW dst \in Word, NEW src \in Word, NEW lsb \in Nat, NEW w \in 1 .. Width,
         lsb + w <= Width
  PROVE  LET old == (dst \div 2 ^ lsb) % 2 ^ w
             new == src % 2 ^ w
         IN  /\ vita_bfi(dst, src, lsb, w) = dst + (new - old) * 2 ^ lsb
             /\ vita_bfi(dst, src, lsb, w) \in Word
<1> DEFINE p == 2 ^ lsb
           k == 2 ^ w
           old == (dst \div p) % k
           new == src % k
           m == vita_lsl(vita_bf_mask(w), lsb)
           up == vita_lsl(src, lsb)
           N == Not(m)
           A == And(dst, N)
           B == And(up, m)
           O == p * old
           E == p * new
           In(i) == i >= lsb /\ i < lsb + w
<1>1. p \in Nat \ {0} /\ k \in Nat \ {0} /\ w \in Nat /\ Width \in Nat /\ lsb < Width /\ w >= 1
      /\ vita_bf_mask(w) = k - 1 /\ k - 1 \in Word
  BY PowerType, FieldMask, WidthFacts
<1>2. dst \in Int /\ src \in Int /\ dst \div p \in Int
  <2> HIDE DEF p
  <2> QED
    BY <1>1, WrapWord
<1>3. p * k <= Mod
  <2>1. 2 ^ (lsb + w) = p * k /\ lsb + w \in Nat
    BY <1>1, PowerSum
  <2>2. 2 ^ (lsb + w) <= 2 ^ Width
    BY <1>1, <2>1, PowerGrows
  <2> QED
    BY <2>1, <2>2 DEF Mod
<1>4. ASSUME NEW x \in 0 .. k - 1
      PROVE  p * x \in Word
  <2> HIDE DEF p, k
  <2>1. p * x <= p * (k - 1) /\ p * x \in Nat
    BY <1>1
  <2>2. p * (k - 1) = p * k - p /\ p * k \in Nat
    BY <1>1
  <2> QED
    BY <1>1, <1>3, <2>1, <2>2, WidthFacts DEF Word
<1>5. old \in 0 .. k - 1 /\ new \in 0 .. k - 1
  <2> HIDE DEF p, k
  <2> QED
    BY <1>1, <1>2
<1>6. O \in Word /\ E \in Word
  BY <1>4, <1>5
<1>7. m \in Word /\ m = p * (k - 1)
  <2>1. k - 1 \in 0 .. k - 1
    BY <1>1
  <2>2. p * (k - 1) \in Word
    BY <1>4, <2>1
  <2>3. (k - 1) * p = p * (k - 1)
    <3> HIDE DEF p, k
    <3> QED
      BY <1>1
  <2>4. m = Wrap((k - 1) * p)
    BY <1>1 DEF vita_lsl
  <2> QED
    BY <2>2, <2>3, <2>4, WrapWord
<1>8. ASSUME NEW i \in Nat
      PROVE  BitAt(m, i) = IF In(i) THEN 1 ELSE 0
  <2> DEFINE z == 2 ^ w - 1
  <2>1. BitAt(2 ^ lsb * z, i) = IF i < lsb THEN 0 ELSE BitAt(z, i - lsb)
    <3>1. z \in Int
      BY <1>1
    <3> HIDE DEF z
    <3> QED
      BY <3>1, MultipleBits
  <2>2. CASE i < lsb
    BY <1>7, <2>1, <2>2
  <2>3. CASE ~(i < lsb)
    <3>1. i - lsb \in Nat /\ (i - lsb < w <=> i < lsb + w)
      BY <1>1, <2>3
    <3>2. BitAt(z, i - lsb) = IF i - lsb < w THEN 1 ELSE 0
      BY <1>1, <3>1, MaskBits
    <3> QED
      BY <1>7, <2>1, <2>3, <3>1, <3>2
  <2> QED
    BY <2>2, <2>3
<1>9. ASSUME NEW i \in Nat
      PROVE  BitAt(O, i) = IF In(i) THEN BitAt(dst, i) ELSE 0
  <2>1. BitAt(O, i) = IF i < lsb THEN 0 ELSE BitAt(old, i - lsb)
    <3>1. old \in Int
      BY <1>5
    <3> HIDE DEF old
    <3> QED
      BY <3>1, MultipleBits
  <2>2. CASE i < lsb
    BY <2>1, <2>2
  <2>3. CASE ~(i < lsb)
    <3> DEFINE j == i - lsb
    <3>1. j \in Nat /\ (j < w <=> i < lsb + w) /\ j + lsb = i
      BY <1>1, <2>3
    <3>2. BitAt(old, j) = IF j < w THEN BitAt(dst \div p, j) ELSE 0
      <4> DEFINE d == dst \div p
      <4>1. d \in Int
        BY <1>2
      <4> HIDE DEF d, j
      <4>2. BitAt(d % 2 ^ w, j) = IF j < w THEN BitAt(d, j) ELSE 0
        BY <1>1, <3>1, <4>1, PartBits
      <4> QED
        BY <4>2 DEF d
    <3>3. BitAt(dst \div p, j) = BitAt(dst, i)
      <4> HIDE DEF j
      <4>1. BitAt(dst \div 2 ^ lsb, j) = BitAt(dst, j + lsb)
        BY <1>2, <3>1, PartBits
      <4> QED
        BY <3>1, <4>1
    <3> QED
      BY <2>1, <2>3, <3>1, <3>2, <3>3
  <2> QED
    BY <2>2, <2>3
<1>10. ASSUME NEW i \in Nat
       PROVE  BitAt(E, i) = IF In(i) THEN BitAt(src, i - lsb) ELSE 0
  <2>1. BitAt(E, i) = IF i < lsb THEN 0 ELSE BitAt(new, i - lsb)
    <3>1. new \in Int
      BY <1>5
    <3> HIDE DEF new
    <3> QED
      BY <3>1, MultipleBits
  <2>2. CASE i < lsb
    BY <2>1, <2>2
  <2>3. CASE ~(i < lsb)
    <3> DEFINE j == i - lsb
    <3>1. j \in Nat /\ (j < w <=> i < lsb + w)
      BY <1>1, <2>3
    <3>2. BitAt(src % 2 ^ w, j) = IF j < w THEN BitAt(src, j) ELSE 0
      <4> HIDE DEF j
      <4> QED
        BY <1>1, <1>2, <3>1, PartBits
    <3> QED
      BY <2>1, <2>3, <3>1, <3>2
  <2> QED
    BY <2>2, <2>3
<1>11. up \in Word
  <2>1. src * p \in Int
    <3> HIDE DEF p
    <3> QED
      BY <1>1, <1>2
  <2>2. Wrap(src * p) \in Word
    BY <2>1, WrapType
  <2> QED
    BY <1>1, <2>2 DEF vita_lsl
<1>12. ASSUME NEW i \in 0 .. Width - 1, i >= lsb
       PROVE  BitAt(up, i) = BitAt(src, i - lsb)
  <2>1. i \in Nat /\ i < Width
    BY <1>1
  <2> DEFINE x == src * p
  <2>2. x \in Int /\ x = 2 ^ lsb * src
    <3>1. src * p = p * src /\ src * p \in Int
      <4> HIDE DEF p
      <4> QED
        BY <1>1, <1>2
    <3> QED
      BY <3>1
  <2>3. up = x % 2 ^ Width
    BY <1>1 DEF vita_lsl, Wrap, Mod
  <2>4. BitAt(2 ^ lsb * src, i) = BitAt(src, i - lsb)
    BY <1>2, <1>12, <2>1, MultipleBits
  <2> HIDE DEF x
  <2>5. BitAt(x % 2 ^ Width, i) = BitAt(x, i)
    BY <1>1, <2>1, <2>2, PartBits
  <2> QED
    BY <2>2, <2>3, <2>4, <2>5
<1>13. N \in Word /\ \A i \in 0 .. Width - 1 : BitAt(N, i) = 1 - BitAt(m, i)
  <2> HIDE DEF m
  <2> QED
    BY <1>7, NotBits
<1>14. A \in Word /\ \A i \in 0 .. Width - 1 : BitAt(A, i) = BitAt(dst, i) * BitAt(N, i)
  <2> HIDE DEF N
  <2> QED
    BY <1>13, AndBits
<1>15. B \in Word /\ \A i \in 0 .. Width - 1 : BitAt(B, i) = BitAt(up, i) * BitAt(m, i)
  <2> HIDE DEF m, up
  <2> QED
    BY <1>7, <1>11, AndBits
<1>16. vita_bfi(dst, src, lsb, w) = Or(A, B)
  BY DEF vita_bfi
<1> HIDE DEF p, k, old, new, m, up, N, A, B, O, E
<1>17. ASSUME NEW i \in 0 .. Width - 1
       PROVE  /\ BitAt(A, i) + BitAt(O, i) = BitAt(dst, i)
              /\ BitAt(B, i) = BitAt(E, i)
              /\ BitAt(A, i) = 0 \/ BitAt(B, i) = 0
  <2>1. i \in Nat /\ BitAt(dst, i) \in {0, 1} /\ BitAt(up, i) \in {0, 1}
    BY <1>1, <1>11, BitOfWord
  <2>2. BitAt(N, i) = 1 - BitAt(m, i) /\ BitAt(A, i) = BitAt(dst, i) * BitAt(N, i)
        /\ BitAt(B, i) = BitAt(up, i) * BitAt(m, i)
    BY <1>13, <1>14, <1>15
  <2>3. CASE In(i)
    <3>1. BitAt(m, i) = 1 /\ BitAt(O, i) = BitAt(dst, i) /\ BitAt(E, i) = BitAt(src, i - lsb)
      BY <1>8, <1>9, <1>10, <2>1, <2>3
    <3>2. BitAt(up, i) = BitAt(src, i - lsb)
      BY <1>12, <2>3
    <3>3. BitAt(N, i) = 0
      BY <2>2, <3>1
    <3>4. BitAt(A, i) = 0 /\ BitAt(B, i) = BitAt(up, i)
      BY <2>1, <2>2, <3>1, <3>3
    <3> QED
      BY <2>1, <3>1, <3>2, <3>4
  <2>4. CASE ~In(i)
    <3>1. BitAt(m, i) = 0 /\ BitAt(O, i) = 0 /\ BitAt(E, i) = 0
      BY <1>8, <1>9, <1>10, <2>1, <2>4
    <3>2. BitAt(N, i) = 1
      BY <2>2, <3>1
    <3>3. BitAt(A, i) = BitAt(dst, i) /\ BitAt(B, i) = 0
      BY <2>1, <2>2, <3>1, <3>2
    <3> QED
      BY <2>1, <3>1, <3>3
  <2> QED
    BY <2>3, <2>4
<1>18. A + O = dst
  BY <1>6, <1>14, <1>17, WordsAdd
<1>19. B = E
  BY <1>6, <1>15, <1>17, WordsEqual
<1>20. Or(A, B) = A + B /\ Or(A, B) \in Word
  BY <1>14, <1>15, <1>17, OrApart, OrXorType
<1>21. A + B = dst + (new - old) * p
  <2>1. (new - old) * p = p * new - p * old
    BY <1>1, <1>5
  <2>2. A \in Int /\ O \in Int /\ E \in Int
    BY <1>6, <1>14, WrapWord
  <2>3. (new - old) * p = E - O
    BY <2>1 DEF E, O
  <2> QED
    BY <1>2, <1>18, <1>19, <2>2, <2>3
<1> QED
  BY <1>16, <1>20, <1>21 DEF p, k, old, new

--------------------------------------------------------------------------------
(* Bytes and memory. *)

Bytes  == 0 .. ByteMod - 1
Memory == [Word -> Bytes]
Contents == [Regs -> Word]

(* A byte of a word is a byte. *)
LEMMA ByteType ==
  ASSUME NEW v \in Word, NEW k \in 0 .. 3
  PROVE  Byte(v, k) \in Bytes /\ Bytes \subseteq Word /\ Bytes \subseteq Nat
<1>1. ByteAt(k) \in Nat \ {0} /\ ByteMod \in Nat \ {0} /\ ByteMod <= Mod /\ 1 \in 0 .. 4
  BY ByteFacts
<1> DEFINE x == v \div ByteAt(k)
<1>2. x \in Word
  BY <1>1, DivType
<1>3. x \in Int
  BY <1>2, WrapWord
<1> HIDE DEF x
<1>4. x % ByteMod \in 0 .. ByteMod - 1
  BY <1>1, <1>3, PartType
<1> QED
  BY <1>1, <1>4, WidthFacts DEF Byte, Bytes, x, Word

(* What Read adds up: v[k] is the value of the first k bytes from a. *)
Adds(v, mem, a, n) ==
  /\ v \in [0 .. n -> Nat] /\ v[0] = 0
  /\ \A k \in 0 .. n - 1 : v[k + 1] = v[k] + mem[a + k] * ByteAt(k)
  /\ \A k \in 0 .. n : v[k] < ByteAt(k)
  /\ Read(mem, a, n) = v[n]

(* The bytes of memory have such a sum, so Read is one. *)
LEMMA ReadSum ==
  ASSUME NEW mem, NEW a \in Nat, NEW n \in 0 .. 4, InMem(a, n),
         \A k \in 0 .. n - 1 : mem[a + k] \in Bytes
  PROVE  \E v : Adds(v, mem, a, n)
<1> DEFINE Turn(k, x) == x + mem[a + k - 1] * ByteAt(k - 1)
           step == [k \in Nat |-> [x \in Nat |-> IF k \in 1 .. n THEN Turn(k, x) ELSE 0]]
           v == CHOOSE v : v = [k \in 0 .. n |-> IF k = 0 THEN 0 ELSE Turn(k, v[k - 1])]
<1>1. ASSUME NEW k \in 1 .. n, NEW x \in Nat
      PROVE  Turn(k, x) \in Nat /\ mem[a + (k - 1)] \in Bytes /\ a + k - 1 = a + (k - 1)
             /\ mem[a + (k - 1)] \in Nat
  <2>1. k - 1 \in 0 .. n - 1 /\ k - 1 \in 0 .. 4 /\ a + k - 1 = a + (k - 1)
    OBVIOUS
  <2> DEFINE c == mem[a + (k - 1)]
             w == ByteAt(k - 1)
  <2>2. c \in Bytes /\ w \in Nat
    BY <2>1, ByteFacts
  <2>3. c \in Nat
    BY <2>2, ByteFacts DEF Bytes
  <2> HIDE DEF c, w
  <2>4. x + c * w \in Nat
    BY <2>2, <2>3
  <2> QED
    BY <2>1, <2>2, <2>3, <2>4 DEF c, w
<1>2. step \in [Nat -> [Nat -> Nat]]
  BY <1>1
<1>3. v = [k \in 0 .. n |-> IF k = 0 THEN 0 ELSE Turn(k, v[k - 1])]
  <2>1. PICK g : Recurses(g, Nat, 0, step, n)
    <3> HIDE DEF step
    <3>1. 0 \in Nat /\ n \in Nat
      OBVIOUS
    <3> QED
      BY <1>2, <3>1, Recursion, Zenon
  <2>2. g \in [0 .. n -> Nat] /\ g[0] = 0 /\ \A k \in 1 .. n : g[k] = Turn(k, g[k - 1])
    <3>1. /\ g \in [0 .. n -> Nat] /\ g[0] = 0
          /\ \A k \in 1 .. n : g[k] = step[k][g[k - 1]]
      BY <2>1 DEF Recurses
    <3> HIDE DEF Turn, v
    <3>2. \A k \in 1 .. n, x \in Nat : step[k][x] = Turn(k, x)
      OBVIOUS
    <3> HIDE DEF step
    <3>3. \A k \in 1 .. n : g[k - 1] \in Nat
      BY <3>1
    <3> QED
      BY <3>1, <3>2, <3>3
  <2> HIDE DEF Turn
  <2>3. g = [k \in 0 .. n |-> IF k = 0 THEN 0 ELSE Turn(k, g[k - 1])]
    BY <2>2
  <2> QED
    BY <2>3
<1> HIDE DEF v, step, Turn
<1>4. v[0] = 0 /\ \A k \in 0 .. n - 1 : v[k + 1] = v[k] + mem[a + k] * ByteAt(k)
  <2>1. \A k \in 0 .. n : v[k] = IF k = 0 THEN 0 ELSE Turn(k, v[k - 1])
    BY <1>3, Zenon
  <2>2. ASSUME NEW k \in 0 .. n - 1
        PROVE  v[k + 1] = v[k] + mem[a + k] * ByteAt(k)
    <3>1. k + 1 \in 0 .. n /\ k + 1 # 0 /\ (k + 1) - 1 = k /\ a + (k + 1) - 1 = a + k
      OBVIOUS
    <3>2. v[k + 1] = Turn(k + 1, v[(k + 1) - 1])
      BY <2>1, <3>1
    <3> QED
      BY <3>1, <3>2 DEF Turn
  <2>3. v[0] = 0
    BY <2>1
  <2> QED
    BY <2>2, <2>3
<1> DEFINE T == { k \in Nat : k <= n => v[k] \in Nat /\ v[k] < ByteAt(k) }
<1>5. 0 \in T
  BY <1>4, ByteFacts
<1>6. ASSUME NEW k \in Nat, k \in T
      PROVE  k + 1 \in T
  <2> SUFFICES ASSUME k + 1 <= n PROVE v[k + 1] \in Nat /\ v[k + 1] < ByteAt(k + 1)
    OBVIOUS
  <2>1. k \in 0 .. n - 1 /\ k \in 0 .. 3 /\ k \in 0 .. 4 /\ k <= n
    OBVIOUS
  <2> DEFINE c == mem[a + k]
             w == ByteAt(k)
             x == v[k]
             y == v[k + 1]
             B == ByteMod
  <2>2. /\ c \in 0 .. B - 1 /\ w \in Nat \ {0} /\ x \in Nat /\ x < w /\ y = x + c * w
        /\ ByteAt(k + 1) = w * B /\ B \in Nat
    BY <1>4, <1>6, <2>1, ByteFacts DEF Bytes
  <2> HIDE DEF c, w, x, y, B
  <2>3. c * w <= w * B - w /\ c * w \in Nat
    <3>1. c * w = w * c /\ w * c <= w * (B - 1) /\ w * c \in Nat
      BY <2>2
    <3>2. w * (B - 1) = w * B - w
      BY <2>2
    <3> QED
      BY <3>1, <3>2
  <2>4. w * B \in Nat
    BY <2>2
  <2>5. y \in Nat /\ y < w * B
    BY <2>2, <2>3, <2>4
  <2> QED
    BY <2>2, <2>5 DEF y
<1>7. Nat \subseteq T
  <2> HIDE DEF T
  <2> QED
    BY <1>5, <1>6, SetInduction
<1>8. \A k \in 0 .. n : v[k] \in Nat /\ v[k] < ByteAt(k)
  BY <1>7
<1>9. v \in [0 .. n -> Nat]
  BY <1>3, <1>8
<1>10. Read(mem, a, n) = v[n]
  BY DEF Read, v, Turn
<1> QED
  BY <1>4, <1>8, <1>9, <1>10 DEF Adds

(* What is read is a number of its size. *)
LEMMA ReadType ==
  ASSUME NEW mem \in Memory, NEW a \in Word, NEW n \in {1, 2, 4}
  PROVE  Read(mem, a, n) \in 0 .. ByteAt(n) - 1 /\ Read(mem, a, n) \in Word
<1>1. n \in 0 .. 4 /\ ByteAt(n) \in Nat \ {0} /\ ByteAt(n) <= Mod /\ a \in Nat
  BY ByteFacts, WrapWord
<1>2. CASE InMem(a, n)
  <2>1. \A k \in 0 .. n - 1 : mem[a + k] \in Bytes
    <3>1. \A k \in 0 .. n - 1 : a + k \in Word
      BY <1>1, <1>2, WidthFacts DEF InMem, Word
    <3> QED
      BY <3>1 DEF Memory
  <2>2. PICK v : Adds(v, mem, a, n)
    BY <1>1, <1>2, <2>1, ReadSum
  <2>3. n \in 0 .. n /\ v[n] \in Nat /\ v[n] < ByteAt(n) /\ Read(mem, a, n) = v[n]
    BY <1>1, <2>2 DEF Adds
  <2> QED
    BY <1>1, <2>3, WidthFacts DEF Word
<1>3. CASE ~InMem(a, n)
  <2>1. Read(mem, a, n) = 0
    BY <1>3 DEF Read
  <2> QED
    BY <1>1, <2>1, WidthFacts DEF Word
<1> QED
  BY <1>2, <1>3

(* What is written leaves bytes. *)
LEMMA WriteType ==
  ASSUME NEW mem \in Memory, NEW a \in Word, NEW n \in {1, 2, 4}, NEW v \in Word
  PROVE  Write(mem, a, n, v) \in Memory
<1>1. ASSUME NEW b \in Word, b \in a .. a + n - 1
      PROVE  Byte(v, b - a) \in Bytes
  <2>1. b - a \in 0 .. 3
    BY <1>1, WrapWord
  <2> QED
    BY <2>1, ByteType
<1>2. [b \in Word |-> IF b \in a .. a + n - 1 THEN Byte(v, b - a) ELSE mem[b]] \in Memory
  BY <1>1 DEF Memory
<1> QED
  BY <1>2 DEF Write

(* So does a list of registers. *)
LEMMA StoreListType ==
  ASSUME NEW mem \in Memory, NEW a \in Word, NEW list \in Seq(Regs), NEW r \in Contents
  PROVE  StoreList(mem, a, list, r) \in Memory
<1> DEFINE n == Len(list)
           Turn(k, m) == Write(m, Wrap(a + 4 * (k - 1)), 4, r[list[k]])
           step == [k \in Nat |-> [m \in Memory |-> IF k \in 1 .. n THEN Turn(k, m) ELSE m]]
           v == CHOOSE v : v = [k \in 0 .. n |-> IF k = 0 THEN mem ELSE Turn(k, v[k - 1])]
<1>1. n \in Nat
  OBVIOUS
<1>2. ASSUME NEW k \in 1 .. n, NEW m \in Memory
      PROVE  Turn(k, m) \in Memory
  <2>1. Wrap(a + 4 * (k - 1)) \in Word
    BY WrapWord, WrapType
  <2>2. r[list[k]] \in Word
    BY DEF Contents
  <2> QED
    BY <2>1, <2>2, WriteType
<1>3. step \in [Nat -> [Memory -> Memory]]
  <2> HIDE DEF Turn, n
  <2> QED
    BY <1>2
<1>4. PICK g : Recurses(g, Memory, mem, step, n)
  <2> HIDE DEF step, n
  <2> QED
    BY <1>1, <1>3, Recursion, Zenon
<1>5. g \in [0 .. n -> Memory] /\ g[0] = mem /\ \A k \in 1 .. n : g[k] = Turn(k, g[k - 1])
  <2> HIDE DEF Turn, v, n
  <2>1. /\ g \in [0 .. n -> Memory] /\ g[0] = mem
        /\ \A k \in 1 .. n : g[k] = step[k][g[k - 1]]
    BY <1>4 DEF Recurses
  <2>2. \A k \in 1 .. n, m \in Memory : step[k][m] = Turn(k, m)
    BY <1>1
  <2> HIDE DEF step
  <2>3. \A k \in 1 .. n : g[k - 1] \in Memory
    BY <1>1, <2>1
  <2> QED
    BY <2>1, <2>2, <2>3
<1> HIDE DEF n, step
<1>6. v = [k \in 0 .. n |-> IF k = 0 THEN mem ELSE Turn(k, v[k - 1])]
  <2> HIDE DEF Turn
  <2>1. g = [k \in 0 .. n |-> IF k = 0 THEN mem ELSE Turn(k, g[k - 1])]
    BY <1>1, <1>5
  <2> QED
    BY <2>1
<1> HIDE DEF v, Turn
<1>7. v[0] = mem /\ \A k \in 1 .. n : v[k] = Turn(k, v[k - 1])
  <2>1. \A k \in 0 .. n : v[k] = IF k = 0 THEN mem ELSE Turn(k, v[k - 1])
    BY <1>6, Zenon
  <2>2. 0 \in 0 .. n /\ \A k \in 1 .. n : k \in 0 .. n /\ k # 0
    BY <1>1
  <2> QED
    BY <2>1, <2>2
<1> DEFINE T == { k \in Nat : k <= n => v[k] \in Memory }
<1>8. 0 \in T
  BY <1>7
<1>9. ASSUME NEW k \in Nat, k \in T
      PROVE  k + 1 \in T
  <2> SUFFICES ASSUME k + 1 <= n PROVE v[k + 1] \in Memory
    OBVIOUS
  <2>1. k + 1 \in 1 .. n /\ (k + 1) - 1 = k /\ k <= n
    BY <1>1
  <2>2. v[k] \in Memory /\ v[k + 1] = Turn(k + 1, v[k])
    BY <1>7, <1>9, <2>1
  <2> QED
    BY <1>2, <2>1, <2>2
<1>10. Nat \subseteq T
  <2> HIDE DEF T
  <2> QED
    BY <1>8, <1>9, SetInduction
<1>11. v[n] \in Memory
  BY <1>1, <1>10
<1>12. StoreList(mem, a, list, r) = v[n]
  BY DEF StoreList, v, Turn, n
<1> QED
  BY <1>11, <1>12

(* And a list read back holds words. *)
LEMMA LoadListType ==
  ASSUME NEW mem \in Memory, NEW a \in Word, NEW list \in Seq(Regs), NEW r \in Contents
  PROVE  LoadList(mem, a, list, r) \in Contents
<1> SUFFICES ASSUME NEW q \in Regs
             PROVE  LoadList(mem, a, list, r)[q] \in Word
  BY DEF LoadList, Contents
<1> DEFINE K == CHOOSE k \in 1 .. Len(list) : list[k] = q
<1>1. CASE \E k \in 1 .. Len(list) : list[k] = q
  <2>1. K \in 1 .. Len(list)
    BY <1>1
  <2>2. Wrap(a + 4 * (K - 1)) \in Word
    <3> HIDE DEF K
    <3> QED
      BY <2>1, WrapWord, WrapType
  <2>3. Read(mem, Wrap(a + 4 * (K - 1)), 4) \in Word
    BY <2>2, ReadType
  <2> QED
    BY <1>1, <2>3 DEF LoadList
<1>2. CASE ~ \E k \in 1 .. Len(list) : list[k] = q
  BY <1>2 DEF LoadList, Contents
<1> QED
  BY <1>1, <1>2

(* vita_rev is a word whose bytes are stored and read back the other way   *)
(* round.                                                                  *)
THEOREM ReverseExact ==
  ASSUME NEW v \in Word
  PROVE  /\ vita_rev(v) = Read([k \in 0 .. 3 |-> Byte(v, 3 - k)], 0, 4)
         /\ vita_rev(v) \in Word
<1> DEFINE mem == [k \in 0 .. 3 |-> Byte(v, 3 - k)]
           o == 0
<1>1. \A k \in 0 .. 3 : Byte(v, k) \in Bytes /\ Byte(v, k) \in Nat
  BY ByteType
<1>2. InMem(o, 4) /\ o \in Nat /\ 4 \in 0 .. 4
  BY WidthFacts DEF InMem
<1>3. \A k \in 0 .. 3 : mem[o + k] = Byte(v, 3 - k) /\ 3 - k \in 0 .. 3
  OBVIOUS
<1>4. \A k \in 0 .. 4 - 1 : mem[o + k] \in Bytes
  BY <1>1, <1>3
<1> HIDE DEF mem, o
<1>0. PICK s : Adds(s, mem, o, 4)
  BY <1>2, <1>4, ReadSum
<1>5. /\ s \in [0 .. 4 -> Nat]
      /\ s[0] = 0 /\ \A k \in 0 .. 4 - 1 : s[k + 1] = s[k] + mem[o + k] * ByteAt(k)
      /\ \A k \in 0 .. 4 : s[k] < ByteAt(k)
      /\ Read(mem, o, 4) = s[4]
  BY <1>0 DEF Adds
<1>6. /\ s[1] = s[0] + mem[o + 0] * ByteAt(0) /\ s[2] = s[1] + mem[o + 1] * ByteAt(1)
      /\ s[3] = s[2] + mem[o + 2] * ByteAt(2) /\ s[4] = s[3] + mem[o + 3] * ByteAt(3)
  <2>1. \A k \in 0 .. 3 : s[k + 1] = s[k] + mem[o + k] * ByteAt(k)
    BY <1>5
  <2>2. 0 + 1 = 1 /\ 1 + 1 = 2 /\ 2 + 1 = 3 /\ 3 + 1 = 4
    OBVIOUS
  <2>3. s[0 + 1] = s[0] + mem[o + 0] * ByteAt(0) /\ s[1 + 1] = s[1] + mem[o + 1] * ByteAt(1)
        /\ s[2 + 1] = s[2] + mem[o + 2] * ByteAt(2) /\ s[3 + 1] = s[3] + mem[o + 3] * ByteAt(3)
    BY <2>1
  <2> QED
    BY <2>2, <2>3
<1> DEFINE a == Byte(v, 0)
           b == Byte(v, 1)
           c == Byte(v, 2)
           d == Byte(v, 3)
           B1 == ByteAt(1)
           B2 == ByteAt(2)
           B3 == ByteAt(3)
<1>7. mem[o + 0] = d /\ mem[o + 1] = c /\ mem[o + 2] = b /\ mem[o + 3] = a
  <2>1. mem[o + 0] = Byte(v, 3 - 0) /\ mem[o + 1] = Byte(v, 3 - 1) /\ mem[o + 2] = Byte(v, 3 - 2)
        /\ mem[o + 3] = Byte(v, 3 - 3)
    BY <1>3
  <2>2. 3 - 0 = 3 /\ 3 - 1 = 2 /\ 3 - 2 = 1 /\ 3 - 3 = 0
    OBVIOUS
  <2> QED
    BY <2>1, <2>2
<1>8. vita_rev(v) = a * B3 + b * B2 + c * B1 + d
  BY DEF vita_rev, Byte
<1>9. a \in Nat /\ b \in Nat /\ c \in Nat /\ d \in Nat
  BY <1>1
<1>10. B1 \in Nat /\ B2 \in Nat /\ B3 \in Nat /\ ByteAt(0) = 1
  BY ByteFacts
<1> DEFINE x == a * B3
           y == b * B2
           z == c * B1
<1> HIDE DEF a, b, c, d, B1, B2, B3
<1>11. x \in Nat /\ y \in Nat /\ z \in Nat /\ d * 1 = d
  BY <1>9, <1>10
<1>12. s[1] = 0 + d /\ s[2] = s[1] + z /\ s[3] = s[2] + y /\ s[4] = s[3] + x
  BY <1>5, <1>6, <1>7, <1>10, <1>11 DEF B1, B2, B3
<1>13. vita_rev(v) = x + y + z + d
  BY <1>8
<1> HIDE DEF x, y, z
<1>14. s[4] = vita_rev(v)
  BY <1>9, <1>11, <1>12, <1>13
<1>15. s[4] \in Word
  <2>1. s[4] \in Nat /\ s[4] < Mod
    BY <1>5, ByteFacts
  <2> QED
    BY <2>1, WidthFacts DEF Word
<1> QED
  BY <1>5, <1>14, <1>15 DEF mem, o

(* Or puts a number beside one that is moved up past it, p times.          *)
OrAdds(p) ==
  \A z \in Nat : \A x \in 0 .. p - 1 : p * z + x < Mod => Or(p * z, x) = p * z + x

LEMMA OrPlaced == \A k \in Nat : OrAdds(2 ^ k)
<1> SUFFICES ASSUME NEW k \in Nat, NEW p \in Nat, p = 2 ^ k, NEW z \in Nat,
                    NEW x \in 0 .. p - 1, p * z + x < Mod
             PROVE  Or(p * z, x) = p * z + x
  BY PowerType DEF OrAdds
<1> DEFINE y == p * z
<1>2. y \in Nat /\ x \in Nat /\ y + x < Mod
  OBVIOUS
<1>1. y = 2 ^ k * z /\ x \in 0 .. 2 ^ k - 1
  OBVIOUS
<1> HIDE DEF y
<1>3. y \in Word /\ x \in Word
  BY <1>2, WidthFacts DEF Word
<1>4. ASSUME NEW i \in 0 .. Width - 1
      PROVE  BitAt(y, i) = 0 \/ BitAt(x, i) = 0
  <2>1. i \in Nat
    BY WidthFacts
  <2>2. CASE i < k
    <3>1. BitAt(2 ^ k * z, i) = IF i < k THEN 0 ELSE BitAt(z, i - k)
      <4>1. z \in Int
        OBVIOUS
      <4> QED
        BY <2>1, <4>1, MultipleBits, Zenon
    <3> QED
      BY <1>1, <2>2, <3>1
  <2>3. CASE ~(i < k)
    <3>1. i >= k
      BY <2>1, <2>3
    <3>2. BitAt(x, i) = 0
      BY <1>1, <2>1, <3>1, SmallBits
    <3> QED
      BY <3>2
  <2> QED
    BY <2>2, <2>3
<1>5. Or(y, x) = y + x
  BY <1>3, <1>4, OrApart
<1> QED
  BY <1>5 DEF y

(* The places of a byte. *)
LEMMA PlaceFacts ==
  \E q \in Nat \ {0} :
    /\ q = Width \div 4 /\ q < Width
    /\ ByteMod = 2 ^ q /\ ShortMod = 2 ^ (2 * q) /\ ByteAt(3) = 2 ^ (3 * q)
    /\ ByteMod \div 2 = 2 ^ (q - 1) /\ ByteMod = 2 * 2 ^ (q - 1) /\ 2 ^ (q - 1) \in Nat \ {0}
    /\ ByteMod \in Nat \ {0} /\ ShortMod = ByteMod * ByteMod /\ ByteAt(3) = ByteMod * ShortMod
    /\ Mod = ShortMod * ShortMod
<1> DEFINE q == Width \div 4
<1>1. q \in Nat \ {0} /\ 4 * q = Width /\ q < Width
  BY WidthAssumption
<1>2. ByteAt(1) = 2 ^ (1 * q) /\ ByteAt(2) = 2 ^ (2 * q) /\ ByteAt(3) = 2 ^ (3 * q)
  BY DEF ByteAt
<1> HIDE DEF q
<1>3. 1 * q = q
  BY <1>1
<1>4. ByteMod = 2 ^ q /\ ShortMod = 2 ^ (2 * q) /\ ByteAt(3) = 2 ^ (3 * q)
  BY <1>2, <1>3 DEF ByteMod, ShortMod
<1>5. ByteMod \in Nat \ {0} /\ ShortMod = ByteMod * ByteMod /\ ByteAt(3) = ShortMod * ByteMod
  <2>1. ByteAt(1 + 1) = ByteAt(1) * ByteMod /\ ByteAt(2 + 1) = ByteAt(2) * ByteMod
    BY ByteFacts
  <2>2. 1 + 1 = 2 /\ 2 + 1 = 3 /\ ByteAt(1) \in Nat \ {0}
    BY ByteFacts
  <2> QED
    BY <2>1, <2>2 DEF ByteMod, ShortMod
<1>6. q - 1 \in Nat /\ (q - 1) + 1 = q
  BY <1>1
<1> DEFINE h == 2 ^ (q - 1)
<1>7. h \in Nat \ {0} /\ ByteMod = 2 * h
  <2>1. 2 ^ (q - 1) \in Nat \ {0} /\ 2 ^ ((q - 1) + 1) = 2 * 2 ^ (q - 1)
    BY <1>6, PowerType
  <2> QED
    BY <1>4, <1>6, <2>1
<1>8. Mod = ShortMod * ShortMod
  <2>1. 2 * q \in Nat /\ 2 * q + 2 * q = Width
    BY <1>1
  <2>2. 2 ^ (2 * q + 2 * q) = 2 ^ (2 * q) * 2 ^ (2 * q)
    BY <2>1, PowerSum
  <2> QED
    BY <1>4, <2>1, <2>2 DEF Mod
<1> HIDE DEF h
<1>9. ByteMod \div 2 = h
  BY <1>7
<1>10. ShortMod * ByteMod = ByteMod * ShortMod
  BY <1>5
<1> QED
  BY <1>1, <1>4, <1>5, <1>7, <1>8, <1>9, <1>10 DEF q, h

(* The pieces of a word with one byte in some of its places.               *)
Fit(B, S, T, b) ==
  /\ b * B \in 0 .. S - 1 /\ b * S \in 0 .. T - 1
  /\ S * b + b < S * S
  /\ T * b + b * B < S * S
  /\ T * b + b * S = S * (b * B + b)
  /\ S * (b * B + b) + b * B < S * S
  /\ S * (b * B + b) + b * B = B * (S * b + B * b + b)
  /\ T * b + b * S + b * B + b < S * S
  /\ b * B + b \in Nat /\ S * b + B * b + b \in Nat
  /\ b * B * (1 + S) = T * b + b * B
  /\ b * (1 + S) = S * b + b
  /\ b * ((1 + B) * (1 + S)) = T * b + b * S + b * B + b
  /\ b * (B * (1 + S)) = T * b + b * B

LEMMA PlacesFit ==
  ASSUME NEW B \in Nat \ {0}, NEW S \in Nat, NEW T \in Nat, NEW b \in 0 .. B - 1,
         S = B * B, T = B * S
  PROVE  Fit(B, S, T, b)
<1> DEFINE u == b * B
<1>1. b \in Nat /\ b <= B - 1 /\ b + 1 <= B
  OBVIOUS
<1>2. u \in Nat /\ u + B <= S
  <2>1. (b + 1) * B <= B * B
    BY <1>1
  <2>2. (b + 1) * B = u + B
    BY <1>1
  <2> QED
    BY <1>1, <2>1, <2>2
<1>3. T * b = S * u
  <2>1. T * b = (B * S) * b /\ (B * S) * b = S * (b * B)
    BY <1>1
  <2> QED
    BY <2>1
<1>4. b * S = S * b /\ S * b \in Nat /\ S * u \in Nat
  BY <1>1, <1>2
<1>5. B * S = S * B /\ S * b + S <= T
  <2>1. S * (b + 1) <= S * B
    BY <1>1
  <2>2. S * (b + 1) = S * b + S
    BY <1>1
  <2> QED
    BY <2>1, <2>2
<1>6. S > 0 /\ B <= S
  <2>1. B * 1 <= B * B
    OBVIOUS
  <2> QED
    BY <2>1
<1>7. S * (u + B) <= S * S /\ S * (u + B) = S * u + S * B
  <2>1. S * (u + B) <= S * S
    BY <1>2
  <2> QED
    BY <1>2, <2>1
<1>8. S * (u + b) = S * u + S * b
  BY <1>1, <1>2
<1>9. B * (S * b + B * b + b) = S * u + S * b + u
  <2>1. B * (S * b + B * b + b) = B * (S * b) + B * (B * b) + B * b
    BY <1>1, <1>4
  <2>2. B * (S * b) = S * (b * B) /\ B * (B * b) = (B * B) * b /\ B * b = b * B
    BY <1>1
  <2> QED
    BY <1>4, <2>1, <2>2
<1>10. b * (1 + S) = S * b + b /\ b * B * (1 + S) = S * u + u
  <2>1. b * (1 + S) = b + b * S /\ u * (1 + S) = u + u * S /\ u * S = S * u
    BY <1>1, <1>2
  <2> QED
    BY <1>1, <1>2, <1>4, <2>1
<1>11. b * (B * (1 + S)) = b * B * (1 + S)
  BY <1>1
<1>12. b * ((1 + B) * (1 + S)) = S * u + S * b + u + b
  <2>1. b * ((1 + B) * (1 + S)) = b * (1 + S) + b * B * (1 + S)
    <3>1. (1 + B) * (1 + S) = (1 + S) + B * (1 + S)
      OBVIOUS
    <3>2. b * ((1 + S) + B * (1 + S)) = b * (1 + S) + b * (B * (1 + S))
      BY <1>1
    <3> QED
      BY <1>11, <3>1, <3>2
  <2> QED
    BY <1>1, <1>2, <1>4, <1>10, <2>1
<1>13. B * b \in Nat
  BY <1>1
<1> HIDE DEF u
<1> DEFINE sb == S * b
           su == S * u
           ss == S * S
           sB == S * B
<1>14. sb \in Nat /\ su \in Nat /\ ss \in Nat /\ sB \in Nat
  BY <1>1, <1>2
<1>15. su + sB <= ss /\ sb + S <= sB /\ u + B <= S /\ b + 1 <= B
  BY <1>1, <1>2, <1>5, <1>7
<1>16. sb <= su + sb
  BY <1>14
<1> HIDE DEF sb, su, ss, sB
<1>17. sb + b < ss /\ su + u < ss /\ su + sb + u < ss /\ su + sb + u + b < ss /\ sb < T
  BY <1>1, <1>2, <1>5, <1>6, <1>14, <1>15 DEF sb, sB
<1>18. /\ u \in 0 .. S - 1 /\ b * S \in 0 .. T - 1
  BY <1>1, <1>2, <1>4, <1>14, <1>17 DEF sb
<1>19. S * b + b < S * S /\ S * u + u < S * S /\ S * u + S * b + u < S * S
       /\ S * u + S * b + u + b < S * S
  BY <1>17 DEF sb, su, ss
<1>20. u + b \in Nat /\ S * b + B * b + b \in Nat
  BY <1>1, <1>2, <1>4, <1>13
<1> QED
  BY <1>3, <1>4, <1>8, <1>9, <1>10, <1>11, <1>12, <1>18, <1>19, <1>20 DEF u, Fit

(* thumb_expand_imm gives the word the architecture says.                  *)
THEOREM ImmediateExact ==
  ASSUME NEW i, i.imm \in 0 .. ByteMod - 1, i.rot \in Amount, i.rotated \in BOOLEAN, Modified(i)
  PROVE  thumb_expand_imm(i) = ExpandImm(i) /\ ExpandImm(i) \in Word
<1>1. PICK q \in Nat \ {0} :
        /\ q = Width \div 4 /\ q < Width
        /\ ByteMod = 2 ^ q /\ ShortMod = 2 ^ (2 * q) /\ ByteAt(3) = 2 ^ (3 * q)
        /\ ByteMod \div 2 = 2 ^ (q - 1) /\ ByteMod = 2 * 2 ^ (q - 1) /\ 2 ^ (q - 1) \in Nat \ {0}
        /\ ByteMod \in Nat \ {0} /\ ShortMod = ByteMod * ByteMod
        /\ ByteAt(3) = ByteMod * ShortMod /\ Mod = ShortMod * ShortMod
  BY PlaceFacts
<1> DEFINE b == i.imm
           B == ByteMod
           S == ShortMod
           T == ByteAt(3)
<1>2. B \in Nat \ {0} /\ S \in Nat /\ T \in Nat /\ b \in 0 .. B - 1 /\ S = B * B /\ T = B * S
  BY <1>1
<1>3. 2 * q \in Nat /\ 3 * q \in Nat /\ q \in Nat /\ q - 1 \in Nat
  BY <1>1
<1>4. B = 2 ^ q /\ S = 2 ^ (2 * q) /\ T = 2 ^ (3 * q) /\ Mod = S * S
  BY <1>1
<1>7. OrAdds(2 ^ (q - 1)) /\ OrAdds(B) /\ OrAdds(S) /\ OrAdds(T)
  <2>1. /\ OrAdds(2 ^ (q - 1)) /\ OrAdds(2 ^ q) /\ OrAdds(2 ^ (2 * q))
        /\ OrAdds(2 ^ (3 * q))
    BY <1>3, OrPlaced
  <2> QED
    BY <1>4, <2>1
<1>5. CASE i.rotated
  <2> DEFINE h == 2 ^ (q - 1)
             v == h + b
  <2>1. b < h /\ h = ByteMod \div 2 /\ h \in Nat \ {0} /\ B = 2 * h /\ i.rot >= q
    BY <1>1, <1>5 DEF Modified
  <2>2. B <= Mod
    BY ByteFacts
  <2>3. h * 1 + b < Mod /\ b \in 0 .. h - 1 /\ h * 1 = h /\ v \in Nat /\ v < Mod
    BY <1>2, <2>1, <2>2, WidthFacts
  <2>4. Or(h, b) = v
    <3>1. Or(h * 1, b) = h * 1 + b
      BY <1>7, <2>1, <2>3 DEF OrAdds
    <3> QED
      BY <2>3, <3>1
  <2>5. v \in Word
    BY <2>3, WidthFacts DEF Word
  <2>6. i.rot \in Nat /\ i.rot % Width = i.rot /\ i.rot # 0
    BY <1>1, <2>1, WidthFacts DEF Amount
  <2> HIDE DEF h, v
  <2>7. vita_ror(v, i.rot) = Or(v \div 2 ^ i.rot, Wrap(v * 2 ^ (Width - i.rot)))
    BY <2>6 DEF vita_ror
  <2>8. thumb_expand_imm(i) = vita_ror(v, i.rot)
    BY <1>5, <2>1, <2>4, <2>7 DEF thumb_expand_imm
  <2>9. Shift("ror", v, i.rot, FALSE).val = vita_ror(v, i.rot) /\ vita_ror(v, i.rot) \in Word
    BY <2>5, <2>6, ShiftRound
  <2>10. ExpandImm(i) = Shift("ror", v, i.rot, FALSE).val
    BY <1>5, <2>1 DEF ExpandImm, v
  <2> QED
    BY <2>8, <2>9, <2>10
<1>6. CASE ~i.rotated
  <2>1. i.rot \in 0 .. 3
    BY <1>6 DEF Modified
  <2>2. ExpandImm(i) = b * Places[i.rot + 1]
    BY <1>6 DEF ExpandImm
  <2> HIDE DEF b, B, S, T
  <2>3. /\ b * B \in 0 .. S - 1 /\ b * S \in 0 .. T - 1
        /\ S * b + b < S * S
        /\ T * b + b * B < S * S
        /\ T * b + b * S = S * (b * B + b)
        /\ S * (b * B + b) + b * B < S * S
        /\ S * (b * B + b) + b * B = B * (S * b + B * b + b)
        /\ T * b + b * S + b * B + b < S * S
        /\ b * B + b \in Nat /\ S * b + B * b + b \in Nat
        /\ b * (1 + S) = S * b + b
        /\ b * ((1 + B) * (1 + S)) = T * b + b * S + b * B + b
        /\ b * (B * (1 + S)) = T * b + b * B
    <3>1. Fit(B, S, T, b)
      BY <1>2, PlacesFit, Zenon
    <3> QED
      BY <3>1, Zenon DEF Fit
  <2>4. b * S = S * b /\ b * T = T * b /\ b \in Nat /\ b < Mod /\ b * S \in Nat /\ b * B \in Nat
        /\ T * b \in Nat
    <3>1. B <= Mod
      BY ByteFacts DEF B
    <3> QED
      BY <1>2, <3>1, WidthFacts
  <2>5. CASE i.rot = 0
    <3>1. thumb_expand_imm(i) = b
      BY <1>6, <2>5 DEF thumb_expand_imm, b
    <3>2. ExpandImm(i) = b * 1
      BY <2>2, <2>5 DEF Places
    <3> QED
      BY <2>4, <3>1, <3>2, WidthFacts DEF Word
  <2>6. CASE i.rot = 1
    <3>1. thumb_expand_imm(i) = Or(S * b, b)
      BY <1>6, <2>4, <2>6 DEF thumb_expand_imm, b, S
    <3>2. b \in 0 .. S - 1 /\ S * b + b < Mod
      <4>1. b <= b * B
        BY <1>2, <2>4
      <4> QED
        BY <1>2, <1>4, <2>3, <2>4, <4>1
    <3>3. Or(S * b, b) = S * b + b
      BY <1>7, <2>3, <2>4, <3>2 DEF OrAdds
    <3>4. ExpandImm(i) = b * (1 + S)
      BY <2>2, <2>6 DEF Places, S
    <3> QED
      BY <2>3, <2>4, <3>1, <3>2, <3>3, <3>4, WidthFacts DEF Word
  <2>7. CASE i.rot = 2
    <3>1. thumb_expand_imm(i) = Or(T * b, b * B)
      BY <1>6, <2>4, <2>7 DEF thumb_expand_imm, b, B, T
    <3>2. b * B \in 0 .. T - 1 /\ T * b + b * B < Mod
      <4>1. S <= T
        BY <1>2
      <4> QED
        BY <1>2, <1>4, <2>3, <2>4, <4>1
    <3>3. Or(T * b, b * B) = T * b + b * B
      BY <1>7, <2>3, <2>4, <3>2 DEF OrAdds
    <3>4. ExpandImm(i) = b * (B * (1 + S))
      BY <2>2, <2>7 DEF Places, S, B
    <3> QED
      BY <2>3, <2>4, <3>1, <3>2, <3>3, <3>4, WidthFacts DEF Word
  <2>8. CASE i.rot = 3
    <3>1. thumb_expand_imm(i) = Or(Or(Or(T * b, b * S), b * B), b)
      BY <1>6, <2>4, <2>8 DEF thumb_expand_imm, b, B, S, T
    <3> DEFINE w == b * B + b
               y == S * b + B * b + b
    <3>2. /\ T * b + b * S < Mod /\ S * w + b * B < Mod /\ B * y + b < Mod
          /\ w \in Nat /\ y \in Nat /\ T * b + b * S = S * w /\ S * w + b * B = B * y
      BY <1>2, <1>4, <2>3, <2>4
    <3> HIDE DEF w, y
    <3>3. Or(T * b, b * S) = T * b + b * S
      BY <1>7, <2>3, <2>4, <3>2 DEF OrAdds
    <3>4. Or(S * w, b * B) = S * w + b * B
      BY <1>7, <2>3, <2>4, <3>2 DEF OrAdds
    <3>5. Or(B * y, b) = B * y + b
      BY <1>2, <1>7, <3>2 DEF OrAdds
    <3>6. ExpandImm(i) = b * ((1 + B) * (1 + S))
      BY <2>2, <2>8 DEF Places, S, B
    <3>7. B * y + b = T * b + b * S + b * B + b
      BY <3>2
    <3> QED
      BY <1>4, <2>3, <2>4, <3>1, <3>2, <3>3, <3>4, <3>5, <3>6, <3>7, WidthFacts DEF Word
  <2> QED
    BY <2>1, <2>5, <2>6, <2>7, <2>8
<1> QED
  BY <1>5, <1>6

(* The halves of a word: MOVT. *)
LEMMA HalvesJoined ==
  ASSUME NEW v \in Word, NEW imm \in 0 .. ShortMod - 1
  PROVE  /\ Or(v % ShortMod, Wrap(imm * ShortMod)) = (v % ShortMod) + imm * ShortMod
         /\ (v % ShortMod) + imm * ShortMod \in Word
<1> DEFINE k == 2 * (Width \div 4)
           S == ShortMod
           x == v % S
           y == imm * S
<1>1. k \in Nat /\ S = 2 ^ k /\ S \in Nat \ {0} /\ S <= Mod /\ S * S = Mod
  <2>1. k \in Nat /\ S = 2 ^ k
    BY WidthAssumption DEF ShortMod, ByteAt
  <2>2. k + k = Width
    BY WidthAssumption
  <2>3. 2 ^ (k + k) = 2 ^ k * 2 ^ k
    BY <2>1, PowerSum
  <2>4. S \in Nat \ {0} /\ S <= Mod
    BY ByteFacts
  <2> QED
    BY <2>1, <2>2, <2>3, <2>4 DEF Mod
<1> HIDE DEF k, S
<1>2. x \in 0 .. S - 1 /\ x \in Word
  <2>1. v \in Int
    BY WrapWord
  <2> QED
    BY <1>1, <2>1, PartType, Zenon
<1>3. y = S * imm /\ imm \in Nat /\ imm <= S - 1
  BY <1>1 DEF S
<1>4. y \in Nat /\ y <= Mod - S
  <2>1. S * imm <= S * (S - 1) /\ S * imm \in Nat
    BY <1>1, <1>3
  <2>2. S * (S - 1) = S * S - S
    BY <1>1
  <2> QED
    BY <1>1, <1>3, <2>1, <2>2
<1>5. y \in Word /\ x + y \in Word
  BY <1>1, <1>2, <1>4, WidthFacts DEF Word
<1>6. Wrap(y) = y
  BY <1>5, WrapWord
<1>7. ASSUME NEW i \in 0 .. Width - 1
      PROVE  BitAt(x, i) = 0 \/ BitAt(y, i) = 0
  <2>1. i \in Nat
    BY WidthFacts
  <2>2. CASE i < k
    <3>1. BitAt(2 ^ k * imm, i) = 0
      BY <1>1, <1>3, <2>1, <2>2, MultipleBits
    <3> QED
      BY <1>1, <1>3, <3>1
  <2>3. CASE ~(i < k)
    <3>1. x \in 0 .. 2 ^ k - 1 /\ i >= k
      BY <1>1, <1>2, <2>1, <2>3
    <3>2. BitAt(x, i) = 0
      BY <1>1, <2>1, <3>1, SmallBits
    <3> QED
      BY <3>2
  <2> QED
    BY <2>2, <2>3
<1> HIDE DEF x, y
<1>8. Or(x, y) = x + y
  BY <1>2, <1>5, <1>7, OrApart
<1> QED
  BY <1>5, <1>6, <1>8 DEF x, y, S

--------------------------------------------------------------------------------
(* The flag helpers and the conditions of branches. *)

(* Words as numbers, for the flags. *)
LEMMA WordType ==
  /\ Half \in Nat /\ Mod \in Nat /\ Half > 0 /\ Mod = 2 * Half
  /\ \A x \in Word : x \in Nat /\ x < Mod
  BY WidthFacts DEF Word

(* A sum of two words and a carry is one word, or one and a whole turn.    *)
LEMMA WrapSum ==
  ASSUME NEW s \in Nat, s < 2 * Mod
  PROVE  Wrap(s) = IF s < Mod THEN s ELSE s - Mod
<1> DEFINE M == Mod
<1>1. M \in Nat \ {0}
  BY WordType
<1> HIDE DEF M
<1>2. s % M = IF s < M THEN s ELSE s - M
  <2>1. CASE s < M
    BY <1>1, <2>1
  <2>2. CASE ~(s < M)
    <3>1. (s - M) + M = s /\ s - M \in Nat /\ s - M < M
      BY <1>1, <2>2 DEF M
    <3>2. (s - M) % M = s - M
      BY <1>1, <3>1
    <3>3. s % M = (s - M) % M
      BY <1>1, <3>1
    <3> QED
      BY <2>2, <3>2, <3>3
  <2> QED
    BY <2>1, <2>2
<1> QED
  BY <1>2 DEF Wrap, M

(* And a difference is one word, or lacks a whole turn.                    *)
LEMMA WrapDifference ==
  ASSUME NEW d \in Int, -Mod <= d, d < Mod
  PROVE  Wrap(d) = IF d >= 0 THEN d ELSE d + Mod
<1> DEFINE M == Mod
<1>1. M \in Nat \ {0} /\ -M <= d /\ d < M
  BY WordType
<1> HIDE DEF M
<1>2. d % M = IF d >= 0 THEN d ELSE d + M
  <2>1. CASE d >= 0
    BY <1>1, <2>1
  <2>2. CASE d < 0
    <3>1. d + M \in Nat /\ d + M < M
      BY <1>1, <2>2
    <3>2. (d + M) % M = d + M
      BY <1>1, <3>1
    <3>3. d % M = (d + M) % M
      BY <1>1
    <3> QED
      BY <2>2, <3>2, <3>3
  <2> QED
    BY <1>1, <2>1, <2>2
<1> QED
  BY <1>2 DEF Wrap, M

(* The overflow of the architecture: the signed sum is none.               *)
LEMMA SumIs ==
  ASSUME NEW a \in Word, NEW b \in Word, NEW k \in {0, 1}
  PROVE  /\ a + b + k \in Nat /\ a + b + k < 2 * Mod
         /\ AddWithCarry(a, b, k).val = IF a + b + k < Mod THEN a + b + k ELSE a + b + k - Mod
         /\ AddWithCarry(a, b, k).c = (a + b + k >= Mod)
         /\ AddWithCarry(a, b, k).v =
              (Signed(AddWithCarry(a, b, k).val) # Signed(a) + Signed(b) + k)
<1>1. a + b + k \in Nat /\ a + b + k < 2 * Mod
  BY WordType
<1> DEFINE t == a + b + k
<1>2. Wrap(t) = IF t < Mod THEN t ELSE t - Mod
  <2> HIDE DEF t
  <2> QED
    BY <1>1, WrapSum DEF t
<1>3. AddWithCarry(a, b, k) =
        [val |-> Wrap(t), c |-> t >= Mod, v |-> Signed(Wrap(t)) # Signed(a) + Signed(b) + k]
  BY DEF AddWithCarry
<1> HIDE DEF t
<1>4. /\ AddWithCarry(a, b, k).val = Wrap(t) /\ AddWithCarry(a, b, k).c = (t >= Mod)
      /\ AddWithCarry(a, b, k).v = (Signed(Wrap(t)) # Signed(a) + Signed(b) + k)
  BY <1>3
<1>5. a \in Nat /\ b \in Nat /\ k \in Nat /\ Mod \in Nat
  BY WordType
<1> QED
  BY <1>1, <1>2, <1>4, <1>5 DEF t

(* Signed numbers: what a word and its complement stand for.               *)
LEMMA SignedIs ==
  ASSUME NEW x \in Word
  PROVE  /\ Signed(x) = IF x < Half THEN x ELSE x - 2 * Half
         /\ Sign(x) = IF x < Half THEN 0 ELSE 1
         /\ Signed(Not(x)) = -1 - Signed(x)
  BY WordType DEF Signed, Sign, Not, Word

(* Not is a subtraction. *)
LEMMA NotType ==
  ASSUME NEW b \in Word
  PROVE  Not(b) \in Word /\ Not(b) = Mod - 1 - b
  BY WordType DEF Not, Word

(* A subtraction is an addition of the complement.                         *)
LEMMA DifferenceIs ==
  ASSUME NEW a \in Word, NEW b \in Word, NEW k \in {0, 1}
  PROVE  LET s == AddWithCarry(a, Not(b), k)
             d == a - b - (1 - k)
         IN  /\ s.val = (IF d >= 0 THEN d ELSE d + Mod) /\ s.val \in Word
             /\ s.c = (d >= 0)
             /\ s.v = (Signed(s.val) # Signed(a) - Signed(b) - (1 - k))
<1> DEFINE n == Not(b)
           s == AddWithCarry(a, n, k)
           d == a - b - (1 - k)
<1>1. n \in Word /\ n = Mod - 1 - b /\ Signed(n) = -1 - Signed(b)
  BY NotType, SignedIs
<1> HIDE DEF n
<1>2. PICK t : /\ t = a + n + k
               /\ s.val = IF t < Mod THEN t ELSE t - Mod
               /\ s.c = (t >= Mod)
               /\ s.v = (Signed(s.val) # Signed(a) + Signed(n) + k)
  <2>1. n \in Nat /\ a \in Nat /\ k \in Nat /\ Mod \in Nat
    BY <1>1, WordType
  <2> QED
    BY <1>1, <2>1, SumIs
<1>3. Signed(a) \in Int /\ Signed(b) \in Int
  BY SignedIs, WordType
<1> HIDE DEF s
<1>4. t = d + Mod
  BY <1>1, <1>2, WordType
<1>5. d \in Int /\ d >= -Mod /\ d < Mod
  BY WordType
<1> HIDE DEF d
<1>6. s.val = (IF d >= 0 THEN d ELSE d + Mod) /\ s.c = (d >= 0)
  <2>1. t >= Mod <=> d >= 0
    BY <1>4, <1>5, WordType
  <2>2. t < Mod <=> ~(d >= 0)
    BY <1>4, <1>5, WordType
  <2>3. t - Mod = d
    BY <1>4, <1>5, WordType
  <2>4. s.val = IF d >= 0 THEN d ELSE d + Mod
    BY <1>2, <1>4, <2>2, <2>3
  <2>5. s.c = (d >= 0)
    BY <1>2, <2>1
  <2> QED
    BY <2>4, <2>5
<1>7. s.val \in Word
  BY <1>5, <1>6, WordType DEF Word
<1>8. Signed(a) + Signed(n) + k = Signed(a) - Signed(b) - (1 - k)
  BY <1>1, <1>3
<1>9. s.v = (Signed(s.val) # Signed(a) - Signed(b) - (1 - k))
  BY <1>2, <1>8
<1> QED
  BY <1>6, <1>7, <1>9 DEF s, d, n

--------------------------------------------------------------------------------
(* The flags of the C and the flags of the architecture.                   *)

ArchFlags(x, y, k) ==
  LET s == AddWithCarry(x, y, k) IN Flags(s.val, s.c, s.v)

(* ADD and CMN.                                                            *)
THEOREM AddFlagsExact ==
  ASSUME NEW a \in Word, NEW b \in Word
  PROVE  vita_flags_add(a, b, Wrap(a + b)) = ArchFlags(a, b, 0)
<1> DEFINE s == AddWithCarry(a, b, 0)
<1>1. s.val = Wrap(a + b)
  BY WordType DEF AddWithCarry
<1>2. (s.val < a) = s.c
  BY SumIs, WordType
<1>3. (SignsDiffer(a, s.val) /\ SignsDiffer(b, s.val)) = s.v
  BY SumIs, WordType DEF SignsDiffer, Sign, Signed
<1> QED
  BY <1>1, <1>2, <1>3 DEF vita_flags_add, ArchFlags

(* ADC: the test for the carry depends on the carry that came in.          *)
THEOREM AdcFlagsExact ==
  ASSUME NEW a \in Word, NEW b \in Word, NEW k \in {0, 1}
  PROVE  vita_flags_adc(a, b, k, Wrap(a + b + k)) = ArchFlags(a, b, k)
<1> DEFINE s == AddWithCarry(a, b, k)
<1>1. s.val = Wrap(a + b + k)
  BY DEF AddWithCarry
<1>2. (IF k = 1 THEN s.val <= a ELSE s.val < a) = s.c
  BY SumIs, WordType
<1>3. (SignsDiffer(a, s.val) /\ SignsDiffer(b, s.val)) = s.v
  BY SumIs, WordType DEF SignsDiffer, Sign, Signed
<1> QED
  BY <1>1, <1>2, <1>3 DEF vita_flags_adc, ArchFlags

(* SUB and CMP: no borrow is a carry.                                      *)
THEOREM SubFlagsExact ==
  ASSUME NEW a \in Word, NEW b \in Word
  PROVE  vita_flags_sub(a, b, Wrap(a - b)) = ArchFlags(a, Not(b), 1)
<1> DEFINE s == AddWithCarry(a, Not(b), 1)
<1>1. /\ s.val = (IF a - b >= 0 THEN a - b ELSE a - b + Mod) /\ s.val \in Word
      /\ s.c = (a - b >= 0)
      /\ s.v = (Signed(s.val) # Signed(a) - Signed(b))
  <2>1. a - b - (1 - 1) = a - b /\ Signed(a) - Signed(b) - (1 - 1) = Signed(a) - Signed(b)
    BY WordType, SignedIs
  <2> QED
    BY <2>1, DifferenceIs
<1> HIDE DEF s
<1>2. Wrap(a - b) = IF a - b >= 0 THEN a - b ELSE a - b + Mod
  BY WordType, WrapDifference
<1>3. (a >= b) = s.c
  BY <1>1, WordType
<1>4. (SignsDiffer(a, b) /\ SignsDiffer(a, s.val)) = s.v
  BY <1>1, SignedIs, WordType DEF SignsDiffer
<1>5. ArchFlags(a, Not(b), 1) = Flags(s.val, s.c, s.v)
  BY DEF ArchFlags, s
<1> QED
  BY <1>1, <1>2, <1>3, <1>4, <1>5 DEF vita_flags_sub

(* SBC: the C compares with the operand and the borrow together, which is  *)
(* exact unless the two wrap to zero; the overflow also unless they cross  *)
(* into the negative.  These are the gaps BorrowWraps and                  *)
(* BorrowChangesSign, and nothing else is.                                 *)
THEOREM SbcFlagsExact ==
  ASSUME NEW a \in Word, NEW b \in Word, NEW k \in {0, 1}
  PROVE  LET c == vita_flags_sub(a, Wrap(b + (1 - k)), Wrap(a - b - (1 - k)))
             m == ArchFlags(a, Not(b), k)
         IN  /\ c.n = m.n /\ c.z = m.z
             /\ k = 1 \/ b # Mod - 1 => c.c = m.c
             /\ k = 1 \/ b \notin {Half - 1, Mod - 1} => c.v = m.v
<1> DEFINE y == Wrap(b + (1 - k))
           d == a - b - (1 - k)
           res == Wrap(d)
           s == AddWithCarry(a, Not(b), k)
<1>1. /\ s.val = (IF d >= 0 THEN d ELSE d + Mod) /\ s.val \in Word
      /\ s.c = (d >= 0)
      /\ s.v = (Signed(s.val) # Signed(a) - Signed(b) - (1 - k))
  BY DifferenceIs
<1> HIDE DEF s
<1>2. d \in Int /\ -Mod <= d /\ d < Mod
  BY WordType
<1>3. res = s.val
  <2> HIDE DEF d
  <2> QED
    BY <1>1, <1>2, WrapDifference
<1> HIDE DEF res
<1>4. y = (IF b + (1 - k) < Mod THEN b + (1 - k) ELSE 0) /\ y \in Word
  <2> DEFINE t == b + (1 - k)
  <2>1. t \in Nat /\ t <= Mod
    BY WordType
  <2>2. Wrap(t) = IF t < Mod THEN t ELSE t - Mod
    <3> HIDE DEF t
    <3> QED
      BY <2>1, WrapSum, WordType
  <2>3. y = (IF t < Mod THEN t ELSE 0)
    BY <2>1, <2>2, WordType
  <2> HIDE DEF y, t
  <2>4. y \in Word
    BY <2>1, <2>3, WordType DEF Word
  <2> QED
    BY <2>3, <2>4 DEF t
<1> HIDE DEF y
<1>5. k = 1 \/ b # Mod - 1 => y = b + (1 - k)
  BY <1>4, WordType
<1>6. k = 1 \/ b # Mod - 1 => (a >= y) = s.c
  BY <1>1, <1>5, WordType
<1>7. k = 1 \/ b \notin {Half - 1, Mod - 1} =>
        (SignsDiffer(a, y) /\ SignsDiffer(a, s.val)) = s.v
  <2>1. SUFFICES ASSUME k = 1 \/ b \notin {Half - 1, Mod - 1}
                 PROVE  (SignsDiffer(a, y) /\ SignsDiffer(a, s.val)) = s.v
    OBVIOUS
  <2>2. y = b + (1 - k)
    BY <2>1, <1>5
  <2>3. Signed(y) = Signed(b) + (1 - k)
    BY <1>4, <2>1, <2>2, SignedIs, WordType
  <2>4. s.v = (Signed(s.val) # Signed(a) - Signed(y))
    <3>1. Signed(a) \in Int /\ Signed(b) \in Int
      BY SignedIs, WordType
    <3>2. Signed(a) - Signed(b) - (1 - k) = Signed(a) - Signed(y)
      BY <2>3, <3>1
    <3> QED
      BY <1>1, <3>2
  <2>5. s.val = IF a - y >= 0 THEN a - y ELSE a - y + Mod
    BY <1>1, <2>2, WordType
  <2> HIDE DEF d
  <2> QED
    BY <1>1, <1>4, <2>4, <2>5, SignedIs, WordType DEF SignsDiffer
<1>8. vita_flags_sub(a, y, res) = Flags(res, a >= y, SignsDiffer(a, y) /\ SignsDiffer(a, res))
  BY DEF vita_flags_sub
<1>9. ArchFlags(a, Not(b), k) = Flags(s.val, s.c, s.v)
  BY DEF ArchFlags, s
<1> QED
  BY <1>3, <1>6, <1>7, <1>8, <1>9 DEF Flags, y, res

--------------------------------------------------------------------------------
(* vita_cond is the table of conditions.                                   *)
THEOREM ConditionExact ==
  ASSUME NEW cc \in 0 .. 15, NEW f, \A x \in Flag : f[x] \in BOOLEAN
  PROVE  vita_cond(cc, f) = Condition(cc, f)
<1>1. f.n \in BOOLEAN /\ f.z \in BOOLEAN /\ f.c \in BOOLEAN /\ f.v \in BOOLEAN
  BY DEF Flag
<1>2. cc \in {0, 1, 2, 3, 4, 5, 6, 7, 8, 9, 10, 11, 12, 13, 14, 15}
  OBVIOUS
<1>3. CASE cc = 0
  BY <1>1, <1>3 DEF vita_cond, Condition
<1>4. CASE cc = 1
  BY <1>1, <1>4 DEF vita_cond, Condition
<1>5. CASE cc = 2
  BY <1>1, <1>5 DEF vita_cond, Condition
<1>6. CASE cc = 3
  BY <1>1, <1>6 DEF vita_cond, Condition
<1>7. CASE cc = 4
  BY <1>1, <1>7 DEF vita_cond, Condition
<1>8. CASE cc = 5
  BY <1>1, <1>8 DEF vita_cond, Condition
<1>9. CASE cc = 6
  BY <1>1, <1>9 DEF vita_cond, Condition
<1>10. CASE cc = 7
  BY <1>1, <1>10 DEF vita_cond, Condition
<1>11. CASE cc = 8
  BY <1>1, <1>11 DEF vita_cond, Condition
<1>12. CASE cc = 9
  BY <1>1, <1>12 DEF vita_cond, Condition
<1>13. CASE cc = 10
  BY <1>1, <1>13 DEF vita_cond, Condition
<1>14. CASE cc = 11
  BY <1>1, <1>14 DEF vita_cond, Condition
<1>15. CASE cc = 12
  BY <1>1, <1>15 DEF vita_cond, Condition
<1>16. CASE cc = 13
  BY <1>1, <1>16 DEF vita_cond, Condition
<1>17. CASE cc = 14
  BY <1>1, <1>17 DEF vita_cond, Condition
<1>18. CASE cc = 15
  BY <1>1, <1>18 DEF vita_cond, Condition
<1> QED
  BY <1>2, <1>3, <1>4, <1>5, <1>6, <1>7, <1>8, <1>9, <1>10, <1>11, <1>12, <1>13, <1>14,
     <1>15, <1>16, <1>17, <1>18

(* The last two conditions read no flag. *)
LEMMA AlwaysTaken ==
  ASSUME NEW cc \in {14, 15}, NEW f, NEW g
  PROVE  vita_cond(cc, f) = vita_cond(cc, g)
<1>1. CASE cc = 14
  BY <1>1 DEF vita_cond
<1>2. CASE cc = 15
  BY <1>2 DEF vita_cond
<1> QED
  BY <1>1, <1>2

(* Where the C keeps the machine's state, a branch goes the machine's way  *)
(* unless it reads a flag in doubt: emit_term prints vita_cond.            *)
THEOREM BranchesFollow ==
  ASSUME StateKept, \A x \in Flag : cpu.f[x] \in BOOLEAN /\ arm.f[x] \in BOOLEAN
  PROVE  BranchesKept
<1> SUFFICES ASSUME NEW cc \in 0 .. 15, FlagsRead(cc) \cap doubt = {}
             PROVE  vita_cond(cc, cpu.f) = Condition(cc, arm.f)
  BY DEF BranchesKept
<1>1. \A x \in FlagsRead(cc) : x \in Flag => cpu.f[x] = arm.f[x]
  BY DEF StateKept
<1>0. /\ cpu.f.n \in BOOLEAN /\ cpu.f.z \in BOOLEAN /\ cpu.f.c \in BOOLEAN /\ cpu.f.v \in BOOLEAN
      /\ arm.f.n \in BOOLEAN /\ arm.f.z \in BOOLEAN /\ arm.f.c \in BOOLEAN /\ arm.f.v \in BOOLEAN
  BY DEF Flag
<1>2. vita_cond(cc, arm.f) = Condition(cc, arm.f)
  BY ConditionExact
<1>3. cc \in {0, 1, 2, 3, 4, 5, 6, 7, 8, 9, 10, 11, 12, 13, 14, 15}
  OBVIOUS
<1>4. CASE cc \in {0, 1}
  <2>1. FlagsRead(cc) = {"z"}
    BY <1>4 DEF FlagsRead
  <2>2. cpu.f.z = arm.f.z
    BY <1>1, <2>1 DEF Flag
  <2>3. vita_cond(cc, cpu.f) = vita_cond(cc, arm.f)
    <3>1. CASE cc = 0
      BY <1>0, <3>1, <2>2 DEF vita_cond
    <3>2. CASE cc = 1
      BY <1>0, <3>2, <2>2 DEF vita_cond
    <3> QED
      BY <1>4, <3>1, <3>2
  <2> QED
    BY <1>2, <2>3
<1>5. CASE cc \in {2, 3}
  <2>1. FlagsRead(cc) = {"c"}
    BY <1>5 DEF FlagsRead
  <2>2. cpu.f.c = arm.f.c
    BY <1>1, <2>1 DEF Flag
  <2>3. vita_cond(cc, cpu.f) = vita_cond(cc, arm.f)
    <3>1. CASE cc = 2
      BY <1>0, <3>1, <2>2 DEF vita_cond
    <3>2. CASE cc = 3
      BY <1>0, <3>2, <2>2 DEF vita_cond
    <3> QED
      BY <1>5, <3>1, <3>2
  <2> QED
    BY <1>2, <2>3
<1>6. CASE cc \in {4, 5}
  <2>1. FlagsRead(cc) = {"n"}
    BY <1>6 DEF FlagsRead
  <2>2. cpu.f.n = arm.f.n
    BY <1>1, <2>1 DEF Flag
  <2>3. vita_cond(cc, cpu.f) = vita_cond(cc, arm.f)
    <3>1. CASE cc = 4
      BY <1>0, <3>1, <2>2 DEF vita_cond
    <3>2. CASE cc = 5
      BY <1>0, <3>2, <2>2 DEF vita_cond
    <3> QED
      BY <1>6, <3>1, <3>2
  <2> QED
    BY <1>2, <2>3
<1>7. CASE cc \in {6, 7}
  <2>1. FlagsRead(cc) = {"v"}
    BY <1>7 DEF FlagsRead
  <2>2. cpu.f.v = arm.f.v
    BY <1>1, <2>1 DEF Flag
  <2>3. vita_cond(cc, cpu.f) = vita_cond(cc, arm.f)
    <3>1. CASE cc = 6
      BY <1>0, <3>1, <2>2 DEF vita_cond
    <3>2. CASE cc = 7
      BY <1>0, <3>2, <2>2 DEF vita_cond
    <3> QED
      BY <1>7, <3>1, <3>2
  <2> QED
    BY <1>2, <2>3
<1>8. CASE cc \in {8, 9}
  <2>1. FlagsRead(cc) = {"c", "z"}
    BY <1>8 DEF FlagsRead
  <2>2. cpu.f.c = arm.f.c /\ cpu.f.z = arm.f.z
    BY <1>1, <2>1 DEF Flag
  <2>3. vita_cond(cc, cpu.f) = vita_cond(cc, arm.f)
    <3>1. CASE cc = 8
      BY <1>0, <3>1, <2>2 DEF vita_cond
    <3>2. CASE cc = 9
      BY <1>0, <3>2, <2>2 DEF vita_cond
    <3> QED
      BY <1>8, <3>1, <3>2
  <2> QED
    BY <1>2, <2>3
<1>9. CASE cc \in {10, 11}
  <2>1. FlagsRead(cc) = {"n", "v"}
    BY <1>9 DEF FlagsRead
  <2>2. cpu.f.n = arm.f.n /\ cpu.f.v = arm.f.v
    BY <1>1, <2>1 DEF Flag
  <2>3. vita_cond(cc, cpu.f) = vita_cond(cc, arm.f)
    <3>1. CASE cc = 10
      BY <1>0, <3>1, <2>2 DEF vita_cond
    <3>2. CASE cc = 11
      BY <1>0, <3>2, <2>2 DEF vita_cond
    <3> QED
      BY <1>9, <3>1, <3>2
  <2> QED
    BY <1>2, <2>3
<1>10. CASE cc \in {12, 13}
  <2>1. FlagsRead(cc) = {"n", "v", "z"}
    BY <1>10 DEF FlagsRead
  <2>2. cpu.f.n = arm.f.n /\ cpu.f.v = arm.f.v /\ cpu.f.z = arm.f.z
    BY <1>1, <2>1 DEF Flag
  <2>3. vita_cond(cc, cpu.f) = vita_cond(cc, arm.f)
    <3>1. CASE cc = 12
      BY <1>0, <3>1, <2>2 DEF vita_cond
    <3>2. CASE cc = 13
      BY <1>0, <3>2, <2>2 DEF vita_cond
    <3> QED
      BY <1>10, <3>1, <3>2
  <2> QED
    BY <1>2, <2>3
<1>11. CASE cc \in {14, 15}
  <2>1. vita_cond(cc, cpu.f) = vita_cond(cc, arm.f)
    BY <1>11, AlwaysTaken
  <2> QED
    BY <1>2, <2>1
<1> QED
  BY <1>3, <1>4, <1>5, <1>6, <1>7, <1>8, <1>9, <1>10, <1>11

--------------------------------------------------------------------------------
(* What the C computes, operation by operation. *)

FlagRecord == [n : BOOLEAN, z : BOOLEAN, c : BOOLEAN, v : BOOLEAN]
Typed(s) == s.r \in Contents /\ s.f \in FlagRecord /\ s.mem \in Memory

(* Flags g of the C and h of the machine: the same, but for a carry and an *)
(* overflow that may be in doubt.                                          *)
FlagsClose(g, h, carry, over) ==
  /\ g \in FlagRecord /\ h \in FlagRecord /\ g.n = h.n /\ g.z = h.z
  /\ carry \/ g.c = h.c
  /\ over \/ g.v = h.v

(* Equal flags are close, whatever is in doubt. *)
LEMMA SameFlags ==
  ASSUME NEW f \in FlagRecord, NEW carry, NEW over
  PROVE  FlagsClose(f, f, carry, over)
  BY DEF FlagsClose

(* Flags are truth values, and the carry counts as one or zero.            *)
LEMMA CarryIs ==
  ASSUME NEW f \in FlagRecord
  PROVE  /\ f.n \in BOOLEAN /\ f.z \in BOOLEAN /\ f.c \in BOOLEAN /\ f.v \in BOOLEAN
         /\ Carry(f.c) \in {0, 1} /\ (Carry(f.c) = 1 <=> f.c)
  BY DEF FlagRecord, Carry

(* What Flags puts together are flags. *)
LEMMA FlagsType ==
  ASSUME NEW x, NEW c \in BOOLEAN, NEW v \in BOOLEAN
  PROVE  Flags(x, c, v) \in FlagRecord /\ Flags(x, c, v).n = (Sign(x) = 1)
         /\ Flags(x, c, v).z = (x = 0) /\ Flags(x, c, v).c = c /\ Flags(x, c, v).v = v
<1>1. (Sign(x) = 1) \in BOOLEAN /\ (x = 0) \in BOOLEAN
  OBVIOUS
<1> DEFINE n == Sign(x) = 1
           z == x = 0
<1>2. Flags(x, c, v) = [n |-> n, z |-> z, c |-> c, v |-> v]
  BY DEF Flags
<1> HIDE DEF n, z
<1>3. n \in BOOLEAN /\ z \in BOOLEAN
  BY <1>1 DEF n, z
<1>4. Flags(x, c, v) \in FlagRecord
  BY <1>2, <1>3 DEF FlagRecord
<1>5. Flags(x, c, v).n = n /\ Flags(x, c, v).z = z /\ Flags(x, c, v).c = c /\ Flags(x, c, v).v = v
  BY <1>2
<1> QED
  BY <1>4, <1>5 DEF n, z

(* Flags that agree on all four are equal. *)
LEMMA FlagsEqual ==
  ASSUME NEW f \in FlagRecord, NEW g \in FlagRecord, f.n = g.n, f.z = g.z, f.c = g.c, f.v = g.v
  PROVE  f = g
  BY DEF FlagRecord

(* vita_flags_nz leaves carry and overflow. *)
LEMMA FlagsNZ ==
  ASSUME NEW f \in FlagRecord, NEW x
  PROVE  vita_flags_nz(f, x) = Flags(x, f.c, f.v) /\ Flags(x, f.c, f.v) \in FlagRecord
<1> DEFINE n == Sign(x) = 1
           z == x = 0
           g == vita_flags_nz(f, x)
<1>1. g = [f EXCEPT !.n = n, !.z = z]
  BY DEF vita_flags_nz
<1>2. f.c \in BOOLEAN /\ f.v \in BOOLEAN
  BY DEF FlagRecord
<1>3. /\ Flags(x, f.c, f.v) \in FlagRecord /\ Flags(x, f.c, f.v).n = n
      /\ Flags(x, f.c, f.v).z = z /\ Flags(x, f.c, f.v).c = f.c /\ Flags(x, f.c, f.v).v = f.v
  BY <1>2, FlagsType
<1>4. n \in BOOLEAN /\ z \in BOOLEAN
  OBVIOUS
<1> HIDE DEF n, z, g
<1>5. g \in FlagRecord /\ g.n = n /\ g.z = z /\ g.c = f.c /\ g.v = f.v
  <2>1. g \in FlagRecord
    BY <1>1, <1>4, Zenon DEF FlagRecord
  <2>2. g.n = n /\ g.z = z /\ g.c = f.c /\ g.v = f.v
    BY <1>1, Zenon DEF FlagRecord
  <2> QED
    BY <2>1, <2>2
<1>6. g = Flags(x, f.c, f.v)
  BY <1>3, <1>5, FlagsEqual
<1> QED
  BY <1>3, <1>6 DEF g

(* The sum of the architecture, typed. *)
LEMMA AddType ==
  ASSUME NEW x \in Word, NEW y \in Word, NEW k \in {0, 1}
  PROVE  /\ AddWithCarry(x, y, k).val \in Word /\ AddWithCarry(x, y, k).val = Wrap(x + y + k)
         /\ AddWithCarry(x, y, k).c \in BOOLEAN /\ AddWithCarry(x, y, k).v \in BOOLEAN
<1>1. x + y + k \in Int
  BY WordType
<1>2. Wrap(x + y + k) \in Word
  BY <1>1, WrapType
<1> QED
  BY <1>2 DEF AddWithCarry

(* The flags of a sum are booleans. *)
LEMMA ArchType ==
  ASSUME NEW x \in Word, NEW y \in Word, NEW k \in {0, 1}
  PROVE  AddWithCarry(x, y, k).val \in Word /\ ArchFlags(x, y, k) \in FlagRecord
<1> DEFINE s == AddWithCarry(x, y, k)
<1>1. s.val \in Word /\ s.c \in BOOLEAN /\ s.v \in BOOLEAN
  BY AddType
<1>2. ArchFlags(x, y, k) = Flags(s.val, s.c, s.v)
  BY DEF ArchFlags
<1> HIDE DEF s
<1>3. ArchFlags(x, y, k) \in FlagRecord
  BY <1>1, <1>2, FlagsType
<1> QED
  BY <1>1, <1>3 DEF s

(* The value an operation computes: the arm of the case that is its own.   *)
LEMMA ValueIs ==
  ASSUME NEW d, NEW a, NEW c
  PROVE  /\ d.op = "mov" => Value(d, a, c) = operand2(d, a, c)
         /\ d.op = "mvn" => Value(d, a, c) = Not(operand2(d, a, c))
         /\ d.op = "movt" => Value(d, a, c) = Or(c.r[d.rd] % ShortMod, Wrap(d.imm * ShortMod))
         /\ d.op \in {"add", "cmn"} => Value(d, a, c) = Wrap(First(d, a, c) + operand2(d, a, c))
         /\ d.op \in {"sub", "cmp"} => Value(d, a, c) = Wrap(First(d, a, c) - operand2(d, a, c))
         /\ d.op = "adc" => Value(d, a, c) = Wrap(First(d, a, c) + operand2(d, a, c) + Carry(c.f.c))
         /\ d.op = "sbc" =>
              Value(d, a, c) = Wrap(First(d, a, c) - operand2(d, a, c) - (1 - Carry(c.f.c)))
         /\ d.op = "rsb" => Value(d, a, c) = Wrap(0 - First(d, a, c))
         /\ d.op \in {"and", "tst"} => Value(d, a, c) = And(First(d, a, c), operand2(d, a, c))
         /\ d.op = "orr" => Value(d, a, c) = Or(First(d, a, c), operand2(d, a, c))
         /\ d.op = "eor" => Value(d, a, c) = Xor(First(d, a, c), operand2(d, a, c))
         /\ d.op = "bic" => Value(d, a, c) = And(First(d, a, c), Not(operand2(d, a, c)))
         /\ d.op \in Shifts /\ d.hasImm => Value(d, a, c) = Shifted(d.op, Src(d.rm, a, c), d.imm)
         /\ d.op \in Shifts /\ ~d.hasImm =>
              Value(d, a, c) = Shifted(d.op, c.r[d.rd], Src(d.rm, a, c) % CountMod)
         /\ d.op = "mul" => Value(d, a, c) = Wrap(c.r[d.rd] * Src(d.rm, a, c))
         /\ d.op = "adr" => Value(d, a, c) = Wrap(Align(Wrap(a + 4)) + d.imm)
         /\ d.op = "sxtb" => Value(d, a, c) = vita_sxtb(Src(d.rm, a, c))
         /\ d.op = "sxth" => Value(d, a, c) = vita_sxth(Src(d.rm, a, c))
         /\ d.op = "uxtb" => Value(d, a, c) = vita_uxtb(Src(d.rm, a, c))
         /\ d.op = "uxth" => Value(d, a, c) = vita_uxth(Src(d.rm, a, c))
         /\ d.op = "rev" => Value(d, a, c) = vita_rev(Src(d.rm, a, c))
         /\ d.op = "ubfx" => Value(d, a, c) = vita_ubfx(First(d, a, c), d.lsb, d.width)
         /\ d.op = "sbfx" => Value(d, a, c) = vita_sbfx(First(d, a, c), d.lsb, d.width)
         /\ d.op = "bfi" => Value(d, a, c) = vita_bfi(c.r[d.rd], First(d, a, c), d.lsb, d.width)
         /\ d.op = "bfc" => Value(d, a, c) = vita_bfi(c.r[d.rd], 0, d.lsb, d.width)
<1>1. d.op = "mov" => Value(d, a, c) = operand2(d, a, c)
  BY DEF Value, Shifts
<1>2. d.op = "mvn" => Value(d, a, c) = Not(operand2(d, a, c))
  BY DEF Value, Shifts
<1>3. d.op = "movt" => Value(d, a, c) = Or(c.r[d.rd] % ShortMod, Wrap(d.imm * ShortMod))
  BY DEF Value, Shifts
<1>4. d.op \in {"add", "cmn"} => Value(d, a, c) = Wrap(First(d, a, c) + operand2(d, a, c))
  BY DEF Value, Shifts
<1>5. d.op \in {"sub", "cmp"} => Value(d, a, c) = Wrap(First(d, a, c) - operand2(d, a, c))
  BY DEF Value, Shifts
<1>6. d.op = "adc" => Value(d, a, c) = Wrap(First(d, a, c) + operand2(d, a, c) + Carry(c.f.c))
  BY DEF Value, Shifts
<1>7. d.op = "sbc" => Value(d, a, c) = Wrap(First(d, a, c) - operand2(d, a, c) - (1 - Carry(c.f.c)))
  BY DEF Value, Shifts
<1>8. d.op = "rsb" => Value(d, a, c) = Wrap(0 - First(d, a, c))
  BY DEF Value, Shifts
<1>9. d.op \in {"and", "tst"} => Value(d, a, c) = And(First(d, a, c), operand2(d, a, c))
  BY DEF Value, Shifts
<1>10. d.op = "orr" => Value(d, a, c) = Or(First(d, a, c), operand2(d, a, c))
  BY DEF Value, Shifts
<1>11. d.op = "eor" => Value(d, a, c) = Xor(First(d, a, c), operand2(d, a, c))
  BY DEF Value, Shifts
<1>12. d.op = "bic" => Value(d, a, c) = And(First(d, a, c), Not(operand2(d, a, c)))
  BY DEF Value, Shifts
<1>13. d.op \in Shifts /\ d.hasImm => Value(d, a, c) = Shifted(d.op, Src(d.rm, a, c), d.imm)
  BY DEF Value, Shifts
<1>14. d.op \in Shifts /\ ~d.hasImm =>
         Value(d, a, c) = Shifted(d.op, c.r[d.rd], Src(d.rm, a, c) % CountMod)
  BY DEF Value, Shifts
<1>15. d.op = "mul" => Value(d, a, c) = Wrap(c.r[d.rd] * Src(d.rm, a, c))
  BY DEF Value, Shifts
<1>16. d.op = "adr" => Value(d, a, c) = Wrap(Align(Wrap(a + 4)) + d.imm)
  BY DEF Value, Shifts
<1>17. d.op = "sxtb" => Value(d, a, c) = vita_sxtb(Src(d.rm, a, c))
  BY DEF Value, Shifts
<1>18. d.op = "sxth" => Value(d, a, c) = vita_sxth(Src(d.rm, a, c))
  BY DEF Value, Shifts
<1>19. d.op = "uxtb" => Value(d, a, c) = vita_uxtb(Src(d.rm, a, c))
  BY DEF Value, Shifts
<1>20. d.op = "uxth" => Value(d, a, c) = vita_uxth(Src(d.rm, a, c))
  BY DEF Value, Shifts
<1>21. d.op = "rev" => Value(d, a, c) = vita_rev(Src(d.rm, a, c))
  BY DEF Value, Shifts
<1>22. d.op = "ubfx" => Value(d, a, c) = vita_ubfx(First(d, a, c), d.lsb, d.width)
  BY DEF Value, Shifts
<1>23. d.op = "sbfx" => Value(d, a, c) = vita_sbfx(First(d, a, c), d.lsb, d.width)
  BY DEF Value, Shifts
<1>24. d.op = "bfi" => Value(d, a, c) = vita_bfi(c.r[d.rd], First(d, a, c), d.lsb, d.width)
  BY DEF Value, Shifts
<1>25. d.op = "bfc" => Value(d, a, c) = vita_bfi(c.r[d.rd], 0, d.lsb, d.width)
  BY DEF Value, Shifts
<1> QED
  BY <1>1, <1>2, <1>3, <1>4, <1>5, <1>6, <1>7, <1>8, <1>9, <1>10, <1>11, <1>12, <1>13, <1>14,
     <1>15, <1>16, <1>17, <1>18, <1>19, <1>20, <1>21, <1>22, <1>23, <1>24, <1>25

(* And the flags it sets.                                                  *)
LEMMA FlagsSetIs ==
  ASSUME NEW d, NEW a, NEW c, NEW res
  PROVE  /\ d.op \in {"add", "cmn"} =>
              FlagsSet(d, a, c, res) = vita_flags_add(First(d, a, c), operand2(d, a, c), res)
         /\ d.op = "adc" =>
              FlagsSet(d, a, c, res) =
                vita_flags_adc(First(d, a, c), operand2(d, a, c), Carry(c.f.c), res)
         /\ d.op \in {"sub", "cmp"} =>
              FlagsSet(d, a, c, res) = vita_flags_sub(First(d, a, c), operand2(d, a, c), res)
         /\ d.op = "sbc" =>
              FlagsSet(d, a, c, res) =
                vita_flags_sub(First(d, a, c), Wrap(operand2(d, a, c) + (1 - Carry(c.f.c))), res)
         /\ d.op = "rsb" => FlagsSet(d, a, c, res) = vita_flags_sub(0, First(d, a, c), res)
         /\ d.op \notin Sums => FlagsSet(d, a, c, res) = vita_flags_nz(c.f, res)
  BY DEF FlagsSet, Sums

(* A sum or difference gives the value of the machine, and its flags but   *)
(* for SBC with a borrow it cannot add.                                    *)
LEMMA SumKept ==
  ASSUME NEW d, NEW a, NEW c, c.f \in FlagRecord, NEW x \in Word, NEW y \in Word,
         d.op \in Sums \ {"rsb"}, First(d, a, c) = x, operand2(d, a, c) = y,
         NEW m, m = Sum(d.op, x, y, c.f.c)
  PROVE  /\ Value(d, a, c) = m.val /\ m.val \in Word
         /\ FlagsClose(FlagsSet(d, a, c, m.val), Flags(m.val, m.c, m.v),
                       d.op = "sbc" /\ ~c.f.c /\ y = Mod - 1,
                       d.op = "sbc" /\ ~c.f.c /\ y \in {Half - 1, Mod - 1})
<1> DEFINE k == Carry(c.f.c)
<1>1. k \in {0, 1} /\ (k = 1 <=> c.f.c) /\ c.f.c \in BOOLEAN
  BY CarryIs
<1>2. Not(y) \in Word
  BY NotType
<1>3. d.op \in {"add", "cmn", "adc", "sub", "cmp", "sbc"}
  BY DEF Sums
<1>4. ASSUME NEW u \in Word, NEW j \in {0, 1}
      PROVE  AddWithCarry(x, u, j).val \in Word /\ ArchFlags(x, u, j) \in FlagRecord
  BY ArchType
<1>5. CASE d.op \in {"add", "cmn"}
  <2>1. m = AddWithCarry(x, y, 0)
    BY <1>5 DEF Sum
  <2>2. m.val = Wrap(x + y)
    <3>1. x + y + 0 = x + y
      BY WordType
    <3> QED
      BY <2>1, <3>1, AddType
  <2>3. Value(d, a, c) = Wrap(x + y)
    BY <1>5, ValueIs
  <2>4. FlagsSet(d, a, c, m.val) = vita_flags_add(x, y, m.val)
    BY <1>5, FlagsSetIs
  <2>5. FlagsSet(d, a, c, m.val) = ArchFlags(x, y, 0)
    BY <2>2, <2>4, AddFlagsExact
  <2>6. Flags(m.val, m.c, m.v) = ArchFlags(x, y, 0)
    BY <2>1 DEF ArchFlags
  <2>7. ArchFlags(x, y, 0) \in FlagRecord /\ m.val \in Word
    BY <1>4, <2>1
  <2> QED
    BY <2>2, <2>3, <2>5, <2>6, <2>7, SameFlags
<1>6. CASE d.op = "adc"
  <2>1. m = AddWithCarry(x, y, k)
    BY <1>6 DEF Sum
  <2>2. m.val = Wrap(x + y + k)
    BY <1>1, <2>1, AddType
  <2>3. Value(d, a, c) = Wrap(x + y + k)
    BY <1>6, ValueIs
  <2>4. FlagsSet(d, a, c, m.val) = vita_flags_adc(x, y, k, m.val)
    BY <1>6, FlagsSetIs
  <2>5. FlagsSet(d, a, c, m.val) = ArchFlags(x, y, k)
    BY <1>1, <2>2, <2>4, AdcFlagsExact
  <2>6. Flags(m.val, m.c, m.v) = ArchFlags(x, y, k)
    BY <2>1 DEF ArchFlags
  <2>7. ArchFlags(x, y, k) \in FlagRecord /\ m.val \in Word
    BY <1>1, <1>4, <2>1
  <2> QED
    BY <2>2, <2>3, <2>5, <2>6, <2>7, SameFlags
<1>7. CASE d.op \in {"sub", "cmp"}
  <2>1. m = AddWithCarry(x, Not(y), 1)
    BY <1>7 DEF Sum
  <2>2. m.val = Wrap(x - y)
    <3>1. m.val = IF x - y - (1 - 1) >= 0 THEN x - y - (1 - 1) ELSE x - y - (1 - 1) + Mod
      BY <2>1, DifferenceIs
    <3>2. x - y - (1 - 1) = x - y /\ x - y \in Int /\ -Mod <= x - y /\ x - y < Mod
      BY WordType
    <3>3. m.val = IF x - y >= 0 THEN x - y ELSE x - y + Mod
      BY <3>1, <3>2
    <3> DEFINE e == x - y
    <3>4. Wrap(e) = IF e >= 0 THEN e ELSE e + Mod
      <4> HIDE DEF e
      <4> QED
        BY <3>2, WrapDifference DEF e
    <3> QED
      BY <3>3, <3>4
  <2>3. Value(d, a, c) = Wrap(x - y)
    BY <1>7, ValueIs
  <2>4. FlagsSet(d, a, c, m.val) = vita_flags_sub(x, y, m.val)
    BY <1>7, FlagsSetIs
  <2>5. FlagsSet(d, a, c, m.val) = ArchFlags(x, Not(y), 1)
    BY <2>2, <2>4, SubFlagsExact
  <2>6. Flags(m.val, m.c, m.v) = ArchFlags(x, Not(y), 1)
    BY <2>1 DEF ArchFlags
  <2>7. ArchFlags(x, Not(y), 1) \in FlagRecord /\ m.val \in Word
    BY <1>2, <1>4, <2>1
  <2> QED
    BY <2>2, <2>3, <2>5, <2>6, <2>7, SameFlags
<1>8. CASE d.op = "sbc"
  <2> DEFINE e == x - y - (1 - k)
             g == vita_flags_sub(x, Wrap(y + (1 - k)), Wrap(e))
             h == ArchFlags(x, Not(y), k)
  <2>1. m = AddWithCarry(x, Not(y), k)
    BY <1>8 DEF Sum
  <2>2. m.val = Wrap(e)
    <3>1. m.val = IF e >= 0 THEN e ELSE e + Mod
      BY <1>1, <2>1, DifferenceIs
    <3>2. e \in Int /\ -Mod <= e /\ e < Mod
      <4> HIDE DEF k
      <4> QED
        BY <1>1, WordType
    <3> HIDE DEF e
    <3>3. Wrap(e) = IF e >= 0 THEN e ELSE e + Mod
      BY <3>2, WrapDifference
    <3> QED
      BY <3>1, <3>3
  <2>3. Value(d, a, c) = Wrap(e)
    BY <1>8, ValueIs
  <2>4. FlagsSet(d, a, c, m.val) = vita_flags_sub(x, Wrap(y + (1 - k)), m.val)
    BY <1>8, FlagsSetIs
  <2>5. FlagsSet(d, a, c, m.val) = g
    BY <2>2, <2>4
  <2>6. Flags(m.val, m.c, m.v) = h
    BY <2>1 DEF ArchFlags
  <2>7. /\ g.n = h.n /\ g.z = h.z
        /\ k = 1 \/ y # Mod - 1 => g.c = h.c
        /\ k = 1 \/ y \notin {Half - 1, Mod - 1} => g.v = h.v
    <3> HIDE DEF k
    <3> QED
      BY <1>1, SbcFlagsExact
  <2>8. g \in FlagRecord
    <3> DEFINE b == Wrap(y + (1 - k))
               carry == x >= b
               over == SignsDiffer(x, b) /\ SignsDiffer(x, Wrap(e))
    <3>1. g = Flags(Wrap(e), carry, over)
      BY DEF vita_flags_sub
    <3>2. carry \in BOOLEAN /\ over \in BOOLEAN
      OBVIOUS
    <3> HIDE DEF carry, over, e, g
    <3> QED
      BY <3>1, <3>2, FlagsType
  <2>9. h \in FlagRecord
    BY <1>1, <1>2, <1>4
  <2> HIDE DEF g, h, k, e
  <2>10. FlagsClose(g, h, d.op = "sbc" /\ ~c.f.c /\ y = Mod - 1,
                    d.op = "sbc" /\ ~c.f.c /\ y \in {Half - 1, Mod - 1})
    BY <1>1, <1>8, <2>7, <2>8, <2>9 DEF FlagsClose
  <2>11. m.val \in Word
    BY <1>1, <1>2, <1>4, <2>1
  <2> QED
    BY <2>2, <2>3, <2>5, <2>6, <2>10, <2>11
<1> QED
  BY <1>3, <1>5, <1>6, <1>7, <1>8

(* A negation: the operand of the machine is a zero.                       *)
LEMMA NegationKept ==
  ASSUME NEW d, NEW a, NEW c, NEW x \in Word, d.op = "rsb", First(d, a, c) = x,
         NEW b, NEW m, m = Sum("rsb", x, 0, b)
  PROVE  /\ Value(d, a, c) = m.val /\ m.val \in Word
         /\ FlagsSet(d, a, c, m.val) = Flags(m.val, m.c, m.v)
         /\ FlagsSet(d, a, c, m.val) \in FlagRecord
<1> DEFINE n == Not(x)
           z == 0
<1>1. n \in Word /\ z \in Word
  BY NotType, WidthFacts DEF Word
<1>2. m = AddWithCarry(n, z, 1)
  BY DEF Sum
<1>3. AddWithCarry(n, z, 1) = AddWithCarry(z, n, 1)
  <2> HIDE DEF n, z
  <2>1. n + z + 1 = z + n + 1 /\ Signed(n) + Signed(z) + 1 = Signed(z) + Signed(n) + 1
    BY <1>1, WordType, SignedIs
  <2> QED
    BY <2>1 DEF AddWithCarry
<1>4. Value(d, a, c) = Wrap(0 - x)
  BY ValueIs
<1>5. m.val = Wrap(0 - x) /\ m.val \in Word
  <2> DEFINE e == z - x - (1 - 1)
  <2>1. m.val = (IF e >= 0 THEN e ELSE e + Mod) /\ m.val \in Word
    <3> HIDE DEF z
    <3> QED
      BY <1>1, <1>2, <1>3, DifferenceIs
  <2>2. e = 0 - x /\ e \in Int /\ -Mod <= e /\ e < Mod
    BY WordType
  <2> HIDE DEF e
  <2>3. Wrap(e) = IF e >= 0 THEN e ELSE e + Mod
    BY <2>2, WrapDifference
  <2> QED
    BY <2>1, <2>2, <2>3
<1>6. FlagsSet(d, a, c, m.val) = vita_flags_sub(0, x, m.val)
  BY FlagsSetIs
<1>7. FlagsSet(d, a, c, m.val) = ArchFlags(0, Not(x), 1)
  BY <1>1, <1>5, <1>6, SubFlagsExact
<1>8. Flags(m.val, m.c, m.v) = ArchFlags(0, Not(x), 1)
  BY <1>2, <1>3 DEF ArchFlags
<1>9. ArchFlags(0, Not(x), 1) \in FlagRecord
  BY <1>1, ArchType
<1> QED
  BY <1>4, <1>5, <1>7, <1>8, <1>9

(* Anything else that sets flags leaves the carry and the overflow.        *)
LEMMA OtherFlagsKept ==
  ASSUME NEW d, NEW a, NEW c, c.f \in FlagRecord, d.op \notin Sums, NEW m, NEW b \in BOOLEAN,
         NEW over
  PROVE  FlagsClose(FlagsSet(d, a, c, m), Flags(m, b, c.f.v), b # c.f.c, over)
<1>1. FlagsSet(d, a, c, m) = vita_flags_nz(c.f, m)
  BY FlagsSetIs
<1>2. FlagsSet(d, a, c, m) = Flags(m, c.f.c, c.f.v)
  BY <1>1, FlagsNZ
<1>3. c.f.c \in BOOLEAN /\ c.f.v \in BOOLEAN
  BY CarryIs
<1> DEFINE g == Flags(m, c.f.c, c.f.v)
           h == Flags(m, b, c.f.v)
<1>4. /\ g \in FlagRecord /\ g.n = (Sign(m) = 1) /\ g.z = (m = 0) /\ g.c = c.f.c /\ g.v = c.f.v
      /\ h \in FlagRecord /\ h.n = (Sign(m) = 1) /\ h.z = (m = 0) /\ h.c = b /\ h.v = c.f.v
  BY <1>3, FlagsType
<1> HIDE DEF g, h
<1>5. g.n = h.n /\ g.z = h.z /\ g.v = h.v /\ (b # c.f.c \/ g.c = h.c)
  BY <1>4
<1>6. FlagsClose(g, h, b # c.f.c, over)
  BY <1>4, <1>5 DEF FlagsClose
<1> QED
  BY <1>2, <1>6 DEF g, h

(* A logical operation gives the value of the machine. *)
LEMMA LogicKept ==
  ASSUME NEW d, NEW a, NEW c, NEW x, NEW y \in Word, d.op \in Logic \ {"orn", "teq"},
         d.op \in {"mov", "mvn"} \/ (x \in Word /\ First(d, a, c) = x), operand2(d, a, c) = y,
         NEW m, m = Bitwise2(d.op, x, y)
  PROVE  Value(d, a, c) = m /\ m \in Word /\ d.op \notin Sums
<1>1. d.op \in {"and", "bic", "orr", "eor", "mov", "mvn", "tst"}
  BY DEF Logic
<1>2. Not(y) \in Word
  BY NotType
<1>3. CASE d.op \in {"and", "tst"}
  BY <1>3, AndBits, ValueIs DEF Bitwise2, Sums
<1>4. CASE d.op = "bic"
  BY <1>4, <1>2, AndBits, ValueIs DEF Bitwise2, Sums
<1>5. CASE d.op = "orr"
  BY <1>5, OrXorType, ValueIs DEF Bitwise2, Sums
<1>6. CASE d.op = "eor"
  BY <1>6, OrXorType, ValueIs DEF Bitwise2, Sums
<1>7. CASE d.op = "mov"
  BY <1>7, ValueIs DEF Bitwise2, Sums
<1>8. CASE d.op = "mvn"
  BY <1>8, <1>2, ValueIs DEF Bitwise2, Sums
<1> QED
  BY <1>1, <1>3, <1>4, <1>5, <1>6, <1>7, <1>8

(* The bit a shift moves out is a truth value. *)
LEMMA CarryType ==
  ASSUME NEW type \in Shifts \cup {"rrx"}, NEW x, NEW n, NEW c \in BOOLEAN
  PROVE  Shift(type, x, n, c).c \in BOOLEAN
<1>1. CASE n = 0
  BY <1>1 DEF Shift
<1>2. CASE n # 0 /\ type = "lsl"
  BY <1>2 DEF Shift
<1>3. CASE n # 0 /\ type = "lsr"
  BY <1>3 DEF Shift
<1>4. CASE n # 0 /\ type = "asr"
  BY <1>4 DEF Shift
<1>5. CASE n # 0 /\ type = "ror"
  BY <1>5 DEF Shift
<1>6. CASE n # 0 /\ type = "rrx"
  BY <1>6 DEF Shift
<1> QED
  BY <1>1, <1>2, <1>3, <1>4, <1>5, <1>6 DEF Shifts

--------------------------------------------------------------------------------
(* One instruction: the kinds that compute. *)

(* A state of the C that is the machine's.                                 *)
Same(c, s) == c.r = s.r /\ c.f = s.f /\ c.mem = s.mem

(* A source register, or the program counter, is read alike by both.       *)
LEMMA SourceIs ==
  ASSUME NEW a \in Nat, NEW s, NEW c, Typed(s), Same(c, s), NEW q \in Regs \cup {"pc"}
  PROVE  Src(q, a, c) = Source(s, q, a) /\ Source(s, q, a) \in Word /\ q # NoReg
<1>1. CASE q = "pc"
  <2>1. Wrap(a + 4) \in Word
    BY WrapType
  <2> QED
    BY <1>1, <2>1 DEF Src, Source, NoReg
<1>2. CASE q \in Regs
  <2>1. q # "pc" /\ q # NoReg
    BY <1>2, MachineAssumption
  <2> QED
    BY <1>2, <2>1 DEF Src, Source, Typed, Same, Contents
<1> QED
  BY <1>1, <1>2

(* What the C has to do with an instruction that computes: give the value  *)
(* of the machine, and its flags but for a carry or an overflow in doubt.  *)
Agrees(i, d, a, s, c) ==
  LET x == Computed(i, a, s)
  IN  /\ ~IsTransfer(i) /\ d.op \notin Loads \cup Stores \cup {"ldrd", "strd", "push", "pop"}
      /\ d.op \in Compares <=> i.op \in Compares
      /\ d.s = i.s /\ d.rd = i.rd
      /\ x.val \in Word /\ Value(d, a, c) = x.val
      /\ i.s \/ i.op \in Compares =>
           FlagsClose(FlagsSet(d, a, c, x.val), x.f,
                      \/ i.op \in Logic \cup Shifts /\ x.f.c # s.f.c
                      \/ i.op = "sbc" /\ ~s.f.c /\ Operand(i, a, s).val = Mod - 1,
                      i.op = "sbc" /\ ~s.f.c /\ Operand(i, a, s).val \in {Half - 1, Mod - 1})

(* The kinds of instructions that compute.                                 *)
LEMMA SumAgrees ==
  ASSUME NEW i, NEW d, NEW a, NEW s, NEW c, Typed(s), Same(c, s),
         d.op = i.op, d.s = i.s, d.rd = i.rd, i.op \in Sums \ {"rsb"},
         First(d, a, c) = Left(i, a, s), Left(i, a, s) \in Word,
         operand2(d, a, c) = Operand(i, a, s).val, Operand(i, a, s).val \in Word
  PROVE  Agrees(i, d, a, s, c)
<1> DEFINE x == Left(i, a, s)
           y == Operand(i, a, s).val
           m == Sum(i.op, x, y, s.f.c)
<1>1. c.f = s.f /\ c.f \in FlagRecord
  BY DEF Same, Typed
<1>2. Computed(i, a, s).val = m.val /\ Computed(i, a, s).f = Flags(m.val, m.c, m.v)
  BY SMTT(30) DEF Computed, Sums, Logic, Shifts
<1> HIDE DEF m
<1>3. /\ Value(d, a, c) = m.val /\ m.val \in Word
      /\ FlagsClose(FlagsSet(d, a, c, m.val), Flags(m.val, m.c, m.v),
                    d.op = "sbc" /\ ~c.f.c /\ y = Mod - 1,
                    d.op = "sbc" /\ ~c.f.c /\ y \in {Half - 1, Mod - 1})
  <2>1. m = Sum(d.op, x, y, c.f.c)
    BY <1>1 DEF m
  <2> HIDE DEF x, y
  <2> QED
    BY <1>1, <2>1, SumKept DEF x, y
<1>4. i.op \notin Logic \cup Shifts /\ ~IsTransfer(i)
      /\ i.op \notin Loads \cup Stores \cup {"ldrd", "strd", "push", "pop"}
  BY DEF Sums, Logic, Shifts, IsTransfer, Loads, Stores, Multiple
<1> QED
  BY <1>1, <1>2, <1>3, <1>4 DEF Agrees, FlagsClose

(* RSB from zero. *)
LEMMA NegationAgrees ==
  ASSUME NEW i, NEW d, NEW a, NEW s, NEW c, Typed(s), Same(c, s),
         d.op = i.op, d.s = i.s, d.rd = i.rd, i.op = "rsb",
         First(d, a, c) = Left(i, a, s), Left(i, a, s) \in Word, Operand(i, a, s).val = 0
  PROVE  Agrees(i, d, a, s, c)
<1> DEFINE x == Left(i, a, s)
           m == Sum("rsb", x, 0, s.f.c)
<1>1. Computed(i, a, s).val = m.val /\ Computed(i, a, s).f = Flags(m.val, m.c, m.v)
  BY SMTT(30) DEF Computed, Sums, Logic, Shifts
<1> HIDE DEF m
<1>2. /\ Value(d, a, c) = m.val /\ m.val \in Word
      /\ FlagsSet(d, a, c, m.val) = Flags(m.val, m.c, m.v)
      /\ FlagsSet(d, a, c, m.val) \in FlagRecord
  <2> HIDE DEF x
  <2> QED
    BY NegationKept DEF m, x
<1>3. i.op \notin Loads \cup Stores \cup {"ldrd", "strd", "push", "pop"} /\ ~IsTransfer(i)
  BY DEF IsTransfer, Loads, Stores, Multiple
<1> QED
  BY <1>1, <1>2, <1>3 DEF Agrees, FlagsClose

(* Logical operations: the carry of the shifter is what they may miss.     *)
LEMMA LogicAgrees ==
  ASSUME NEW i, NEW d, NEW a, NEW s, NEW c, Typed(s), Same(c, s),
         d.op = i.op, d.s = i.s, d.rd = i.rd, i.op \in Logic \ {"orn", "teq"},
         \/ i.op \in {"mov", "mvn"}
         \/ First(d, a, c) = Left(i, a, s) /\ Left(i, a, s) \in Word,
         operand2(d, a, c) = Operand(i, a, s).val, Operand(i, a, s).val \in Word,
         Operand(i, a, s).c \in BOOLEAN
  PROVE  Agrees(i, d, a, s, c)
<1> DEFINE x == Left(i, a, s)
           y == Operand(i, a, s).val
           b == Operand(i, a, s).c
           m == Bitwise2(i.op, x, y)
<1>1. c.f = s.f /\ c.f \in FlagRecord
  BY DEF Same, Typed
<1>2. Computed(i, a, s).val = m /\ Computed(i, a, s).f = Flags(m, b, s.f.v)
  BY SMTT(30) DEF Computed, Sums, Logic, Shifts
<1> HIDE DEF m, b
<1>3. Value(d, a, c) = m /\ m \in Word /\ d.op \notin Sums
  <2>1. m = Bitwise2(d.op, x, y)
    BY DEF m
  <2> HIDE DEF x, y
  <2> QED
    BY <2>1, LogicKept DEF x, y
<1>4. FlagsClose(FlagsSet(d, a, c, m), Flags(m, b, c.f.v), b # c.f.c, FALSE)
  BY <1>1, <1>3, OtherFlagsKept DEF b
<1>5. Flags(m, b, s.f.v).c = b
  BY DEF Flags
<1>6. i.op \notin Loads \cup Stores \cup {"ldrd", "strd", "push", "pop"} /\ ~IsTransfer(i)
  BY DEF Logic, IsTransfer, Loads, Stores, Multiple
<1> QED
  BY <1>1, <1>2, <1>3, <1>4, <1>5, <1>6 DEF Agrees, FlagsClose

(* Shifts, likewise. *)
LEMMA ShiftAgrees ==
  ASSUME NEW i, NEW d, NEW a, NEW s, NEW c, Typed(s), Same(c, s),
         d.op = i.op, d.s = i.s, d.rd = i.rd, i.op \in Shifts,
         Value(d, a, c) = Moved(i, a, s).val, Moved(i, a, s).val \in Word,
         Moved(i, a, s).c \in BOOLEAN
  PROVE  Agrees(i, d, a, s, c)
<1> DEFINE b == Moved(i, a, s).c
           m == Moved(i, a, s).val
<1>1. c.f = s.f /\ c.f \in FlagRecord
  BY DEF Same, Typed
<1>2. Computed(i, a, s).val = m /\ Computed(i, a, s).f = Flags(m, b, s.f.v)
  BY SMTT(30) DEF Computed, Sums, Logic, Shifts
<1> HIDE DEF m, b
<1>3. d.op \notin Sums
  BY DEF Sums, Shifts
<1>4. FlagsClose(FlagsSet(d, a, c, m), Flags(m, b, c.f.v), b # c.f.c, FALSE)
  BY <1>1, <1>3, OtherFlagsKept DEF b
<1>5. Flags(m, b, s.f.v).c = b
  BY DEF Flags
<1>6. /\ i.op \notin Loads \cup Stores \cup {"ldrd", "strd", "push", "pop"} /\ ~IsTransfer(i)
      /\ i.op \notin Compares
  BY DEF Shifts, IsTransfer, Loads, Stores, Multiple, Compares
<1> QED
  BY <1>1, <1>2, <1>3, <1>4, <1>5, <1>6 DEF Agrees, FlagsClose, m

(* MUL, where the destination is the first factor. *)
LEMMA ProductAgrees ==
  ASSUME NEW i, NEW d, NEW a, NEW s, NEW c, Typed(s), Same(c, s),
         d.op = i.op, d.s = i.s, d.rd = i.rd, i.op = "mul", i.rd = i.rn, d.rm = i.rm,
         i.rn \in Regs, i.rm \in Regs
  PROVE  Agrees(i, d, a, s, c)
<1> DEFINE m == Wrap(s.r[i.rn] * s.r[i.rm])
<1>1. c.f = s.f /\ c.f \in FlagRecord /\ s.f.c \in BOOLEAN
  BY CarryIs DEF Same, Typed
<1>2. Computed(i, a, s).val = m /\ Computed(i, a, s).f = Flags(m, s.f.c, s.f.v)
  BY SMTT(30) DEF Computed, Sums, Logic, Shifts
<1>3. m \in Word
  <2>1. s.r[i.rn] \in Nat /\ s.r[i.rm] \in Nat
    BY WordType DEF Typed, Contents
  <2>2. s.r[i.rn] * s.r[i.rm] \in Int
    BY <2>1
  <2> QED
    BY <2>2, WrapType
<1>4. Value(d, a, c) = m
  <2>1. Value(d, a, c) = Wrap(c.r[d.rd] * Src(d.rm, a, c))
    BY ValueIs
  <2>2. Src(d.rm, a, c) = s.r[i.rm]
    BY MachineAssumption DEF Src, Same
  <2> QED
    BY <2>1, <2>2 DEF Same
<1> HIDE DEF m
<1>5. FlagsClose(FlagsSet(d, a, c, m), Flags(m, s.f.c, c.f.v), s.f.c # c.f.c, FALSE)
  <2>1. d.op \notin Sums
    BY DEF Sums
  <2> QED
    BY <1>1, <2>1, OtherFlagsKept
<1>6. i.op \notin Loads \cup Stores \cup {"ldrd", "strd", "push", "pop"} /\ ~IsTransfer(i)
      /\ i.op \notin Compares
  BY DEF IsTransfer, Loads, Stores, Multiple, Compares
<1> QED
  BY <1>1, <1>2, <1>3, <1>4, <1>5, <1>6 DEF Agrees, FlagsClose

(* The ones that set no flags.                                             *)
LEMMA PlainAgrees ==
  ASSUME NEW i, NEW d, NEW a, NEW s, NEW c,
         d.op = i.op, d.s = i.s, d.rd = i.rd, ~i.s,
         i.op \in {"adr", "movt", "sxtb", "sxth", "uxtb", "uxth", "rev", "ubfx", "sbfx", "bfi",
                   "bfc"},
         Value(d, a, c) = Computed(i, a, s).val, Computed(i, a, s).val \in Word
  PROVE  Agrees(i, d, a, s, c)
<1>1. i.op \notin Loads \cup Stores \cup {"ldrd", "strd", "push", "pop"} /\ ~IsTransfer(i)
      /\ i.op \notin Compares
  BY DEF IsTransfer, Loads, Stores, Multiple, Compares
<1> QED
  BY <1>1 DEF Agrees

--------------------------------------------------------------------------------
(* The 16-bit encodings that compute. *)

(* A shift amount of an encoding is below the width. *)
LEMMA AmountType ==
  ASSUME NEW n \in Amount
  PROVE  n \in Nat /\ n < Width
  BY WidthFacts DEF Amount

(* The count in a register is a number. *)
LEMMA CountType ==
  ASSUME NEW x \in Word
  PROVE  x \in Nat /\ x % CountMod \in Nat
<1> DEFINE p == CountMod
<1>1. x \in Int /\ x \in Nat /\ p \in Nat \ {0}
  BY WordType, MachineAssumption
<1> HIDE DEF p
<1>2. x % p \in 0 .. p - 1
  BY <1>1, DivMod
<1>3. x % p \in Nat
  BY <1>1, <1>2
<1> QED
  BY <1>1, <1>3 DEF p

(* Registers hold words. *)
LEMMA RegisterType ==
  ASSUME NEW s, Typed(s), NEW q \in Regs
  PROVE  s.r[q] \in Word /\ s.r[q] \in Nat /\ s.r[q] % CountMod \in Nat
<1>1. s.r[q] \in Word
  BY DEF Typed, Contents
<1> QED
  BY <1>1, CountType

(* Operands.                                                               *)
LEMMA FirstIs ==
  ASSUME NEW i, NEW d, NEW a \in Nat, NEW s, NEW c, Typed(s), Same(c, s),
         d.rn = i.rn, i.rn \in Regs \cup {"pc"},
         i.rn \in Regs \/ i.form \notin {"sp/pc", "wide"}
  PROVE  First(d, a, c) = Left(i, a, s) /\ Left(i, a, s) \in Word
<1>1. /\ Src(i.rn, a, c) = Source(s, i.rn, a) /\ Source(s, i.rn, a) \in Word /\ i.rn # NoReg
      /\ i.rn \in Regs => i.rn # "pc"
  BY SourceIs, MachineAssumption
<1>2. First(d, a, c) = Src(i.rn, a, c)
  BY <1>1 DEF First
<1>3. Left(i, a, s) = Source(s, i.rn, a)
  BY <1>1 DEF Left
<1> QED
  BY <1>1, <1>2, <1>3

(* An immediate operand is read alike by both. *)
LEMMA ImmediateIs ==
  ASSUME NEW i, NEW d, NEW a, NEW s, NEW c, Typed(s), i.hasImm, d.hasImm,
         i.form \notin {"sp/pc", "alu.w"}, d.imm = i.imm
  PROVE  /\ operand2(d, a, c) = Operand(i, a, s).val /\ Operand(i, a, s).val = i.imm
         /\ Operand(i, a, s).c \in BOOLEAN
<1>1. operand2(d, a, c) = d.imm
  BY DEF operand2
<1>2. Operand(i, a, s).val = i.imm
  BY DEF Operand, Immediate
<1>3. Operand(i, a, s).c \in BOOLEAN
  <2>1. s.f.c \in BOOLEAN
    BY CarryIs DEF Typed
  <2>2. CASE i.rotated
    BY <2>2 DEF Operand
  <2>3. CASE ~i.rotated
    BY <2>1, <2>3 DEF Operand
  <2> QED
    BY <2>2, <2>3
<1> QED
  BY <1>1, <1>2, <1>3

(* So is a modified immediate. *)
LEMMA ModifiedIs ==
  ASSUME NEW i, NEW d, NEW a, NEW s, NEW c, Typed(s), i.hasImm, d.hasImm, i.form = "alu.w",
         d.imm = ExpandImm(i)
  PROVE  /\ operand2(d, a, c) = Operand(i, a, s).val /\ Operand(i, a, s).val = ExpandImm(i)
         /\ Operand(i, a, s).c \in BOOLEAN
<1>1. operand2(d, a, c) = d.imm
  BY DEF operand2
<1>2. Operand(i, a, s).val = ExpandImm(i)
  BY DEF Operand, Immediate
<1>3. Operand(i, a, s).c \in BOOLEAN
  <2>1. s.f.c \in BOOLEAN
    BY CarryIs DEF Typed
  <2>2. CASE i.rotated
    BY <2>2 DEF Operand
  <2>3. CASE ~i.rotated
    BY <2>1, <2>3 DEF Operand
  <2> QED
    BY <2>2, <2>3
<1> QED
  BY <1>1, <1>2, <1>3

(* So is a shifted register, unless the amount 0 stands for another.       *)
LEMMA RegisterIs ==
  ASSUME NEW i, NEW d, NEW a \in Nat, NEW s, NEW c, Typed(s), Same(c, s),
         ~i.hasImm, ~d.hasImm, d.rm = i.rm, i.rm \in Regs \cup {"pc"},
         d.amt = i.amt, i.amt \in Nat, d.shift = i.shift, i.shift \in Shifts,
         i.shift = "lsl" \/ i.amt # 0, i.rm \in Regs \/ (i.amt = 0 /\ i.shift = "lsl")
  PROVE  /\ operand2(d, a, c) = Operand(i, a, s).val /\ Operand(i, a, s).val \in Word
         /\ Operand(i, a, s).c \in BOOLEAN
<1> DEFINE x == Source(s, i.rm, a)
           m == Shift(i.shift, x, i.amt, s.f.c)
<1>1. /\ Src(i.rm, a, c) = x /\ x \in Word /\ i.rm # NoReg
      /\ i.rm \in Regs => i.rm # "pc"
  BY SourceIs, MachineAssumption
<1>2. s.f.c \in BOOLEAN
  BY CarryIs DEF Typed
<1>3. Operand(i, a, s) = m
  BY DEF Operand, ShiftImm, Shifts
<1> HIDE DEF m, x
<1>4. Shifted(i.shift, x, i.amt) = m.val /\ m.val \in Word
  <2>1. /\ Shifted(i.shift, x, i.amt) = Shift(i.shift, x, i.amt, s.f.c).val
        /\ Shifted(i.shift, x, i.amt) \in Word
    BY <1>1, ShiftsExact
  <2> QED
    BY <2>1 DEF m
<1>5. m.c \in BOOLEAN
  BY <1>2, CarryType DEF m
<1>6. CASE i.amt = 0 /\ i.shift = "lsl"
  <2>1. m.val = x
    BY <1>6 DEF m, Shift
  <2>2. operand2(d, a, c) = x
    <3>1. CASE i.rm = "pc"
      BY <1>1, <3>1 DEF operand2
    <3>2. CASE i.rm \in Regs
      BY <1>1, <1>6, <3>2 DEF operand2, Src
    <3> QED
      BY <3>1, <3>2
  <2> QED
    BY <1>3, <1>4, <1>5, <2>1, <2>2
<1>7. CASE ~(i.amt = 0 /\ i.shift = "lsl")
  <2>1. i.rm \in Regs /\ c.r[i.rm] = x
    BY <1>1, <1>7 DEF Src
  <2>2. operand2(d, a, c) = Shifted(i.shift, x, i.amt)
    BY <1>1, <1>7, <2>1 DEF operand2
  <2> QED
    BY <1>3, <1>4, <1>5, <2>2
<1> QED
  BY <1>6, <1>7

(* Aligning a word down leaves a word. *)
LEMMA AlignType ==
  ASSUME NEW x \in Word
  PROVE  Align(x) \in Word
<1>1. x \in Nat /\ x < Mod /\ Mod \in Nat
  BY WordType
<1>2. x \div 4 \in Nat /\ (x \div 4) * 4 \in Nat /\ (x \div 4) * 4 <= x
  <2>1. x \div 4 \in Int /\ x % 4 \in 0 .. 3 /\ x = 4 * (x \div 4) + (x % 4)
    BY <1>1, DivMod
  <2> QED
    BY <1>1, <2>1
<1> QED
  BY <1>1, <1>2 DEF Align, Word

(* An aligned program counter is the program counter.                      *)
LEMMA AlignedIs ==
  ASSUME NEW a \in Nat, a % 4 = 0
  PROVE  Align(Wrap(a + 4)) = Wrap(a + 4)
<1> DEFINE x == Wrap(a + 4)
           q == (a + 4) \div Mod
<1>1. PICK k \in Nat : Mod = 4 * k
  <2>1. Width - 2 \in Nat /\ Width \in Nat /\ 2 <= Width
    BY WidthFacts
  <2>2. 2 ^ Width = 2 ^ 2 * 2 ^ (Width - 2) /\ 2 ^ (Width - 2) \in Nat
    BY <2>1, PowerGrows, PowerType
  <2>3. 2 ^ 2 = 4
    BY PowerType, PowerZero
  <2> QED
    BY <2>2, <2>3, WidthFacts
<1>2. PICK n \in Int : a = 4 * n
  <2>1. a = 4 * (a \div 4) + (a % 4) /\ a \div 4 \in Int
    BY DivMod
  <2> QED
    BY <2>1
<1>3. x = (a + 4) % Mod /\ q \in Int /\ a + 4 = Mod * q + x /\ x \in Int
  <2> DEFINE b == a + 4
  <2>1. x = b % Mod /\ q = b \div Mod /\ b \in Int /\ Mod \in Nat \ {0}
    BY WidthFacts DEF Wrap
  <2> HIDE DEF b, x, q
  <2>2. b = Mod * q + x /\ q \in Int /\ x \in Int
    BY <2>1, DivMod
  <2> QED
    BY <2>1, <2>2 DEF b
<1> HIDE DEF x, q
<1>4. x = 4 * (n + 1 - k * q) + 0 /\ n + 1 - k * q \in Int
  <2> DEFINE t == k * q
  <2>1. Mod * q = 4 * t /\ t \in Int
    BY <1>1, <1>3
  <2> HIDE DEF t
  <2>2. x = 4 * (n + 1 - t) + 0 /\ n + 1 - t \in Int
    BY <1>2, <1>3, <2>1
  <2> QED
    BY <2>2 DEF t
<1>5. x \div 4 = n + 1 - k * q
  <2> DEFINE t == n + 1 - k * q
  <2>1. t \in Int /\ x = 4 * t + 0
    BY <1>4
  <2> HIDE DEF t
  <2>2. (4 * t + 0) \div 4 = t
    BY <2>1, DivModIs
  <2> QED
    BY <2>1, <2>2 DEF t
<1> QED
  <2> DEFINE t == n + 1 - k * q
  <2>1. t \in Int /\ x = 4 * t + 0 /\ x \div 4 = t
    BY <1>4, <1>5
  <2> HIDE DEF t
  <2>2. Align(x) = x
    BY <2>1 DEF Align
  <2> QED
    BY <2>2 DEF x

(* With the same operands, sums and logical operations agree. *)
LEMMA OperandsAgree ==
  ASSUME NEW i, NEW d, NEW a, NEW s, NEW c, Typed(s), Same(c, s),
         d.op = i.op, d.s = i.s, d.rd = i.rd, i.op \in (Sums \cup Logic) \ {"rsb", "orn", "teq"},
         \/ i.op \in {"mov", "mvn"}
         \/ First(d, a, c) = Left(i, a, s) /\ Left(i, a, s) \in Word,
         operand2(d, a, c) = Operand(i, a, s).val, Operand(i, a, s).val \in Word,
         Operand(i, a, s).c \in BOOLEAN
  PROVE  Agrees(i, d, a, s, c)
<1>1. CASE i.op \in Sums
  <2>1. i.op \in Sums \ {"rsb"} /\ i.op \notin {"mov", "mvn"}
    BY <1>1 DEF Sums
  <2> QED
    BY <2>1, SumAgrees
<1>2. CASE i.op \in Logic
  <2>1. i.op \in Logic \ {"orn", "teq"}
    BY <1>2
  <2> QED
    BY <2>1, LogicAgrees
<1> QED
  BY <1>1, <1>2

(* A product, or a shift by a register: the C shifts the destination.      *)
LEMMA RotatedAgrees ==
  ASSUME NEW i, NEW d, NEW a \in Nat, NEW s, NEW c, Typed(s), Same(c, s),
         d.op = i.op, d.s = i.s, d.rd = i.rd, i.op \in Shifts, i.rd = i.rn, d.rm = i.rm,
         i.rn \in Regs, i.rm \in Regs, ~i.hasImm, ~d.hasImm, i.form # "shift imm"
  PROVE  Agrees(i, d, a, s, c)
<1> DEFINE x == s.r[i.rn]
           n == s.r[i.rm] % CountMod
           m == Shift(i.op, x, n, s.f.c)
<1>1. Moved(i, a, s) = m
  BY DEF Moved
<1>2. x \in Word /\ n \in Nat
  BY RegisterType
<1>3. Value(d, a, c) = Shifted(i.op, x, n)
  <2>1. Src(d.rm, a, c) = s.r[i.rm] /\ c.r[d.rd] = x
    BY MachineAssumption DEF Src, Same
  <2>2. Value(d, a, c) = Shifted(d.op, c.r[d.rd], Src(d.rm, a, c) % CountMod)
    BY DEF Value, Shifts
  <2> QED
    BY <2>1, <2>2
<1>4. s.f.c \in BOOLEAN
  BY CarryIs DEF Typed
<1> HIDE DEF x, n
<1>5. Value(d, a, c) = m.val /\ m.val \in Word
  BY <1>2, <1>3, ShiftsExact
<1>6. m.c \in BOOLEAN
  BY <1>4, CarryType
<1> HIDE DEF m
<1> QED
  BY <1>1, <1>5, <1>6, ShiftAgrees

(* A count of words that is no more than a word.                           *)
LEMMA ScaledType ==
  ASSUME NEW n \in Scaled
  PROVE  /\ 4 * n \in Word /\ 2 * n \in Word /\ 1 * n \in Word /\ n \in Nat
         /\ 4 * n \in Nat /\ 2 * n \in Nat /\ 1 * n \in Nat
<1> DEFINE b == Mod - 1
<1>1. b \in Nat /\ Word = 0 .. b
  BY WidthFacts DEF Word
<1> HIDE DEF b
<1>2. b \div 4 \in Int /\ b % 4 \in 0 .. 3 /\ b = 4 * (b \div 4) + (b % 4)
  BY <1>1, DivMod
<1>3. n \in 0 .. b \div 4
  BY DEF Scaled, b
<1> QED
  BY <1>1, <1>2, <1>3

(* An extend, or the reversal of the bytes.                                *)
LEMMA ExtendAgrees ==
  ASSUME NEW i, NEW d, NEW a \in Nat, NEW s, NEW c, Typed(s), Same(c, s),
         d.op = i.op, d.s = i.s, d.rd = i.rd, ~i.s, d.rm = i.rm, i.rm \in Regs, i.rot = 0,
         i.op \in {"sxtb", "sxth", "uxtb", "uxth", "rev"}
  PROVE  Agrees(i, d, a, s, c)
<1> DEFINE x == s.r[i.rm]
<1>1. x \in Word /\ Src(d.rm, a, c) = x
  BY MachineAssumption DEF Typed, Contents, Src, Same
<1>2. Turned(i, s) = x
  <2>1. i.rot * (Width \div 4) = 0
    BY WidthFacts
  <2> QED
    BY <2>1 DEF Turned, Shift
<1>3. Value(d, a, c) = Computed(i, a, s).val /\ Computed(i, a, s).val \in Word
  <2>1. CASE i.op = "sxtb"
    <3>1. Computed(i, a, s).val = SignExtend(x % ByteMod, ByteMod)
      BY <1>2, <2>1 DEF Computed, Sums, Logic, Shifts
    <3>2. Value(d, a, c) = vita_sxtb(x)
      BY <1>1, <2>1, ValueIs
    <3> HIDE DEF x
    <3> QED
      BY <1>1, <3>1, <3>2, ExtendExact
  <2>2. CASE i.op = "sxth"
    <3>1. Computed(i, a, s).val = SignExtend(x % ShortMod, ShortMod)
      BY <1>2, <2>2 DEF Computed, Sums, Logic, Shifts
    <3>2. Value(d, a, c) = vita_sxth(x)
      BY <1>1, <2>2, ValueIs
    <3> HIDE DEF x
    <3> QED
      BY <1>1, <3>1, <3>2, ExtendExact
  <2>3. CASE i.op = "uxtb"
    <3>1. Computed(i, a, s).val = x % ByteMod
      BY <1>2, <2>3 DEF Computed, Sums, Logic, Shifts
    <3>2. Value(d, a, c) = vita_uxtb(x)
      BY <1>1, <2>3, ValueIs
    <3> HIDE DEF x
    <3> QED
      BY <1>1, <3>1, <3>2, ExtendExact
  <2>4. CASE i.op = "uxth"
    <3>1. Computed(i, a, s).val = x % ShortMod
      BY <1>2, <2>4 DEF Computed, Sums, Logic, Shifts
    <3>2. Value(d, a, c) = vita_uxth(x)
      BY <1>1, <2>4, ValueIs
    <3> HIDE DEF x
    <3> QED
      BY <1>1, <3>1, <3>2, ExtendExact
  <2>5. CASE i.op = "rev"
    <3>1. Computed(i, a, s).val = Read([k \in 0 .. 3 |-> Byte(x, 3 - k)], 0, 4)
      BY <2>5 DEF Computed, Sums, Logic, Shifts
    <3>2. Value(d, a, c) = vita_rev(x)
      BY <1>1, <2>5, ValueIs
    <3> HIDE DEF x
    <3> QED
      BY <1>1, <3>1, <3>2, ReverseExact
  <2> QED
    BY <2>1, <2>2, <2>3, <2>4, <2>5
<1> QED
  BY <1>3, PlainAgrees

--------------------------------------------------------------------------------
(* Data processing of 16 bits.                                             *)
LEMMA Alu16Agrees ==
  ASSUME NEW i, NEW d, d = Decode(i), NEW a \in Nat, NEW s, NEW c, Typed(s), Same(c, s),
         EncodedAlu16(i), d.op # "none", ~Gap(i, a, s)
  PROVE  Agrees(i, d, a, s, c)
<1>1. CASE Fills(i, [form |-> {"shift imm"}, op |-> {"lsl", "lsr", "asr"}, s |-> {TRUE},
               rd |-> Regs, rm |-> Regs, amt |-> Amount])
  <2>1. /\ i.form = "shift imm" /\ i.op \in {"lsl", "lsr", "asr"} /\ i.s = TRUE /\ i.rd \in Regs
        /\ i.rm \in Regs /\ i.amt \in Amount /\ ~i.hasImm
    BY <1>1 DEF Fills, Guest
  <2>2. /\ d.op = i.op /\ d.rd = i.rd /\ d.rm = i.rm /\ d.imm = i.amt /\ d.hasImm /\ d.s = TRUE
    BY <2>1 DEF Decode, DecodeAlu16, Insn, Absent
  <2>3. i.amt # 0 \/ i.op = "lsl"
    BY <2>1 DEF Gap, ZeroIsWidth
  <2> DEFINE x == s.r[i.rm]
             m == Shift(i.op, x, i.amt, s.f.c)
  <2>4. Moved(i, a, s) = m
    BY <2>1, <2>3 DEF Moved, ShiftImm
  <2>5. x \in Word /\ i.op \in Shifts /\ i.amt \in Nat
    <3>1. x \in Word
      BY <2>1, RegisterType
    <3>2. i.op \in Shifts
      BY <2>1 DEF Shifts
    <3>3. i.amt \in Nat
      BY <2>1, AmountType
    <3> QED
      BY <3>1, <3>2, <3>3
  <2>6. Value(d, a, c) = Shifted(i.op, x, i.amt)
    <3>1. Src(d.rm, a, c) = x
      BY <2>1, <2>2, MachineAssumption DEF Src, Same
    <3> QED
      BY <2>2, <2>5, <3>1, ValueIs
  <2> HIDE DEF x
  <2>7. Value(d, a, c) = m.val /\ m.val \in Word
    BY <2>5, <2>6, ShiftsExact
  <2>8. m.c \in BOOLEAN
    <3>1. s.f.c \in BOOLEAN
      BY CarryIs DEF Typed
    <3> QED
      BY <2>5, <3>1, CarryType
  <2> HIDE DEF m
  <2> QED
    BY <2>1, <2>2, <2>4, <2>5, <2>7, <2>8, ShiftAgrees
<1>2. CASE Fills(i, [form |-> {"add/sub"}, op |-> {"add", "sub"}, s |-> {TRUE},
               rd |-> Regs, rn |-> Regs, rm |-> Regs])
  <2>1. /\ i.form = "add/sub" /\ i.op \in {"add", "sub"} /\ i.s = TRUE /\ i.rd \in Regs
        /\ i.rm \in Regs /\ i.rn \in Regs /\ i.hasImm = FALSE /\ i.imm = 0
        /\ i.amt = 0 /\ i.shift = "lsl"
    BY <1>2 DEF Fills, Guest
  <2>2. /\ d.op = i.op /\ d.rd = i.rd /\ d.rn = i.rn /\ d.rm = i.rm /\ ~d.hasImm /\ d.s = TRUE
        /\ d.amt = 0 /\ d.shift = "lsl"
    BY <2>1 DEF Decode, DecodeAlu16, Insn, Absent
  <2>3. First(d, a, c) = Left(i, a, s) /\ Left(i, a, s) \in Word
    BY <2>1, <2>2, FirstIs
  <2>4. /\ operand2(d, a, c) = Operand(i, a, s).val /\ Operand(i, a, s).val \in Word
        /\ Operand(i, a, s).c \in BOOLEAN
    BY <2>1, <2>2, RegisterIs DEF Shifts
  <2>5. i.op \in (Sums \cup Logic) \ {"rsb", "orn", "teq"}
    BY <2>1 DEF Sums
  <2> QED
    BY <2>1, <2>2, <2>3, <2>4, <2>5, OperandsAgree
<1>3. CASE Fills(i, [form |-> {"add/sub"}, op |-> {"add", "sub"}, s |-> {TRUE},
               rd |-> Regs, rn |-> Regs, imm |-> Word, hasImm |-> {TRUE}])
  <2>1. /\ i.form = "add/sub" /\ i.op \in {"add", "sub"} /\ i.s = TRUE /\ i.rd \in Regs
        /\ i.rn \in Regs /\ i.hasImm = TRUE /\ i.imm \in Word
    BY <1>3 DEF Fills, Guest
  <2>2. d.op = i.op /\ d.rd = i.rd /\ d.rn = i.rn /\ d.imm = i.imm /\ d.hasImm = TRUE /\ d.s = TRUE
    BY <2>1 DEF Decode, DecodeAlu16, Insn, Absent
  <2>3. First(d, a, c) = Left(i, a, s) /\ Left(i, a, s) \in Word
    <3>1. d.rn = i.rn /\ i.rn \in Regs
      BY <2>1, <2>2
    <3> QED
      BY <3>1, FirstIs
  <2>4. /\ operand2(d, a, c) = Operand(i, a, s).val /\ Operand(i, a, s).val \in Word
        /\ Operand(i, a, s).c \in BOOLEAN
    BY <2>1, <2>2, ImmediateIs
  <2>5. i.op \in (Sums \cup Logic) \ {"rsb", "orn", "teq"}
    BY <2>1 DEF Sums, Logic
  <2> QED
    BY <2>1, <2>2, <2>3, <2>4, <2>5, OperandsAgree
<1>4. CASE /\ Fills(i, [form |-> {"imm8"}, op |-> {"mov", "cmp", "add", "sub"}, s |-> {TRUE},
                  rd |-> Regs, rn |-> Regs, imm |-> Word, hasImm |-> {TRUE}])
           /\ i.rn = i.rd
  <2>1. /\ i.form = "imm8" /\ i.op \in {"mov", "cmp", "add", "sub"} /\ i.s = TRUE /\ i.rd \in Regs
        /\ i.rn = i.rd /\ i.rn \in Regs /\ i.hasImm = TRUE /\ i.imm \in Word
    BY <1>4 DEF Fills, Guest
  <2>2. d.op = i.op /\ d.rd = i.rd /\ d.rn = i.rn /\ d.imm = i.imm /\ d.hasImm = TRUE /\ d.s = TRUE
    BY <2>1 DEF Decode, DecodeAlu16, Insn, Absent
  <2>3. First(d, a, c) = Left(i, a, s) /\ Left(i, a, s) \in Word
    BY <2>1, <2>2, FirstIs
  <2>4. /\ operand2(d, a, c) = Operand(i, a, s).val /\ Operand(i, a, s).val \in Word
        /\ Operand(i, a, s).c \in BOOLEAN
    BY <2>1, <2>2, ImmediateIs
  <2>5. i.op \in (Sums \cup Logic) \ {"rsb", "orn", "teq"}
    BY <2>1 DEF Sums, Logic
  <2> QED
    BY <2>1, <2>2, <2>3, <2>4, <2>5, OperandsAgree
<1>5. CASE /\ Fills(i, [form |-> {"reg"}, s |-> {TRUE}, rd |-> Regs, rn |-> Regs, rm |-> Regs,
                  op |-> {"and", "eor", "lsl", "lsr", "asr", "adc", "sbc", "ror", "tst", "cmp",
                          "cmn", "orr", "mul", "bic", "mvn"}])
           /\ i.rn = i.rd
  <2>1. /\ i.form = "reg" /\ i.s = TRUE /\ i.rd \in Regs /\ i.rm \in Regs
        /\ i.op \in {"and", "eor", "lsl", "lsr", "asr", "adc", "sbc", "ror", "tst", "cmp",
                     "cmn", "orr", "mul", "bic", "mvn"}
        /\ i.rn = i.rd /\ i.rn \in Regs /\ i.hasImm = FALSE /\ i.amt = 0 /\ i.shift = "lsl"
    BY <1>5 DEF Fills, Guest
  <2>2. /\ d.op = i.op /\ d.rd = i.rd /\ d.rn = i.rn /\ d.rm = i.rm
        /\ d.hasImm = FALSE /\ d.s = TRUE
        /\ d.amt = 0 /\ d.shift = "lsl"
    BY <2>1 DEF Decode, DecodeAlu16, Insn, Absent
  <2>3. CASE i.op = "mul"
    BY <2>1, <2>2, <2>3, ProductAgrees
  <2>4. CASE i.op \in Shifts
    BY <2>1, <2>2, <2>4, RotatedAgrees
  <2>5. CASE i.op \notin {"mul"} \cup Shifts
    <3>1. First(d, a, c) = Left(i, a, s) /\ Left(i, a, s) \in Word
      BY <2>1, <2>2, FirstIs
    <3>2. /\ operand2(d, a, c) = Operand(i, a, s).val /\ Operand(i, a, s).val \in Word
          /\ Operand(i, a, s).c \in BOOLEAN
      BY <2>1, <2>2, RegisterIs DEF Shifts
    <3>3. i.op \in (Sums \cup Logic) \ {"rsb", "orn", "teq"}
      BY <2>1, <2>5 DEF Sums, Logic, Shifts
    <3> QED
      BY <2>1, <2>2, <3>1, <3>2, <3>3, OperandsAgree
  <2> QED
    BY <2>3, <2>4, <2>5
<1>6. CASE Fills(i, [form |-> {"reg"}, op |-> {"rsb"}, s |-> {TRUE}, rd |-> Regs, rn |-> Regs,
               hasImm |-> {TRUE}])
  <2>1. /\ i.form = "reg" /\ i.op = "rsb" /\ i.s = TRUE /\ i.rd \in Regs
        /\ i.rn \in Regs /\ i.hasImm = TRUE /\ i.imm = 0
    BY <1>6 DEF Fills, Guest
  <2>2. d.op = i.op /\ d.rd = i.rd /\ d.rn = i.rn /\ d.imm = i.imm /\ d.hasImm = TRUE /\ d.s = TRUE
    BY <2>1 DEF Decode, DecodeAlu16, Insn, Absent
  <2>3. First(d, a, c) = Left(i, a, s) /\ Left(i, a, s) \in Word
    BY <2>1, <2>2, FirstIs
  <2>4. Operand(i, a, s).val = 0
    BY <2>1, <2>2, ImmediateIs
  <2> QED
    BY <2>1, <2>2, <2>3, <2>4, NegationAgrees
<1>7. CASE /\ Fills(i, [form |-> {"hi"}, op |-> {"add", "cmp", "mov"}, s |-> BOOLEAN, rd |-> Regs,
                  rn |-> Regs, rm |-> Regs \cup {"pc"}])
           /\ i.rn = i.rd /\ i.s = (i.op = "cmp")
  <2>1. /\ i.form = "hi" /\ i.s = (i.op = "cmp") /\ i.rd \in Regs /\ i.rm \in Regs \cup {"pc"}
        /\ i.op \in {"add", "cmp", "mov"}
        /\ i.rn = i.rd /\ i.rn \in Regs /\ i.hasImm = FALSE /\ i.amt = 0 /\ i.shift = "lsl"
    BY <1>7 DEF Fills, Guest
  <2>2. /\ d.op = i.op /\ d.rd = i.rd /\ d.rn = i.rn /\ d.rm = i.rm /\ d.hasImm = FALSE /\ d.s = i.s
        /\ d.amt = 0 /\ d.shift = "lsl"
    BY <2>1 DEF Decode, DecodeAlu16, Insn, Absent
  <2>3. First(d, a, c) = Left(i, a, s) /\ Left(i, a, s) \in Word
    BY <2>1, <2>2, FirstIs
  <2>4. /\ operand2(d, a, c) = Operand(i, a, s).val /\ Operand(i, a, s).val \in Word
        /\ Operand(i, a, s).c \in BOOLEAN
    BY <2>1, <2>2, RegisterIs DEF Shifts
  <2>5. i.op \in (Sums \cup Logic) \ {"rsb", "orn", "teq"}
    BY <2>1 DEF Sums, Logic
  <2> QED
    BY <2>1, <2>2, <2>3, <2>4, <2>5, OperandsAgree
<1>8. CASE Fills(i, [form |-> {"sp/pc"}, op |-> {"add", "sub"}, rd |-> Regs, rn |-> Regs,
               imm |-> Scaled, hasImm |-> {TRUE}])
  <2>1. /\ i.form = "sp/pc" /\ i.op \in {"add", "sub"} /\ i.s = FALSE /\ i.rd \in Regs
        /\ i.rn \in Regs /\ i.hasImm = TRUE /\ i.imm \in Scaled /\ i.rotated = FALSE
    BY <1>8 DEF Fills, Guest
  <2>2. /\ d.op = i.op /\ d.rd = i.rd /\ d.rn = i.rn /\ d.imm = 4 * i.imm /\ d.hasImm = TRUE
        /\ d.s = FALSE
    BY <2>1 DEF Decode, DecodeMisc16, Insn, Absent
  <2>3. First(d, a, c) = Left(i, a, s) /\ Left(i, a, s) \in Word
    BY <2>1, <2>2, FirstIs
  <2>4. /\ operand2(d, a, c) = Operand(i, a, s).val /\ Operand(i, a, s).val \in Word
        /\ Operand(i, a, s).c \in BOOLEAN
    <3>1. 4 * i.imm \in Word
      BY <2>1, ScaledType
    <3>2. Operand(i, a, s) = [val |-> 4 * i.imm, c |-> s.f.c]
      BY <2>1 DEF Operand, Immediate
    <3>3. operand2(d, a, c) = 4 * i.imm
      BY <2>2 DEF operand2
    <3>4. s.f.c \in BOOLEAN
      BY CarryIs DEF Typed
    <3> QED
      BY <3>1, <3>2, <3>3, <3>4
  <2>5. i.op \in (Sums \cup Logic) \ {"rsb", "orn", "teq"}
    BY <2>1 DEF Sums, Logic
  <2> QED
    BY <2>1, <2>2, <2>3, <2>4, <2>5, OperandsAgree
<1>9. CASE Fills(i, [form |-> {"sp/pc"}, op |-> {"adr"}, rd |-> Regs, rn |-> {"pc"},
               imm |-> Scaled, hasImm |-> {TRUE}])
  <2>1. /\ i.form = "sp/pc" /\ i.op = "adr" /\ i.s = FALSE /\ i.rd \in Regs
        /\ i.rn = "pc" /\ i.hasImm = TRUE /\ i.imm \in Scaled
    BY <1>9 DEF Fills, Guest
  <2>2. d.op = i.op /\ d.rd = i.rd /\ d.imm = 4 * i.imm /\ d.s = FALSE
    BY <2>1 DEF Decode, DecodeMisc16, Insn, Absent
  <2> DEFINE x == Align(Wrap(a + 4))
  <2>3. Value(d, a, c) = Wrap(x + 4 * i.imm)
    BY <2>1, <2>2, ValueIs
  <2>4. Computed(i, a, s).val = Wrap(Left(i, a, s) + Operand(i, a, s).val)
    BY <2>1 DEF Computed, Sums, Logic, Shifts
  <2>5. Left(i, a, s) = x /\ Operand(i, a, s).val = 4 * i.imm
    BY <2>1 DEF Left, Operand, Immediate, NoReg
  <2>6. Wrap(x + 4 * i.imm) \in Word
    <3>1. x \in Word
      BY WrapType, AlignType
    <3> HIDE DEF x
    <3>2. x \in Int /\ 4 * i.imm \in Int
      BY <2>1, <3>1, ScaledType, WordType
    <3>3. x + 4 * i.imm \in Int
      BY <3>2
    <3> QED
      BY <3>3, WrapType
  <2> HIDE DEF x
  <2> QED
    BY <2>1, <2>2, <2>3, <2>4, <2>5, <2>6, PlainAgrees
<1>10. CASE Fills(i, [form |-> {"extend"}, rd |-> Regs, rm |-> Regs,
               op |-> {"sxtb", "sxth", "uxtb", "uxth", "rev", "rev16", "revsh"}])
  <2>1. /\ i.form = "extend" /\ i.s = FALSE /\ i.rd \in Regs /\ i.rm \in Regs /\ i.rot = 0
        /\ i.op \in {"sxtb", "sxth", "uxtb", "uxth", "rev", "rev16", "revsh"}
    BY <1>10 DEF Fills, Guest
  <2>2. i.op \notin {"rev16", "revsh"}
    <3>1. i.op # "revsh"
      BY DEF Gap, OtherOperation
    <3>2. CASE i.op = "rev16"
      BY <2>1, <3>2 DEF Decode, DecodeMisc16, Insn, Absent
    <3> QED
      BY <3>1, <3>2
  <2>3. d.op = i.op /\ d.rd = i.rd /\ d.rm = i.rm /\ d.s = FALSE
    BY <2>1, <2>2 DEF Decode, DecodeMisc16, Insn, Absent
  <2> QED
    BY <2>1, <2>2, <2>3, ExtendAgrees
<1> QED
  BY <1>1, <1>2, <1>3, <1>4, <1>5, <1>6, <1>7, <1>8, <1>9, <1>10 DEF EncodedAlu16

--------------------------------------------------------------------------------
(* The 32-bit encodings that compute. *)

(* Data processing of 32 bits.                                             *)
LEMMA Alu32Agrees ==
  ASSUME NEW i, NEW d, d = Decode(i), NEW a \in Nat, NEW s, NEW c, Typed(s), Same(c, s),
         EncodedAlu32(i), d.op # "none", ~Gap(i, a, s)
  PROVE  Agrees(i, d, a, s, c)
<1>1. CASE /\ \/ Fills(i, [form |-> {"alu.w"}, op |-> Three \cup {"mov", "mvn"} \cup Compares,
                     s |-> BOOLEAN, rd |-> Regs \cup {NoReg}, rn |-> Regs \cup {NoReg},
                     rm |-> Regs, shift |-> Shifts, amt |-> Amount])
              \/ /\ Fills(i, [form |-> {"alu.w"}, op |-> Three \cup {"mov", "mvn"} \cup Compares,
                     s |-> BOOLEAN, rd |-> Regs \cup {NoReg}, rn |-> Regs \cup {NoReg},
                     imm |-> 0 .. ByteMod - 1, hasImm |-> {TRUE}, rotated |-> BOOLEAN,
                     rot |-> Amount])
                 /\ Modified(i)
           /\ i.rd = NoReg <=> i.op \in Compares
           /\ i.rn = NoReg <=> i.op \in {"mov", "mvn"}
           /\ i.op \in Compares => i.s
  <2> DEFINE Ops == Three \cup {"mov", "mvn"} \cup Compares
  <2>1. i.form = "alu.w" /\ i.op \in Ops /\ i.rn \in Regs \cup {NoReg}
    <3>1. CASE Fills(i, [form |-> {"alu.w"}, op |-> Ops,
                     s |-> BOOLEAN, rd |-> Regs \cup {NoReg}, rn |-> Regs \cup {NoReg},
                     rm |-> Regs, shift |-> Shifts, amt |-> Amount])
      <4> HIDE DEF Ops
      <4> QED
        BY <3>1 DEF Fills, Guest
    <3>2. CASE /\ Fills(i, [form |-> {"alu.w"}, op |-> Ops,
                     s |-> BOOLEAN, rd |-> Regs \cup {NoReg}, rn |-> Regs \cup {NoReg},
                     imm |-> 0 .. ByteMod - 1, hasImm |-> {TRUE}, rotated |-> BOOLEAN,
                     rot |-> Amount])
               /\ Modified(i)
      <4> HIDE DEF Ops
      <4> QED
        BY <3>2 DEF Fills, Guest
    <3> QED
      BY <1>1, <3>1, <3>2
  <2>2. \/ /\ i.hasImm = FALSE /\ i.rm \in Regs /\ i.shift \in Shifts /\ i.amt \in Amount
        \/ i.hasImm = TRUE /\ thumb_expand_imm(i) = ExpandImm(i) /\ ExpandImm(i) \in Word
    <3>1. CASE Fills(i, [form |-> {"alu.w"}, op |-> Ops,
                     s |-> BOOLEAN, rd |-> Regs \cup {NoReg}, rn |-> Regs \cup {NoReg},
                     rm |-> Regs, shift |-> Shifts, amt |-> Amount])
      <4> HIDE DEF Ops
      <4> QED
        BY <3>1 DEF Fills, Guest
    <3>2. CASE /\ Fills(i, [form |-> {"alu.w"}, op |-> Ops,
                     s |-> BOOLEAN, rd |-> Regs \cup {NoReg}, rn |-> Regs \cup {NoReg},
                     imm |-> 0 .. ByteMod - 1, hasImm |-> {TRUE}, rotated |-> BOOLEAN,
                     rot |-> Amount])
               /\ Modified(i)
      <4> HIDE DEF Ops
      <4>1. /\ i.hasImm = TRUE /\ i.imm \in 0 .. ByteMod - 1 /\ i.rot \in Amount
            /\ i.rotated \in BOOLEAN
        BY <3>2 DEF Fills, Guest
      <4>2. thumb_expand_imm(i) = ExpandImm(i) /\ ExpandImm(i) \in Word
        BY <3>2, <4>1, ImmediateExact
      <4> QED
        BY <4>1, <4>2
    <3> QED
      BY <1>1, <3>1, <3>2
  <2>3. i.op \notin {"orn", "teq", "pkh"}
    <3>1. i.op \notin {"orn", "teq"}
      BY DEF Gap, OtherOperation
    <3> QED
      BY <2>1, <3>1 DEF Three, Compares
  <2>4. /\ d.op = i.op /\ d.rd = i.rd /\ d.rn = i.rn /\ d.rm = i.rm /\ d.hasImm = i.hasImm
        /\ d.s = i.s /\ d.amt = i.amt /\ d.shift = i.shift
        /\ i.hasImm => d.imm = thumb_expand_imm(i)
    BY <2>1, <2>3 DEF Decode, DecodeAlu32, Insn, Absent
  <2>5. i.op = "rsb" => i.hasImm /\ ExpandImm(i) = 0
    BY <2>1 DEF Gap, OtherOperation
  <2>6. \/ i.op \in {"mov", "mvn"}
        \/ First(d, a, c) = Left(i, a, s) /\ Left(i, a, s) \in Word
    <3>1. CASE i.rn \in Regs
      BY <2>1, <2>4, <3>1, FirstIs
    <3>2. CASE i.rn = NoReg
      BY <1>1, <3>2
    <3> QED
      BY <2>1, <3>1, <3>2
  <2>7. /\ operand2(d, a, c) = Operand(i, a, s).val /\ Operand(i, a, s).val \in Word
        /\ Operand(i, a, s).c \in BOOLEAN
        /\ i.hasImm => Operand(i, a, s).val = ExpandImm(i)
    <3>1. CASE i.hasImm = FALSE /\ i.rm \in Regs /\ i.shift \in Shifts /\ i.amt \in Amount
      <4>1. i.amt \in Nat
        BY <3>1, AmountType
      <4>2. i.shift = "lsl" \/ i.amt # 0
        BY <2>1, <3>1 DEF Gap, ZeroIsWidth
      <4> QED
        BY <2>4, <3>1, <4>1, <4>2, RegisterIs
    <3>2. CASE i.hasImm = TRUE /\ thumb_expand_imm(i) = ExpandImm(i) /\ ExpandImm(i) \in Word
      <4>1. d.imm = ExpandImm(i) /\ d.hasImm
        BY <2>4, <3>2
      <4> QED
        BY <2>1, <3>2, <4>1, ModifiedIs
    <3> QED
      BY <2>2, <3>1, <3>2
  <2>8. CASE i.op = "rsb"
    BY <2>4, <2>5, <2>6, <2>7, <2>8, NegationAgrees
  <2>9. CASE i.op # "rsb"
    <3>1. i.op \in (Sums \cup Logic) \ {"rsb", "orn", "teq"}
      BY <2>1, <2>3, <2>9 DEF Three, Compares, Sums, Logic
    <3> QED
      BY <2>4, <2>6, <2>7, <3>1, OperandsAgree
  <2> QED
    BY <2>8, <2>9
<1>2. CASE Fills(i, [form |-> {"alu.w"}, op |-> {"pkh"}])
  <2>1. i.form = "alu.w" /\ i.op = "pkh"
    BY <1>2 DEF Fills, Guest
  <2>2. d.op = "none"
    BY <2>1 DEF Decode, DecodeAlu32, Absent
  <2> QED
    BY <2>2
<1> QED
  BY <1>1, <1>2 DEF EncodedAlu32

(* Plain immediates and bit fields.                                        *)
LEMMA WideAgrees ==
  ASSUME NEW i, NEW d, d = Decode(i), NEW a \in Nat, NEW s, NEW c, Typed(s), Same(c, s),
         EncodedWide(i), d.op # "none", ~Gap(i, a, s)
  PROVE  Agrees(i, d, a, s, c)
<1>1. CASE Fills(i, [form |-> {"wide"}, op |-> {"mov"}, rd |-> Regs, imm |-> Word,
                 hasImm |-> {TRUE}])
  <2>1. /\ i.form = "wide" /\ i.op = "mov" /\ i.rd \in Regs /\ i.imm \in Word /\ i.hasImm = TRUE
        /\ i.s = FALSE
    BY <1>1 DEF Fills, Guest
  <2>2. d.op = i.op /\ d.rd = i.rd /\ d.imm = i.imm /\ d.hasImm = TRUE /\ d.s = FALSE
    BY <2>1 DEF Decode, DecodeWide, Insn, Absent
  <2>3. /\ operand2(d, a, c) = Operand(i, a, s).val /\ Operand(i, a, s).val \in Word
        /\ Operand(i, a, s).c \in BOOLEAN
    BY <2>1, <2>2, ImmediateIs
  <2>4. i.op \in (Sums \cup Logic) \ {"rsb", "orn", "teq"}
    BY <2>1 DEF Logic
  <2> QED
    BY <2>1, <2>2, <2>3, <2>4, OperandsAgree
<1>2. CASE Fills(i, [form |-> {"wide"}, op |-> {"movt"}, rd |-> Regs, imm |-> 0 .. ShortMod - 1,
               hasImm |-> {TRUE}])
  <2>1. /\ i.form = "wide" /\ i.op = "movt" /\ i.rd \in Regs /\ i.imm \in 0 .. ShortMod - 1
        /\ i.s = FALSE
    BY <1>2 DEF Fills, Guest
  <2>2. d.op = i.op /\ d.rd = i.rd /\ d.imm = i.imm /\ d.s = FALSE
    BY <2>1 DEF Decode, DecodeWide, Insn, Absent
  <2> DEFINE x == s.r[i.rd]
  <2>3. x \in Word /\ c.r[d.rd] = x
    BY <2>1, <2>2, RegisterType DEF Same
  <2>4. Value(d, a, c) = Or(x % ShortMod, Wrap(i.imm * ShortMod))
    BY <2>1, <2>2, <2>3, ValueIs
  <2>5. Computed(i, a, s).val = (x % ShortMod) + i.imm * ShortMod
    BY <2>1 DEF Computed, Sums, Logic, Shifts
  <2> HIDE DEF x
  <2>6. Value(d, a, c) = Computed(i, a, s).val /\ Computed(i, a, s).val \in Word
    BY <2>1, <2>3, <2>4, <2>5, HalvesJoined
  <2> QED
    BY <2>1, <2>2, <2>6, PlainAgrees
<1>3. CASE Fills(i, [form |-> {"wide"}, op |-> {"add", "sub"}, rd |-> Regs,
               rn |-> Regs \cup {"pc"}, imm |-> Word, hasImm |-> {TRUE}])
  <2>1. /\ i.form = "wide" /\ i.op \in {"add", "sub"} /\ i.rd \in Regs /\ i.rn \in Regs \cup {"pc"}
        /\ i.imm \in Word /\ i.hasImm = TRUE /\ i.s = FALSE
    BY <1>3 DEF Fills, Guest
  <2>2. d.op = i.op /\ d.rd = i.rd /\ d.rn = i.rn /\ d.imm = i.imm /\ d.hasImm = TRUE /\ d.s = FALSE
    BY <2>1 DEF Decode, DecodeWide, Insn, Absent
  <2>3. First(d, a, c) = Left(i, a, s) /\ Left(i, a, s) \in Word
    <3>1. CASE i.rn \in Regs
      BY <2>2, <3>1, FirstIs
    <3>2. CASE i.rn = "pc"
      <4>1. a % 4 = 0
        BY <2>1, <3>2 DEF Gap, AdrUnaligned
      <4>2. Align(Wrap(a + 4)) = Wrap(a + 4)
        BY <4>1, AlignedIs
      <4>3. First(d, a, c) = Wrap(a + 4)
        BY <2>2, <3>2 DEF First, Src, NoReg
      <4>4. Left(i, a, s) = Align(Wrap(a + 4))
        BY <2>1, <3>2 DEF Left, NoReg
      <4> QED
        BY <4>2, <4>3, <4>4, WrapType
    <3> QED
      BY <2>1, <3>1, <3>2
  <2>4. /\ operand2(d, a, c) = Operand(i, a, s).val /\ Operand(i, a, s).val \in Word
        /\ Operand(i, a, s).c \in BOOLEAN
    BY <2>1, <2>2, ImmediateIs
  <2>5. i.op \in (Sums \cup Logic) \ {"rsb", "orn", "teq"}
    BY <2>1 DEF Sums
  <2> QED
    BY <2>1, <2>2, <2>3, <2>4, <2>5, OperandsAgree
<1>4. CASE Fills(i, [form |-> {"wide"}, op |-> {"sbfx", "ubfx", "bfi"}, rd |-> Regs, rn |-> Regs,
               lsb |-> Amount, width |-> 1 .. Width])
  <2>1. /\ i.form = "wide" /\ i.op \in {"sbfx", "ubfx", "bfi"} /\ i.rd \in Regs /\ i.rn \in Regs
        /\ i.lsb \in Amount /\ i.width \in 1 .. Width /\ i.s = FALSE
    BY <1>4 DEF Fills, Guest
  <2>2. i.lsb + i.width <= Width
    BY <2>1 DEF Decode, DecodeWide, Insn, Absent
  <2>3. /\ d.op = i.op /\ d.rd = i.rd /\ d.rn = i.rn /\ d.lsb = i.lsb /\ d.width = i.width
        /\ d.s = FALSE
    BY <2>1, <2>2 DEF Decode, DecodeWide, Insn, Absent
  <2> DEFINE x == s.r[i.rn]
             z == s.r[i.rd]
  <2>4. x \in Word /\ z \in Word /\ c.r[d.rd] = z /\ First(d, a, c) = x /\ i.lsb \in Nat
    <3>1. x \in Word /\ z \in Word
      BY <2>1, RegisterType
    <3>2. c.r[d.rd] = z /\ First(d, a, c) = x
      BY <2>1, <2>3, MachineAssumption DEF Same, First, Src
    <3>3. i.lsb \in Nat
      BY <2>1, AmountType
    <3> QED
      BY <3>1, <3>2, <3>3
  <2>5. Value(d, a, c) = Computed(i, a, s).val /\ Computed(i, a, s).val \in Word
    <3>1. CASE i.op = "ubfx"
      <4>1. Computed(i, a, s).val = (x \div 2 ^ i.lsb) % 2 ^ i.width
        BY <3>1 DEF Computed, Sums, Logic, Shifts
      <4>2. Value(d, a, c) = vita_ubfx(x, i.lsb, i.width)
        BY <2>3, <2>4, <3>1, ValueIs
      <4> HIDE DEF x, z
      <4> QED
        BY <2>1, <2>2, <2>4, <4>1, <4>2, FieldUnsigned
    <3>2. CASE i.op = "sbfx"
      <4>1. Computed(i, a, s).val = SignExtend((x \div 2 ^ i.lsb) % 2 ^ i.width, 2 ^ i.width)
        BY <3>2 DEF Computed, Sums, Logic, Shifts
      <4>2. Value(d, a, c) = vita_sbfx(x, i.lsb, i.width)
        BY <2>3, <2>4, <3>2, ValueIs
      <4> HIDE DEF x, z
      <4> QED
        BY <2>1, <2>2, <2>4, <4>1, <4>2, FieldSigned
    <3>3. CASE i.op = "bfi"
      <4>1. Computed(i, a, s).val =
              z + ((x % 2 ^ i.width) - ((z \div 2 ^ i.lsb) % 2 ^ i.width)) * 2 ^ i.lsb
        BY <3>3 DEF Computed, Sums, Logic, Shifts
      <4>2. Value(d, a, c) = vita_bfi(z, x, i.lsb, i.width)
        BY <2>3, <2>4, <3>3, ValueIs
      <4> HIDE DEF x, z
      <4> QED
        BY <2>1, <2>2, <2>4, <4>1, <4>2, FieldInserted
    <3> QED
      BY <2>1, <3>1, <3>2, <3>3
  <2> QED
    BY <2>1, <2>3, <2>5, PlainAgrees
<1>5. CASE Fills(i, [form |-> {"wide"}, op |-> {"bfc"}, rd |-> Regs, lsb |-> Amount,
               width |-> 1 .. Width])
  <2>1. /\ i.form = "wide" /\ i.op = "bfc" /\ i.rd \in Regs
        /\ i.lsb \in Amount /\ i.width \in 1 .. Width /\ i.s = FALSE
    BY <1>5 DEF Fills, Guest
  <2>2. i.lsb + i.width <= Width
    BY <2>1 DEF Decode, DecodeWide, Insn, Absent
  <2>3. /\ d.op = i.op /\ d.rd = i.rd /\ d.lsb = i.lsb /\ d.width = i.width /\ d.s = FALSE
    BY <2>1, <2>2 DEF Decode, DecodeWide, Insn, Absent
  <2> DEFINE z == s.r[i.rd]
             o == 0
  <2>4. z \in Word /\ c.r[d.rd] = z /\ i.lsb \in Nat /\ o \in Word /\ o % 2 ^ i.width = 0
    <3>1. z \in Word
      BY <2>1, RegisterType
    <3>2. c.r[d.rd] = z
      BY <2>3 DEF Same
    <3>3. i.lsb \in Nat /\ o \in Word
      BY <2>1, AmountType, WidthFacts DEF Word
    <3>4. o % 2 ^ i.width = 0
      <4> DEFINE p == 2 ^ i.width
      <4>1. p \in Nat \ {0}
        BY <2>1, PowerType
      <4> HIDE DEF p
      <4>2. 0 % p = 0
        BY <4>1, WordMod
      <4> QED
        BY <4>2 DEF p
    <3> QED
      BY <3>1, <3>2, <3>3, <3>4
  <2>5. Computed(i, a, s).val =
          z + (0 - ((z \div 2 ^ i.lsb) % 2 ^ i.width)) * 2 ^ i.lsb
    BY <2>1 DEF Computed, Sums, Logic, Shifts
  <2>6. Value(d, a, c) = vita_bfi(z, o, i.lsb, i.width)
    BY <2>1, <2>3, <2>4, ValueIs
  <2>7. /\ vita_bfi(z, o, i.lsb, i.width) =
             z + ((o % 2 ^ i.width) - ((z \div 2 ^ i.lsb) % 2 ^ i.width)) * 2 ^ i.lsb
        /\ vita_bfi(z, o, i.lsb, i.width) \in Word
    <3> HIDE DEF z, o
    <3> QED
      BY <2>1, <2>2, <2>4, FieldInserted
  <2>8. Value(d, a, c) = Computed(i, a, s).val /\ Computed(i, a, s).val \in Word
    <3> HIDE DEF z, o
    <3> QED
      BY <2>4, <2>5, <2>6, <2>7
  <2> QED
    BY <2>1, <2>3, <2>8, PlainAgrees
<1>6. CASE Fills(i, [form |-> {"wide"}, op |-> {"ssat"}])
  <2>1. i.form = "wide" /\ i.op = "ssat"
    BY <1>6 DEF Fills, Guest
  <2>2. d.op = "none"
    BY <2>1 DEF Decode, DecodeWide, Insn, Absent
  <2> QED
    BY <2>2
<1> QED
  BY <1>1, <1>2, <1>3, <1>4, <1>5, <1>6 DEF EncodedWide

(* Extends, shifts by a register and products of 32 bits.                  *)
LEMMA OtherAgrees ==
  ASSUME NEW i, NEW d, d = Decode(i), NEW a \in Nat, NEW s, NEW c, Typed(s), Same(c, s),
         EncodedOther(i), d.op # "none", ~Gap(i, a, s)
  PROVE  Agrees(i, d, a, s, c)
<1>1. CASE Fills(i, [form |-> {"other.w"}, rd |-> Regs, rm |-> Regs, rot |-> 0 .. 3,
               op |-> {"sxth", "uxth", "sxtb", "uxtb", "sxtb16", "uxtb16"}])
  <2>1. /\ i.form = "other.w" /\ i.rd \in Regs /\ i.rm \in Regs /\ i.s = FALSE
        /\ i.op \in {"sxth", "uxth", "sxtb", "uxtb", "sxtb16", "uxtb16"}
    BY <1>1 DEF Fills, Guest
  <2>2. i.op \in {"sxth", "uxth"} /\ i.rot = 0
    BY <2>1 DEF Gap, OtherOperation
  <2>3. d.op = i.op /\ d.rd = i.rd /\ d.rm = i.rm /\ d.s = FALSE
    BY <2>1, <2>2 DEF Decode, DecodeOther32, Insn, Absent
  <2> QED
    BY <2>1, <2>2, <2>3, ExtendAgrees
<1>2. CASE Fills(i, [form |-> {"other.w"}, op |-> Shifts, s |-> BOOLEAN, rd |-> Regs, rn |-> Regs,
               rm |-> Regs])
  <2>1. /\ i.form = "other.w" /\ i.rd \in Regs /\ i.rn \in Regs /\ i.rm \in Regs
        /\ i.op \in Shifts /\ i.hasImm = FALSE
    BY <1>2 DEF Fills, Guest
  <2>2. i.rd = i.rn
    BY <2>1 DEF Gap, SourceDropped
  <2>3. d.op = i.op /\ d.rd = i.rd /\ d.rm = i.rm /\ d.s = i.s /\ d.hasImm = FALSE
    BY <2>1 DEF Decode, DecodeOther32, Insn, Absent, Shifts
  <2> QED
    BY <2>1, <2>2, <2>3, RotatedAgrees
<1>3. CASE Fills(i, [form |-> {"other.w"}, op |-> {"mul", "mla"}, rd |-> Regs, rn |-> Regs,
               rm |-> Regs])
  <2>1. /\ i.form = "other.w" /\ i.rd \in Regs /\ i.rn \in Regs /\ i.rm \in Regs
        /\ i.op \in {"mul", "mla"}
    BY <1>3 DEF Fills, Guest
  <2>2. i.op = "mul"
    BY <2>1 DEF Decode, DecodeOther32, Insn, Absent
  <2>3. i.rd = i.rn
    BY <2>1, <2>2 DEF Gap, SourceDropped
  <2>4. d.op = i.op /\ d.rd = i.rd /\ d.rm = i.rm /\ d.s = i.s
    BY <2>1, <2>2 DEF Decode, DecodeOther32, Insn, Absent
  <2> QED
    BY <2>1, <2>2, <2>3, <2>4, ProductAgrees
<1> QED
  BY <1>1, <1>2, <1>3 DEF EncodedOther

--------------------------------------------------------------------------------
(* Addresses, loads and stores. *)

Singles == Loads \cup Stores \cup {"ldrd", "strd"}

(* States that are kept the same, and typed.                               *)
LEMMA SetSame ==
  ASSUME NEW s, NEW c, Same(c, s), NEW q, NEW v, NEW r, NEW f, NEW mem
  PROVE  /\ Same(SetReg(c, q, v), SetReg(s, q, v)) /\ Same(SetRegs(c, r), SetRegs(s, r))
         /\ Same(SetFlags(c, f), SetFlags(s, f)) /\ Same(SetMem(c, mem), SetMem(s, mem))
  BY DEF Same, SetReg, SetRegs, SetFlags, SetMem

(* States that are set to values of their type stay typed. *)
LEMMA SetTyped ==
  ASSUME NEW s, Typed(s)
  PROVE  /\ \A q \in Regs, v \in Word : Typed(SetReg(s, q, v))
         /\ \A r \in Contents : Typed(SetRegs(s, r))
         /\ \A f \in FlagRecord : Typed(SetFlags(s, f))
         /\ \A mem \in Memory : Typed(SetMem(s, mem))
<1>1. ASSUME NEW r \in Contents PROVE Typed(SetRegs(s, r))
  BY DEF Typed, SetRegs
<1>2. ASSUME NEW q \in Regs, NEW v \in Word PROVE Typed(SetReg(s, q, v))
  <2>1. [s.r EXCEPT ![q] = v] \in Contents
    BY DEF Typed, Contents
  <2> QED
    BY <1>1, <2>1 DEF SetReg
<1>3. ASSUME NEW f \in FlagRecord PROVE Typed(SetFlags(s, f))
  BY DEF Typed, SetFlags
<1>4. ASSUME NEW mem \in Memory PROVE Typed(SetMem(s, mem))
  BY DEF Typed, SetMem
<1> QED
  BY <1>1, <1>2, <1>3, <1>4

(* The address of a single access: both add or subtract the same offset.   *)
LEMMA AddressIs ==
  ASSUME NEW i, NEW d, NEW a \in Nat, NEW s, NEW c, Typed(s), Same(c, s),
         i.op \in Singles, i.index = "offset", i.amt = 0,
         d.rn = i.rn, i.rn \in Regs \cup {"pc"}, d.add = i.add, i.add \in BOOLEAN,
         \/ /\ i.rm = NoReg /\ d.rm = NoReg /\ d.hasImm = TRUE
            /\ d.imm = Scale(i) * i.imm /\ d.imm \in Nat
         \/ /\ i.rm \in Regs /\ d.rm = i.rm /\ d.hasImm = FALSE /\ i.add /\ i.rn \in Regs
  PROVE  /\ address(d, a, c) = Address(i, a, s) /\ Address(i, a, s) \in Word
         /\ i.rn = "pc" /\ i.add => Address(i, a, s) = Wrap(Align(Wrap(a + 4)) + d.imm)
<1> DEFINE b == Base(i, a, s)
           o == Offset(i, s)
           here == Align(Wrap(a + 4))
<1>1. Address(i, a, s) = IF i.add THEN Wrap(b + o) ELSE Wrap(b - o)
  BY DEF Address, Moved2, Singles, Loads, Stores
<1>2. here \in Word
  BY WrapType, AlignType
<1>3. b \in Word
  <2>1. CASE i.rn = "pc"
    BY <1>2, <2>1 DEF Base
  <2>2. CASE i.rn # "pc"
    <3>1. i.rn \in Regs
      BY <2>2
    <3> QED
      BY <2>2, <3>1, RegisterType DEF Base
  <2> QED
    BY <2>1, <2>2
<1>4. CASE /\ i.rm = NoReg /\ d.rm = NoReg /\ d.hasImm = TRUE
           /\ d.imm = Scale(i) * i.imm /\ d.imm \in Nat
  <2>1. o = d.imm
    BY <1>4 DEF Offset
  <2>2. CASE i.rn = "pc"
    <3>1. b = here
      BY <2>2 DEF Base
    <3>2. address(d, a, c) = IF d.add THEN Wrap(here + d.imm) ELSE Wrap(here - d.imm)
      BY <2>2 DEF address
    <3> HIDE DEF here, b, o
    <3>3. here + d.imm \in Int /\ here - d.imm \in Int
      BY <1>2, <1>4, WordType
    <3> QED
      BY <1>1, <2>1, <3>1, <3>2, <3>3, WrapType DEF here
  <2>3. CASE i.rn # "pc"
    <3>1. b = c.r[d.rn]
      BY <2>3 DEF Base, Same
    <3>2. CASE d.imm # 0
      <4>1. address(d, a, c) = IF d.add THEN Wrap(b + d.imm) ELSE Wrap(b - d.imm)
        BY <1>4, <2>3, <3>1, <3>2 DEF address
      <4> HIDE DEF b, o
      <4>2. b + d.imm \in Int /\ b - d.imm \in Int
        BY <1>3, <1>4, WordType
      <4> QED
        BY <1>1, <2>1, <2>3, <4>1, <4>2, WrapType
    <3>3. CASE d.imm = 0
      <4>1. address(d, a, c) = b
        BY <1>4, <2>3, <3>1, <3>3 DEF address
      <4> HIDE DEF b, o
      <4>2. b + d.imm = b /\ b - d.imm = b
        BY <1>3, <3>3, WordType
      <4>3. Wrap(b) = b
        BY <1>3, WrapWord
      <4> QED
        BY <1>1, <1>3, <2>1, <2>3, <4>1, <4>2, <4>3
    <3> QED
      BY <3>2, <3>3
  <2> QED
    BY <2>2, <2>3
<1>5. CASE /\ i.rm \in Regs /\ d.rm = i.rm /\ d.hasImm = FALSE /\ i.add /\ i.rn \in Regs
  <2>1. i.rn # "pc" /\ i.rm # NoReg /\ i.rm # "pc"
    BY <1>5, MachineAssumption
  <2>2. s.r[i.rm] \in Nat
    BY <1>5, RegisterType
  <2>3. o = s.r[i.rm]
    <3>1. o = s.r[i.rm] * 2 ^ 0
      BY <2>1 DEF Offset
    <3> HIDE DEF o
    <3> QED
      BY <2>2, <3>1, PowerZero
  <2>4. b = c.r[d.rn]
    BY <2>1 DEF Base, Same
  <2>5. address(d, a, c) = Wrap(c.r[d.rn] + Src(d.rm, a, c))
    BY <1>5, <2>1 DEF address
  <2>6. Src(d.rm, a, c) = s.r[i.rm]
    BY <1>5, <2>1 DEF Src, Same
  <2> HIDE DEF b, o
  <2>7. b + o \in Int
    BY <1>3, <2>2, <2>3, WordType
  <2> QED
    BY <1>1, <1>5, <2>1, <2>3, <2>4, <2>5, <2>6, <2>7, WrapType
<1> QED
  BY <1>4, <1>5

(* The sizes of single accesses. *)
LEMMA SizeIs ==
  ASSUME NEW op \in Loads \cup Stores
  PROVE  /\ Size(op) \in {1, 2, 4}
         /\ op = "ldrsb" => Size(op) = 1
         /\ op = "ldrsh" => Size(op) = 2
         /\ op \in {"ldr", "str"} => Size(op) = 4
  BY DEF Size, Loads, Stores

(* Bytes and halfwords are not empty. *)
LEMMA PartSizes == ByteMod \in Nat \ {0} /\ ShortMod \in Nat \ {0}
<1>1. 1 \in 0 .. 4 /\ 2 \in 0 .. 4
  OBVIOUS
<1> QED
  BY <1>1, ByteFacts

(* A load from the same address: signed ones are extended alike, and a     *)
(* literal is a word of the file as long as memory still holds it.         *)
LEMMA LoadAgrees ==
  ASSUME NEW i, NEW d, NEW a \in Nat, NEW s, NEW c, Typed(s), Same(c, s),
         d.op = i.op, i.op \in Loads, d.rd = i.rd, i.rd \in Regs, d.rn = i.rn,
         i.index = "offset", Fits(i, a, s), ~LiteralAsWord(i, a, s),
         address(d, a, c) = Address(i, a, s), Address(i, a, s) \in Word,
         i.rn = "pc" => Address(i, a, s) = Wrap(Align(Wrap(a + 4)) + d.imm)
  PROVE  Same(Emitted(d, a, c), MachineStep(i, a, s)) /\ Typed(MachineStep(i, a, s))
<1> DEFINE at == Address(i, a, s)
           w == Read(s.mem, at, Size(i.op))
           m == Loaded(i.op, w)
<1>1. IsTransfer(i) /\ i.op \notin {"push", "pop", "stm", "ldm", "ldrd", "strd"} \cup Stores
  BY DEF IsTransfer, Loads, Stores
<1>2. MachineStep(i, a, s) = SetReg(s, i.rd, m)
  <2>1. ~WritesBack(i)
    BY <1>1 DEF WritesBack
  <2>2. Transfer(i, a, s) = SetReg(s, i.rd, m)
    BY <2>1 DEF Transfer, Loads, Stores
  <2> QED
    BY <1>1, <2>2 DEF MachineStep, IsTransfer, Loads, Compares
<1>3. Emitted(d, a, c) = SetReg(c, i.rd, LoadC(d, a, c))
  BY DEF Emitted, Loads, Stores, Compares
<1>4. /\ w \in Word /\ (i.op = "ldrsb" => w \in 0 .. ByteMod - 1)
      /\ (i.op = "ldrsh" => w \in 0 .. ShortMod - 1)
  <2>1. Size(i.op) \in {1, 2, 4}
    BY SizeIs
  <2>2. w \in 0 .. ByteAt(Size(i.op)) - 1 /\ w \in Word
    <3> HIDE DEF at
    <3> QED
      BY <2>1, ReadType DEF Typed, at
  <2> HIDE DEF w, at
  <2> QED
    BY <2>2, SizeIs, ByteFacts
<1>5. LoadC(d, a, c) = m /\ m \in Word
  <2>1. CASE i.rn = "pc"
    <3>1. Size(i.op) = 4 /\ w = Read(Image, at, 4)
      <4>1. ~(Size(i.op) < 4) /\ Read(s.mem, at, 4) = Read(Image, at, 4)
        BY <2>1 DEF LiteralAsWord
      <4>2. Size(i.op) = 4
        BY <4>1, SizeIs
      <4> QED
        BY <4>1, <4>2
    <3>2. InMem(at, 4)
      <4>1. Touched(i) = 4
        BY <1>1, <3>1 DEF Touched, Multiple
      <4> QED
        BY <1>1, <4>1 DEF Fits
    <3>3. i.op \notin {"ldrsb", "ldrsh"}
      BY <3>1, SizeIs
    <3>4. LoadC(d, a, c) = Read(Image, at, 4)
      <4> HIDE DEF at
      <4> QED
        BY <2>1, <3>2, <3>3 DEF LoadC, at
    <3>5. m = w
      BY <3>3 DEF Loaded
    <3> QED
      BY <1>4, <3>1, <3>4, <3>5
  <2>2. CASE i.rn # "pc"
    <3>1. Read(c.mem, address(d, a, c), Size(d.op)) = w
      BY DEF Same
    <3>2. CASE i.op = "ldrsb"
      <4>1. LoadC(d, a, c) = vita_sxtb(w)
        BY <2>2, <3>1, <3>2 DEF LoadC
      <4>2. m = SignExtend(w, ByteMod)
        BY <3>2 DEF Loaded
      <4> HIDE DEF w, m
      <4>3. w % ByteMod = w
        BY <1>4, <3>2, WordMod, PartSizes
      <4> QED
        BY <1>4, <4>1, <4>2, <4>3, ExtendExact
    <3>3. CASE i.op = "ldrsh"
      <4>1. LoadC(d, a, c) = vita_sxth(w)
        BY <2>2, <3>1, <3>3 DEF LoadC
      <4>2. m = SignExtend(w, ShortMod)
        BY <3>3 DEF Loaded
      <4> HIDE DEF w, m
      <4>3. w % ShortMod = w
        BY <1>4, <3>3, WordMod, PartSizes
      <4> QED
        BY <1>4, <4>1, <4>2, <4>3, ExtendExact
    <3>4. CASE i.op \notin {"ldrsb", "ldrsh"}
      <4>1. LoadC(d, a, c) = w
        BY <2>2, <3>1, <3>4 DEF LoadC
      <4>2. m = w
        BY <3>4 DEF Loaded
      <4> QED
        BY <1>4, <4>1, <4>2
    <3> QED
      BY <3>2, <3>3, <3>4
  <2> QED
    BY <2>1, <2>2
<1> HIDE DEF m
<1> QED
  BY <1>2, <1>3, <1>5, SetSame, SetTyped

(* A store to the same address. *)
LEMMA StoreAgrees ==
  ASSUME NEW i, NEW d, NEW a \in Nat, NEW s, NEW c, Typed(s), Same(c, s),
         d.op = i.op, i.op \in Stores, d.rd = i.rd, i.rd \in Regs, i.index = "offset",
         address(d, a, c) = Address(i, a, s), Address(i, a, s) \in Word
  PROVE  Same(Emitted(d, a, c), MachineStep(i, a, s)) /\ Typed(MachineStep(i, a, s))
<1> DEFINE at == Address(i, a, s)
           m == Write(s.mem, at, Size(i.op), s.r[i.rd])
<1>1. /\ IsTransfer(i)
      /\ i.op \notin {"push", "pop", "stm", "ldm", "ldrd", "strd"} \cup Loads
  BY DEF IsTransfer, Loads, Stores
<1>2. MachineStep(i, a, s) = SetMem(s, m)
  <2>1. ~WritesBack(i)
    BY <1>1 DEF WritesBack
  <2>2. Transfer(i, a, s) = SetMem(s, m)
    BY <2>1 DEF Transfer, Loads, Stores
  <2> QED
    BY <1>1, <2>2 DEF MachineStep, IsTransfer, Stores, Compares
<1>3. Emitted(d, a, c) = SetMem(c, m)
  BY DEF Emitted, Same, Loads, Stores, Compares
<1>4. m \in Memory
  BY SizeIs, RegisterType, WriteType DEF Typed
<1> HIDE DEF m
<1> QED
  BY <1>2, <1>3, <1>4, SetSame, SetTyped

--------------------------------------------------------------------------------
(* Pairs and register lists. *)

(* The two accesses of a pair.                                             *)
LEMMA DualAgrees ==
  ASSUME NEW i, NEW d, NEW a \in Nat, NEW s, NEW c, Typed(s), Same(c, s),
         d.op = i.op, i.op \in {"ldrd", "strd"}, d.rd = i.rd, i.rd \in Regs,
         d.rt2 = i.rt2, i.rt2 \in Regs, d.rn = i.rn, i.index = "offset",
         d.rm = NoReg, d.hasImm = TRUE, ~BaseLoaded(i),
         address(d, a, c) = Address(i, a, s), Address(i, a, s) \in Word
  PROVE  Same(Emitted(d, a, c), MachineStep(i, a, s)) /\ Typed(MachineStep(i, a, s))
<1> DEFINE at == Address(i, a, s)
           next == Wrap(at + 4)
<1>1. IsTransfer(i) /\ i.op \notin {"push", "pop", "stm", "ldm"} \cup Loads \cup Stores
  BY DEF IsTransfer, Loads, Stores
<1>2. MachineStep(i, a, s) = Transfer(i, a, s) /\ ~WritesBack(i)
  BY <1>1 DEF MachineStep, IsTransfer, Compares, WritesBack
<1>3. Emitted(d, a, c) = DualC(d, a, c)
  BY DEF Emitted, Loads, Stores, Compares
<1>4. next \in Word
  <2>1. at + 4 \in Int
    BY WordType
  <2> QED
    BY <2>1, WrapType
<1>5. CASE i.op = "ldrd"
  <2> DEFINE x == Read(s.mem, at, 4)
             y == Read(s.mem, next, 4)
             first == SetReg(c, i.rd, x)
  <2>1. Transfer(i, a, s) = SetReg(SetReg(s, i.rd, x), i.rt2, y)
    BY <1>2, <1>5 DEF Transfer, Loads, Stores
  <2>2. address(d, a, first) = address(d, a, c)
    <3>1. i.rd # i.rn
      BY <1>5 DEF BaseLoaded
    <3>2. first.r[d.rn] = c.r[d.rn]
      <4> HIDE DEF x
      <4>1. first.r = [c.r EXCEPT ![i.rd] = x]
        BY DEF SetReg, SetRegs
      <4>2. c.r \in Contents
        BY DEF Same, Typed
      <4> HIDE DEF first
      <4>3. CASE d.rn \in Regs
        BY <3>1, <4>1, <4>2, <4>3 DEF Contents
      <4>4. CASE d.rn \notin Regs
        BY <3>1, <4>1, <4>2, <4>4 DEF Contents
      <4> QED
        BY <4>3, <4>4
    <3> HIDE DEF first
    <3>3. d.rn # "pc" /\ ~(d.hasImm /\ d.imm # 0) => d.rm = NoReg
      OBVIOUS
    <3> QED
      BY <3>2, <3>3 DEF address
  <2>3. DualC(d, a, c) = SetReg(SetReg(c, i.rd, x), i.rt2, y)
    <3>1. Read(c.mem, address(d, a, c), 4) = x
      BY DEF Same
    <3>2. Read(c.mem, Wrap(address(d, a, first) + 4), 4) = y
      BY <2>2 DEF Same
    <3> HIDE DEF x, y, at, next
    <3> QED
      BY <1>5, <3>1, <3>2 DEF DualC
  <2>4. x \in Word /\ y \in Word
    BY <1>4, ReadType DEF Typed
  <2> HIDE DEF x, y
  <2>5. Typed(SetReg(s, i.rd, x))
    BY <2>4, SetTyped
  <2>6. Same(SetReg(c, i.rd, x), SetReg(s, i.rd, x))
    BY SetSame
  <2>7. /\ Typed(SetReg(SetReg(s, i.rd, x), i.rt2, y))
        /\ Same(SetReg(SetReg(c, i.rd, x), i.rt2, y), SetReg(SetReg(s, i.rd, x), i.rt2, y))
    <3> DEFINE t == SetReg(s, i.rd, x)
               u == SetReg(c, i.rd, x)
    <3> HIDE DEF t, u
    <3>1. Typed(SetReg(t, i.rt2, y)) /\ Same(SetReg(u, i.rt2, y), SetReg(t, i.rt2, y))
      BY <2>4, <2>5, <2>6, SetTyped, SetSame DEF t, u
    <3> QED
      BY <3>1 DEF t, u
  <2> QED
    BY <1>2, <1>3, <2>1, <2>3, <2>7
<1>6. CASE i.op = "strd"
  <2> DEFINE w == Write(s.mem, at, 4, s.r[i.rd])
             m == Write(w, next, 4, s.r[i.rt2])
  <2>1. Transfer(i, a, s) = SetMem(s, m)
    BY <1>2, <1>6 DEF Transfer, Loads, Stores
  <2>2. DualC(d, a, c) = SetMem(c, m)
    BY <1>6 DEF DualC, Same
  <2>3. m \in Memory
    <3>1. s.r[i.rd] \in Word /\ s.r[i.rt2] \in Word
      BY RegisterType
    <3>2. w \in Memory
      BY <3>1, WriteType DEF Typed
    <3> HIDE DEF w
    <3> QED
      BY <1>4, <3>1, <3>2, WriteType
  <2> HIDE DEF m
  <2> QED
    BY <1>2, <1>3, <2>1, <2>2, <2>3, SetSame, SetTyped
<1> QED
  BY <1>5, <1>6

(* The offset a register list adds. *)
LEMMA ListType ==
  ASSUME NEW list \in Seq(Regs \ {"sp"}), NEW x \in Word
  PROVE  /\ list \in Seq(Regs) /\ Len(list) \in Nat
         /\ Wrap(x - 4 * Len(list)) \in Word /\ Wrap(x + 4 * Len(list)) \in Word
         /\ \A k \in 1 .. Len(list) : list[k] \in Regs \ {"sp"}
<1>1. list \in Seq(Regs) /\ Len(list) \in Nat /\ \A k \in 1 .. Len(list) : list[k] \in Regs \ {"sp"}
  OBVIOUS
<1>2. x - 4 * Len(list) \in Int /\ x + 4 * Len(list) \in Int
  BY <1>1, WordType
<1> QED
  BY <1>1, <1>2, WrapType

(* A push, or a store of several registers below the stack pointer.        *)
LEMMA PushAgrees ==
  ASSUME NEW i, NEW d, NEW a \in Nat, NEW s, NEW c, Typed(s), Same(c, s),
         d.op = "push", d.list = i.list, i.list \in Seq(Regs \ {"sp"}),
         i.op = "push" \/ (i.op = "stm" /\ i.rn = "sp" /\ i.index = "pre" /\ i.add = FALSE)
  PROVE  Same(Emitted(d, a, c), MachineStep(i, a, s)) /\ Typed(MachineStep(i, a, s))
<1> DEFINE n == 4 * Len(i.list)
           sp == Wrap(s.r["sp"] - n)
           m == StoreList(s.mem, sp, i.list, s.r)
<1>1. MachineStep(i, a, s) = Transfer(i, a, s) /\ WritesBack(i)
  BY DEF MachineStep, IsTransfer, Compares, WritesBack, Multiple
<1>2. Emitted(d, a, c) = PushC(d, c)
  BY DEF Emitted, Loads, Stores, Compares
<1>3. Address(i, a, s) = sp
  BY DEF Address
<1>4. BaseAfter(i, a, s) = [reg |-> "sp", val |-> sp]
  BY DEF BaseAfter
<1>5. Transfer(i, a, s) = SetMem(SetReg(s, "sp", sp), m)
  <2> DEFINE b == BaseAfter(i, a, s)
  <2>1. b.reg = "sp" /\ b.val = sp
    BY <1>4
  <2> HIDE DEF b, sp
  <2> QED
    BY <1>1, <1>3, <2>1 DEF Transfer, Loads, Stores, b
<1>6. PushC(d, c) = SetMem(SetReg(c, "sp", sp), m)
  BY DEF PushC, Same
<1>7. sp \in Word /\ i.list \in Seq(Regs) /\ "sp" \in Regs
  BY ListType, RegisterType, MachineAssumption
<1> HIDE DEF sp
<1>8. m \in Memory
  BY <1>7, StoreListType DEF Typed
<1> HIDE DEF m
<1> DEFINE t == SetReg(s, "sp", sp)
           u == SetReg(c, "sp", sp)
<1>9. Typed(t) /\ Same(u, t)
  BY <1>7, SetTyped, SetSame
<1> HIDE DEF t, u
<1>10. Typed(SetMem(t, m)) /\ Same(SetMem(u, m), SetMem(t, m))
  BY <1>8, <1>9, SetTyped, SetSame
<1> QED
  BY <1>1, <1>2, <1>5, <1>6, <1>10 DEF t, u

(* A pop, or a load of several registers from the stack pointer up: the    *)
(* machine moves it before it loads them, the C after.                     *)
LEMMA PopAgrees ==
  ASSUME NEW i, NEW d, NEW a \in Nat, NEW s, NEW c, Typed(s), Same(c, s),
         d.op = "pop", d.list = i.list, i.list \in Seq(Regs \ {"sp"}),
         i.op = "pop" \/ (i.op = "ldm" /\ i.rn = "sp" /\ i.index = "pre" /\ i.add = TRUE)
  PROVE  Same(Emitted(d, a, c), MachineStep(i, a, s)) /\ Typed(MachineStep(i, a, s))
<1> DEFINE n == 4 * Len(i.list)
           at == s.r["sp"]
           sp == Wrap(at + n)
           t == SetReg(s, "sp", sp)
           l == LoadList(s.mem, at, i.list, s.r)
           m == LoadList(s.mem, at, i.list, t.r)
<1>1. MachineStep(i, a, s) = Transfer(i, a, s) /\ WritesBack(i)
  BY DEF MachineStep, IsTransfer, Compares, WritesBack, Multiple
<1>2. Emitted(d, a, c) = PopC(d, c)
  BY DEF Emitted, Loads, Stores, Compares
<1>3. Address(i, a, s) = at
  BY DEF Address
<1>4. BaseAfter(i, a, s) = [reg |-> "sp", val |-> sp]
  BY DEF BaseAfter
<1>5. Transfer(i, a, s) = SetRegs(t, m)
  <2> DEFINE b == BaseAfter(i, a, s)
  <2>1. b.reg = "sp" /\ b.val = sp
    BY <1>4
  <2> HIDE DEF b, sp, at
  <2> QED
    BY <1>1, <1>3, <2>1 DEF Transfer, Loads, Stores, b
<1>6. PopC(d, c) = SetRegs(c, [l EXCEPT !["sp"] = Wrap(@ + n)])
  BY DEF PopC, Same
<1>7. /\ sp \in Word /\ at \in Word /\ i.list \in Seq(Regs) /\ "sp" \in Regs
      /\ \A k \in 1 .. Len(i.list) : i.list[k] \in Regs \ {"sp"}
  BY ListType, RegisterType, MachineAssumption
<1>8. Typed(t) /\ Same(SetReg(c, "sp", sp), t) /\ t.r = [s.r EXCEPT !["sp"] = sp]
  <2> HIDE DEF sp
  <2> QED
    BY <1>7, SetTyped, SetSame DEF SetReg, SetRegs
<1>9. m \in Contents /\ l \in Contents
  <2> HIDE DEF t, at
  <2> QED
    BY <1>7, <1>8, LoadListType DEF Typed
<1>10. l["sp"] = at
  BY <1>7 DEF LoadList
<1>11. [l EXCEPT !["sp"] = Wrap(@ + n)] = m
  <2>1. [l EXCEPT !["sp"] = Wrap(@ + n)] = [l EXCEPT !["sp"] = sp]
    BY <1>10
  <2>2. ASSUME NEW q \in Regs PROVE m[q] = IF q = "sp" THEN sp ELSE l[q]
    <3>0. s.r \in [Regs -> Word]
      BY DEF Typed, Contents
    <3>1. CASE q = "sp"
      <4>1. ~ \E k \in 1 .. Len(i.list) : i.list[k] = q
        BY <1>7, <3>1
      <4>2. m[q] = t.r[q]
        <5> HIDE DEF t
        <5> QED
          BY <4>1 DEF LoadList
      <4>3. t.r[q] = sp
        <5> HIDE DEF sp, t
        <5> QED
          BY <1>8, <3>0, <3>1
      <4> QED
        BY <3>1, <4>2, <4>3
    <3>2. CASE q # "sp"
      <4>1. t.r[q] = s.r[q]
        <5> HIDE DEF sp, t
        <5> QED
          BY <1>8, <3>0, <3>2
      <4> HIDE DEF t
      <4>2. m[q] = l[q]
        BY <4>1 DEF LoadList
      <4> QED
        BY <3>2, <4>2
    <3> QED
      BY <3>1, <3>2
  <2> HIDE DEF l, m, sp
  <2>3. [l EXCEPT !["sp"] = sp] = m
    BY <1>9, <2>2 DEF Contents
  <2> QED
    BY <2>1, <2>3
<1> HIDE DEF l, m, t
<1>12. Typed(SetRegs(t, m))
  BY <1>8, <1>9, SetTyped
<1>13. SetRegs(t, m).f = s.f /\ SetRegs(t, m).mem = s.mem /\ SetRegs(t, m).r = m
  BY DEF SetRegs, SetReg, t
<1>14. SetRegs(c, m).f = c.f /\ SetRegs(c, m).mem = c.mem /\ SetRegs(c, m).r = m
  BY DEF SetRegs
<1>15. Same(SetRegs(c, m), SetRegs(t, m))
  BY <1>13, <1>14 DEF Same
<1> QED
  BY <1>1, <1>2, <1>5, <1>6, <1>11, <1>12, <1>15

--------------------------------------------------------------------------------
(* The encodings that access memory. *)

(* A single access, whatever its form.                                     *)
LEMMA SingleAgrees ==
  ASSUME NEW i, NEW d, NEW a \in Nat, NEW s, NEW c, Typed(s), Same(c, s),
         d.op = i.op, i.op \in Singles, d.rd = i.rd, i.rd \in Regs,
         i.op \in {"ldrd", "strd"} => d.rt2 = i.rt2 /\ i.rt2 \in Regs /\ i.rm = NoReg,
         i.index = "offset", i.amt = 0,
         d.rn = i.rn, i.rn \in Regs \cup {"pc"}, d.add = i.add, i.add \in BOOLEAN,
         i.rn = "pc" => i.add \/ i.op = "ldrd",
         \/ /\ i.rm = NoReg /\ d.rm = NoReg /\ d.hasImm = TRUE
            /\ d.imm = Scale(i) * i.imm /\ d.imm \in Nat
         \/ /\ i.rm \in Regs /\ d.rm = i.rm /\ d.hasImm = FALSE /\ i.add /\ i.rn \in Regs,
         Fits(i, a, s), ~Gap(i, a, s)
  PROVE  Same(Emitted(d, a, c), MachineStep(i, a, s)) /\ Typed(MachineStep(i, a, s))
<1>1. /\ address(d, a, c) = Address(i, a, s) /\ Address(i, a, s) \in Word
      /\ i.rn = "pc" /\ i.add => Address(i, a, s) = Wrap(Align(Wrap(a + 4)) + d.imm)
  BY AddressIs
<1>2. ~LiteralAsWord(i, a, s) /\ ~BaseLoaded(i)
  BY DEF Gap
<1>3. CASE i.op \in Loads
  <2>1. i.rn = "pc" => Address(i, a, s) = Wrap(Align(Wrap(a + 4)) + d.imm)
    BY <1>1, <1>3 DEF Loads
  <2> QED
    BY <1>1, <1>2, <1>3, <2>1, LoadAgrees
<1>4. CASE i.op \in Stores
  BY <1>1, <1>4, StoreAgrees
<1>5. CASE i.op \in {"ldrd", "strd"}
  <2>1. i.rm = NoReg /\ NoReg \notin Regs
    BY <1>5, MachineAssumption
  <2>2. d.rm = NoReg /\ d.hasImm = TRUE
    BY <2>1
  <2> QED
    BY <1>1, <1>2, <1>5, <2>2, DualAgrees
<1> QED
  BY <1>3, <1>4, <1>5 DEF Singles

(* The 16-bit loads, stores, PUSH and POP: outside the gaps the C leaves   *)
(* the state the machine leaves.                                           *)
LEMMA Mem16Agrees ==
  ASSUME NEW i, NEW d, d = Decode(i), NEW a \in Nat, NEW s, NEW c, Typed(s), Same(c, s),
         EncodedMem16(i), d.op # "none", Fits(i, a, s), ~Gap(i, a, s)
  PROVE  Same(Emitted(d, a, c), MachineStep(i, a, s)) /\ Typed(MachineStep(i, a, s))
<1>1. CASE Fills(i, [form |-> {"mem reg"}, op |-> Loads \cup Stores, rd |-> Regs, rn |-> Regs,
               rm |-> Regs])
  <2>1. /\ i.form = "mem reg" /\ i.op \in Loads \cup Stores /\ i.rd \in Regs /\ i.rn \in Regs
        /\ i.rm \in Regs /\ i.index = "offset" /\ i.amt = 0 /\ i.add = TRUE
    BY <1>1 DEF Fills, Guest
  <2>2. d.op = i.op /\ d.rd = i.rd /\ d.rn = i.rn /\ d.rm = i.rm /\ d.hasImm = FALSE /\ d.add = TRUE
    BY <2>1 DEF Decode, DecodeMem16, Insn, Absent
  <2>3. i.op \in Singles /\ i.op \notin {"ldrd", "strd"} /\ i.rn # "pc"
    BY <2>1, MachineAssumption DEF Singles, Loads, Stores
  <2> QED
    BY <2>1, <2>2, <2>3, SingleAgrees
<1>2. CASE Fills(i, [form |-> {"mem imm"}, op |-> {"ldr", "ldrb", "ldrh", "str", "strb", "strh"},
               rd |-> Regs, rn |-> Regs, imm |-> Scaled])
  <2>1. /\ i.form = "mem imm" /\ i.op \in {"ldr", "ldrb", "ldrh", "str", "strb", "strh"}
        /\ i.rd \in Regs /\ i.rn \in Regs /\ i.imm \in Scaled
        /\ i.rm = NoReg /\ i.index = "offset" /\ i.amt = 0 /\ i.add = TRUE
    BY <1>2 DEF Fills, Guest
  <2>2. /\ d.op = i.op /\ d.rd = i.rd /\ d.rn = i.rn /\ d.rm = NoReg /\ d.hasImm = TRUE
        /\ d.add = TRUE /\ d.imm = Size(i.op) * i.imm
    BY <2>1 DEF Decode, DecodeMem16, Insn, Absent
  <2>3. /\ i.op \in Loads \cup Stores /\ i.op \in Singles /\ i.op \notin {"ldrd", "strd"}
        /\ i.rn # "pc"
    BY <2>1, MachineAssumption DEF Singles, Loads, Stores
  <2>4. d.imm = Scale(i) * i.imm
    BY <2>1, <2>2 DEF Scale
  <2>5. d.imm \in Nat
    <3>1. Size(i.op) \in {1, 2, 4}
      BY <2>3, SizeIs
    <3>2. i.imm \in Scaled /\ d.imm = Size(i.op) * i.imm
      BY <2>1, <2>2
    <3>3. 4 * i.imm \in Nat /\ 2 * i.imm \in Nat /\ 1 * i.imm \in Nat
      BY <3>2, ScaledType
    <3> QED
      BY <3>1, <3>2, <3>3
  <2> QED
    BY <2>1, <2>2, <2>3, <2>4, <2>5, SingleAgrees
<1>3. CASE Fills(i, [form |-> {"mem imm"}, op |-> {"ldr"}, rd |-> Regs, rn |-> {"pc"},
                 imm |-> Scaled])
  <2>1. /\ i.form = "mem imm" /\ i.op = "ldr" /\ i.rd \in Regs /\ i.rn = "pc" /\ i.imm \in Scaled
        /\ i.rm = NoReg /\ i.index = "offset" /\ i.amt = 0 /\ i.add = TRUE
    BY <1>3 DEF Fills, Guest
  <2>2. /\ d.op = i.op /\ d.rd = i.rd /\ d.rn = i.rn /\ d.rm = NoReg /\ d.hasImm = TRUE
        /\ d.add = TRUE /\ d.imm = Size(i.op) * i.imm
    BY <2>1 DEF Decode, DecodeMem16, Insn, Absent
  <2>3. i.op \in Loads \cup Stores /\ i.op \in Singles /\ i.op \notin {"ldrd", "strd"}
    BY <2>1 DEF Singles, Loads, Stores
  <2>4. d.imm = Scale(i) * i.imm
    BY <2>1, <2>2 DEF Scale
  <2>5. d.imm \in Nat
    <3>1. Size(i.op) \in {1, 2, 4}
      BY <2>3, SizeIs
    <3>2. i.imm \in Scaled /\ d.imm = Size(i.op) * i.imm
      BY <2>1, <2>2
    <3>3. 4 * i.imm \in Nat /\ 2 * i.imm \in Nat /\ 1 * i.imm \in Nat
      BY <3>2, ScaledType
    <3> QED
      BY <3>1, <3>2, <3>3
  <2> QED
    BY <2>1, <2>2, <2>3, <2>4, <2>5, SingleAgrees
<1>4. CASE Fills(i, [form |-> {"stack"}, op |-> {"push", "pop"}, list |-> Seq(Regs \ {"sp"})])
  <2>1. i.form = "stack" /\ i.op \in {"push", "pop"} /\ i.list \in Seq(Regs \ {"sp"})
    BY <1>4 DEF Fills, Guest
  <2>2. d.op = i.op /\ d.list = i.list
    BY <2>1 DEF Decode, DecodeMisc16, Insn, Absent
  <2> QED
    BY <2>1, <2>2, PushAgrees, PopAgrees
<1> QED
  BY <1>1, <1>2, <1>3, <1>4 DEF EncodedMem16

(* The 32-bit ones: outside the gaps, the same. *)
LEMMA Mem32Agrees ==
  ASSUME NEW i, NEW d, d = Decode(i), NEW a \in Nat, NEW s, NEW c, Typed(s), Same(c, s),
         EncodedMem32(i), d.op # "none", Fits(i, a, s), ~Gap(i, a, s)
  PROVE  Same(Emitted(d, a, c), MachineStep(i, a, s)) /\ Typed(MachineStep(i, a, s))
<1>1. CASE Fills(i, [form |-> {"mem.w"}, op |-> Loads \cup Stores, rd |-> Regs, rn |-> Regs,
               imm |-> Word, hasImm |-> {TRUE}, add |-> BOOLEAN,
               index |-> {"offset", "pre", "post"}])
  <2>1. /\ i.form = "mem.w" /\ i.op \in Loads \cup Stores /\ i.rd \in Regs /\ i.rn \in Regs
        /\ i.imm \in Word /\ i.hasImm = TRUE /\ i.add \in BOOLEAN /\ i.rm = NoReg /\ i.amt = 0
    BY <1>1 DEF Fills, Guest
  <2>2. i.index = "offset" /\ ~LiteralBelow(i)
    BY <2>1 DEF Gap, AddressDropped
  <2>3. /\ d.op = i.op /\ d.rd = i.rd /\ d.rn = i.rn /\ d.rm = NoReg /\ d.hasImm = TRUE
        /\ d.add = i.add /\ d.imm = i.imm
    BY <2>1, <2>2 DEF Decode, DecodeMem32, Insn, Absent
  <2>4. i.op \in Singles /\ i.op \notin {"ldrd", "strd"} /\ i.rn # "pc"
    BY <2>1, MachineAssumption DEF Singles, Loads, Stores
  <2>5. d.imm = Scale(i) * i.imm /\ d.imm \in Nat
    <3>1. Scale(i) = 1 /\ i.imm \in Nat
      BY <2>1, WordType DEF Scale
    <3> QED
      BY <2>3, <3>1
  <2> QED
    BY <2>1, <2>2, <2>3, <2>4, <2>5, SingleAgrees
<1>2. CASE Fills(i, [form |-> {"mem.w"}, op |-> Loads \cup Stores, rd |-> Regs, rn |-> Regs,
               rm |-> Regs, amt |-> 0 .. 3])
  <2>1. /\ i.form = "mem.w" /\ i.op \in Loads \cup Stores /\ i.rd \in Regs /\ i.rn \in Regs
        /\ i.rm \in Regs /\ i.hasImm = FALSE /\ i.add = TRUE /\ i.index = "offset"
    BY <1>2 DEF Fills, Guest
  <2>2. i.amt = 0 /\ ~LiteralBelow(i)
    BY <2>1 DEF Gap, AddressDropped
  <2>3. d.op = i.op /\ d.rd = i.rd /\ d.rn = i.rn /\ d.rm = i.rm /\ d.hasImm = FALSE /\ d.add = TRUE
    BY <2>1, <2>2 DEF Decode, DecodeMem32, Insn, Absent
  <2>4. i.op \in Singles /\ i.op \notin {"ldrd", "strd"} /\ i.rn # "pc"
    BY <2>1, MachineAssumption DEF Singles, Loads, Stores
  <2> QED
    BY <2>1, <2>2, <2>3, <2>4, SingleAgrees
<1>3. CASE Fills(i, [form |-> {"mem.w"}, op |-> Loads, rd |-> Regs, rn |-> {"pc"}, imm |-> Word,
               hasImm |-> {TRUE}, add |-> BOOLEAN])
  <2>0. /\ i.form = "mem.w" /\ i.op \in Loads /\ i.rd \in Regs /\ i.rn = "pc"
        /\ i.imm \in Word /\ i.hasImm = TRUE /\ i.add \in BOOLEAN /\ i.rm = NoReg /\ i.amt = 0
        /\ i.index = "offset"
    BY <1>3 DEF Fills, Guest
  <2>1. /\ i.form = "mem.w" /\ i.op \in Loads /\ i.rd \in Regs /\ i.rn = "pc"
        /\ i.imm \in Word /\ i.hasImm = TRUE /\ i.add = TRUE /\ i.rm = NoReg /\ i.amt = 0
        /\ i.index = "offset" /\ ~LiteralBelow(i)
    BY <2>0 DEF Gap, LiteralBelow
  <2>2. /\ d.op = i.op /\ d.rd = i.rd /\ d.rn = i.rn /\ d.rm = NoReg /\ d.hasImm = TRUE
        /\ d.add = TRUE /\ d.imm = i.imm
    BY <2>1 DEF Decode, DecodeMem32, Insn, Absent
  <2>3. i.op \in Singles /\ i.op \notin {"ldrd", "strd"}
    BY <2>1 DEF Singles, Loads
  <2>4. d.imm = Scale(i) * i.imm /\ d.imm \in Nat
    <3>1. Scale(i) = 1 /\ i.imm \in Nat
      BY <2>1, WordType DEF Scale
    <3> QED
      BY <2>2, <3>1
  <2> QED
    BY <2>1, <2>2, <2>3, <2>4, SingleAgrees
<1>4. CASE Fills(i, [form |-> {"dual"}, op |-> {"ldrd", "strd"}, rd |-> Regs, rt2 |-> Regs,
               rn |-> Regs, imm |-> Scaled, add |-> BOOLEAN, index |-> {"offset", "pre", "post"}])
  <2>1. /\ i.form = "dual" /\ i.op \in {"ldrd", "strd"} /\ i.rd \in Regs /\ i.rt2 \in Regs
        /\ i.rn \in Regs /\ i.imm \in Scaled /\ i.add \in BOOLEAN /\ i.rm = NoReg /\ i.amt = 0
    BY <1>4 DEF Fills, Guest
  <2>2. i.index = "offset"
    BY <2>1 DEF Gap, AddressDropped
  <2>3. /\ d.op = i.op /\ d.rd = i.rd /\ d.rt2 = i.rt2 /\ d.rn = i.rn /\ d.rm = NoReg
        /\ d.hasImm = TRUE /\ d.add = i.add /\ d.imm = 4 * i.imm
    BY <2>1 DEF Decode, DecodeMany32, Insn, Absent
  <2>4. i.op \in Singles /\ i.rn # "pc"
    BY <2>1, MachineAssumption DEF Singles
  <2>5. d.imm = Scale(i) * i.imm /\ d.imm \in Nat
    <3>1. Scale(i) = 4
      BY <2>1 DEF Scale
    <3> QED
      BY <2>1, <2>3, <3>1, ScaledType
  <2> QED
    BY <2>1, <2>2, <2>3, <2>4, <2>5, SingleAgrees
<1>5. CASE Fills(i, [form |-> {"dual"}, op |-> {"ldrd"}, rd |-> Regs, rt2 |-> Regs, rn |-> {"pc"},
               imm |-> Scaled, add |-> BOOLEAN])
  <2>1. /\ i.form = "dual" /\ i.op = "ldrd" /\ i.rd \in Regs /\ i.rt2 \in Regs
        /\ i.rn = "pc" /\ i.imm \in Scaled /\ i.add \in BOOLEAN /\ i.rm = NoReg /\ i.amt = 0
        /\ i.index = "offset"
    BY <1>5 DEF Fills, Guest
  <2>3. /\ d.op = i.op /\ d.rd = i.rd /\ d.rt2 = i.rt2 /\ d.rn = i.rn /\ d.rm = NoReg
        /\ d.hasImm = TRUE /\ d.add = i.add /\ d.imm = 4 * i.imm
    BY <2>1 DEF Decode, DecodeMany32, Insn, Absent
  <2>4. i.op \in Singles
    BY <2>1 DEF Singles
  <2>5. d.imm = Scale(i) * i.imm /\ d.imm \in Nat
    <3>1. Scale(i) = 4
      BY <2>1 DEF Scale
    <3> QED
      BY <2>1, <2>3, <3>1, ScaledType
  <2> QED
    BY <2>1, <2>3, <2>4, <2>5, SingleAgrees
<1>6. CASE Fills(i, [form |-> {"multiple"}, op |-> {"ldm", "stm"}, rn |-> Regs,
               list |-> Seq(Regs \ {"sp"}), add |-> BOOLEAN, index |-> {"offset", "pre"}])
  <2>1. /\ i.form = "multiple" /\ i.op \in {"ldm", "stm"} /\ i.list \in Seq(Regs \ {"sp"})
        /\ i.index \in {"offset", "pre"}
    BY <1>6 DEF Fills, Guest
  <2>2. i.index = "pre" /\ i.add = (i.op = "ldm")
    BY <2>1 DEF Gap, AddressDropped
  <2>3. /\ d.op = IF i.rn # "sp" THEN "none" ELSE IF i.op = "ldm" THEN "pop" ELSE "push"
        /\ d.list = i.list
    BY <2>1 DEF Decode, DecodeMany32, Insn, Absent
  <2>4. i.rn = "sp"
    BY <2>3
  <2>5. CASE i.op = "ldm"
    BY <2>1, <2>2, <2>3, <2>4, <2>5, PopAgrees
  <2>6. CASE i.op = "stm"
    BY <2>1, <2>2, <2>3, <2>4, <2>6, PushAgrees
  <2> QED
    BY <2>1, <2>5, <2>6
<1> QED
  BY <1>1, <1>2, <1>3, <1>4, <1>5, <1>6 DEF EncodedMem32

--------------------------------------------------------------------------------
(* What the decoder keeps of every instruction. *)

FlagOps == Sums \cup Logic \cup Shifts \cup {"mul"}
Moves   == Singles \cup {"push", "pop", "stm", "ldm"}

(* What is kept of an instruction, whatever becomes of its operands.       *)
Decoded(i, d) ==
  /\ d.rd = i.rd /\ d.rt2 = i.rt2 /\ d.s = i.s /\ d.list = i.list /\ i.shift \in Shifts
  /\ i.s \/ i.op \in Compares => i.op \in FlagOps
  /\ \/ d.op = i.op /\ i.op \notin {"stm", "ldm"}
     \/ i.op = "stm" /\ d.op = "push" /\ i.rn = "sp"
     \/ i.op = "ldm" /\ d.op = "pop" /\ i.rn = "sp"
     \/ i.op \notin Moves /\ d.op \notin Moves /\ (d.op \in Compares <=> i.op \in Compares)
  /\ i.op \in {"push", "pop"} <=> i.form = "stack"
  /\ i.form # "stack" => i.rd \in Regs \/ i.rn \in Regs
  /\ i.op \notin Compares \cup Moves => i.rd \in Regs

(* 16-bit data processing. *)
LEMMA DecodedAlu16 ==
  ASSUME NEW i, NEW d, d = Decode(i), EncodedAlu16(i), d.op # "none"
  PROVE  Decoded(i, d)
<1>1. CASE Fills(i, [form |-> {"shift imm"}, op |-> {"lsl", "lsr", "asr"}, s |-> {TRUE},
                 rd |-> Regs, rm |-> Regs, amt |-> Amount])
  <2>1. /\ i.form = "shift imm" /\ i.op \in {"lsl", "lsr", "asr"} /\ i.s = TRUE /\ i.rd \in Regs
        /\ i.rn = NoReg /\ i.rt2 = NoReg /\ i.shift = "lsl" /\ i.list = << >>
    BY <1>1 DEF Fills, Guest
  <2>2. /\ d.rd = i.rd /\ d.rt2 = i.rt2 /\ d.s = i.s /\ d.list = i.list
        /\ d.op = i.op
    BY <2>1 DEF Decode, DecodeAlu16, Insn, Absent
  <2> QED
    BY <1>1, <2>1, <2>2 DEF Decoded, Moves, Singles, FlagOps, Sums, Logic, Shifts, Loads,
       Stores, Compares
<1>2. CASE Fills(i, [form |-> {"add/sub"}, op |-> {"add", "sub"}, s |-> {TRUE}, rd |-> Regs,
                 rn |-> Regs, rm |-> Regs])
  <2>1. /\ i.form = "add/sub" /\ i.op \in {"add", "sub"} /\ i.s = TRUE /\ i.rd \in Regs
        /\ i.rn \in Regs /\ i.rt2 = NoReg /\ i.shift = "lsl" /\ i.list = << >>
    BY <1>2 DEF Fills, Guest
  <2>2. /\ d.rd = i.rd /\ d.rt2 = i.rt2 /\ d.s = i.s /\ d.list = i.list
        /\ d.op = i.op
    BY <2>1 DEF Decode, DecodeAlu16, Insn, Absent
  <2> QED
    BY <1>2, <2>1, <2>2 DEF Decoded, Moves, Singles, FlagOps, Sums, Logic, Shifts, Loads,
       Stores, Compares
<1>3. CASE Fills(i, [form |-> {"add/sub"}, op |-> {"add", "sub"}, s |-> {TRUE}, rd |-> Regs,
                 rn |-> Regs, imm |-> Word, hasImm |-> {TRUE}])
  <2>1. /\ i.form = "add/sub" /\ i.op \in {"add", "sub"} /\ i.s = TRUE /\ i.rd \in Regs
        /\ i.rn \in Regs /\ i.rt2 = NoReg /\ i.shift = "lsl" /\ i.list = << >>
    BY <1>3 DEF Fills, Guest
  <2>2. /\ d.rd = i.rd /\ d.rt2 = i.rt2 /\ d.s = i.s /\ d.list = i.list
        /\ d.op = i.op
    BY <2>1 DEF Decode, DecodeAlu16, Insn, Absent
  <2> QED
    BY <1>3, <2>1, <2>2 DEF Decoded, Moves, Singles, FlagOps, Sums, Logic, Shifts, Loads,
       Stores, Compares
<1>4. CASE Fills(i, [form |-> {"imm8"}, op |-> {"mov", "cmp", "add", "sub"}, s |-> {TRUE},
                 rd |-> Regs, rn |-> Regs, imm |-> Word, hasImm |-> {TRUE}])
  <2>1. /\ i.form = "imm8" /\ i.op \in {"mov", "cmp", "add", "sub"} /\ i.s = TRUE
        /\ i.rd \in Regs /\ i.rn \in Regs /\ i.rt2 = NoReg /\ i.shift = "lsl" /\ i.list = << >>
    BY <1>4 DEF Fills, Guest
  <2>2. /\ d.rd = i.rd /\ d.rt2 = i.rt2 /\ d.s = i.s /\ d.list = i.list
        /\ d.op = i.op
    BY <2>1 DEF Decode, DecodeAlu16, Insn, Absent
  <2> QED
    BY <1>4, <2>1, <2>2 DEF Decoded, Moves, Singles, FlagOps, Sums, Logic, Shifts, Loads,
       Stores, Compares
<1>5. CASE Fills(i, [form |-> {"reg"}, s |-> {TRUE}, rd |-> Regs, rn |-> Regs, rm |-> Regs,
                 op |-> {"and", "eor", "lsl", "lsr", "asr", "adc", "sbc", "ror", "tst", "cmp",
                 "cmn", "orr", "mul", "bic", "mvn"}])
  <2>1. /\ i.form = "reg"
        /\ i.op \in {"and", "eor", "lsl", "lsr", "asr", "adc", "sbc", "ror", "tst", "cmp",
                     "cmn", "orr", "mul", "bic", "mvn"}
        /\ i.s = TRUE /\ i.rd \in Regs /\ i.rn \in Regs /\ i.rt2 = NoReg /\ i.shift = "lsl"
        /\ i.list = << >>
    BY <1>5 DEF Fills, Guest
  <2>4. i.form = "reg" /\ i.op # "rsb" /\ i.s = TRUE /\ i.rt2 = NoReg /\ i.list = << >>
    BY <2>1
  <2>2. /\ d.rd = i.rd /\ d.rt2 = i.rt2 /\ d.s = i.s /\ d.list = i.list
        /\ d.op = i.op
    BY <2>4 DEF Decode, DecodeAlu16, Insn, Absent
  <2>3. i.op \in FlagOps /\ i.op \notin Moves /\ i.op \notin {"push", "pop", "stm", "ldm"}
    BY <2>1 DEF FlagOps, Sums, Logic, Shifts, Moves, Singles, Loads, Stores
  <2> QED
    BY <2>1, <2>2, <2>3 DEF Decoded, Shifts
<1>6. CASE Fills(i, [form |-> {"reg"}, op |-> {"rsb"}, s |-> {TRUE}, rd |-> Regs, rn |-> Regs,
                 hasImm |-> {TRUE}])
  <2>1. /\ i.form = "reg" /\ i.op = "rsb" /\ i.s = TRUE /\ i.rd \in Regs /\ i.rn \in Regs
        /\ i.rt2 = NoReg /\ i.shift = "lsl" /\ i.list = << >>
    BY <1>6 DEF Fills, Guest
  <2>2. /\ d.rd = i.rd /\ d.rt2 = i.rt2 /\ d.s = i.s /\ d.list = i.list
        /\ d.op = i.op
    BY <2>1 DEF Decode, DecodeAlu16, Insn, Absent
  <2> QED
    BY <1>6, <2>1, <2>2 DEF Decoded, Moves, Singles, FlagOps, Sums, Logic, Shifts, Loads,
       Stores, Compares
<1>7. CASE /\ Fills(i, [form |-> {"hi"}, op |-> {"add", "cmp", "mov"}, s |-> BOOLEAN,
                 rd |-> Regs, rn |-> Regs, rm |-> Regs \cup {"pc"}])
           /\ i.rn = i.rd /\ i.s = (i.op = "cmp")
  <2>1. /\ i.form = "hi" /\ i.op \in {"add", "cmp", "mov"} /\ i.s \in BOOLEAN /\ i.rd \in Regs
        /\ i.rn \in Regs /\ i.rt2 = NoReg /\ i.shift = "lsl" /\ i.list = << >>
    BY <1>7 DEF Fills, Guest
  <2>2. /\ d.rd = i.rd /\ d.rt2 = i.rt2 /\ d.s = i.s /\ d.list = i.list
        /\ d.op = i.op
    BY <2>1, <1>7 DEF Decode, DecodeAlu16, Insn, Absent
  <2> QED
    BY <1>7, <2>1, <2>2 DEF Decoded, Moves, Singles, FlagOps, Sums, Logic, Shifts, Loads,
       Stores, Compares
<1>8. CASE Fills(i, [form |-> {"sp/pc"}, op |-> {"add", "sub"}, rd |-> Regs, rn |-> Regs,
                 imm |-> Scaled, hasImm |-> {TRUE}])
  <2>1. /\ i.form = "sp/pc" /\ i.op \in {"add", "sub"} /\ i.s = FALSE /\ i.rd \in Regs
        /\ i.rn \in Regs /\ i.rt2 = NoReg /\ i.shift = "lsl" /\ i.list = << >>
    BY <1>8 DEF Fills, Guest
  <2>2. /\ d.rd = i.rd /\ d.rt2 = i.rt2 /\ d.s = i.s /\ d.list = i.list
        /\ d.op = i.op
    BY <2>1 DEF Decode, DecodeMisc16, Insn, Absent
  <2> QED
    BY <1>8, <2>1, <2>2 DEF Decoded, Moves, Singles, FlagOps, Sums, Logic, Shifts, Loads,
       Stores, Compares
<1>9. CASE Fills(i, [form |-> {"sp/pc"}, op |-> {"adr"}, rd |-> Regs, rn |-> {"pc"},
                 imm |-> Scaled, hasImm |-> {TRUE}])
  <2>1. /\ i.form = "sp/pc" /\ i.op = "adr" /\ i.s = FALSE /\ i.rd \in Regs /\ i.rn = "pc"
        /\ i.rt2 = NoReg /\ i.shift = "lsl" /\ i.list = << >>
    BY <1>9 DEF Fills, Guest
  <2>2. /\ d.rd = i.rd /\ d.rt2 = i.rt2 /\ d.s = i.s /\ d.list = i.list
        /\ d.op = i.op
    BY <2>1 DEF Decode, DecodeMisc16, Insn, Absent
  <2> QED
    BY <1>9, <2>1, <2>2 DEF Decoded, Moves, Singles, FlagOps, Sums, Logic, Shifts, Loads,
       Stores, Compares
<1>10. CASE Fills(i, [form |-> {"extend"}, rd |-> Regs, rm |-> Regs, op |-> {"sxtb", "sxth",
                 "uxtb", "uxth", "rev", "rev16", "revsh"}])
  <2>1. /\ i.form = "extend"
        /\ i.op \in {"sxtb", "sxth", "uxtb", "uxth", "rev", "rev16", "revsh"} /\ i.s = FALSE
        /\ i.rd \in Regs /\ i.rn = NoReg /\ i.rt2 = NoReg /\ i.shift = "lsl" /\ i.list = << >>
    BY <1>10 DEF Fills, Guest
  <2>2. /\ d.rd = i.rd /\ d.rt2 = i.rt2 /\ d.s = i.s /\ d.list = i.list
        /\ d.op = i.op \/ (i.op = "revsh" /\ d.op = "rev")
    BY <2>1 DEF Decode, DecodeMisc16, Insn, Absent
  <2> QED
    BY <1>10, <2>1, <2>2 DEF Decoded, Moves, Singles, FlagOps, Sums, Logic, Shifts, Loads,
       Stores, Compares
<1> QED
  BY <1>1, <1>2, <1>3, <1>4, <1>5, <1>6, <1>7, <1>8, <1>9, <1>10 DEF EncodedAlu16

(* 16-bit loads and stores. *)
LEMMA DecodedMem16 ==
  ASSUME NEW i, NEW d, d = Decode(i), EncodedMem16(i), d.op # "none"
  PROVE  Decoded(i, d)
<1>1. CASE Fills(i, [form |-> {"mem reg"}, op |-> Loads \cup Stores, rd |-> Regs, rn |-> Regs,
                 rm |-> Regs])
  <2>1. /\ i.form = "mem reg" /\ i.op \in Loads \cup Stores /\ i.s = FALSE /\ i.rd \in Regs
        /\ i.rn \in Regs /\ i.rt2 = NoReg /\ i.shift = "lsl" /\ i.list = << >>
    BY <1>1 DEF Fills, Guest
  <2>2. /\ d.rd = i.rd /\ d.rt2 = i.rt2 /\ d.s = i.s /\ d.list = i.list
        /\ d.op = i.op
    BY <2>1 DEF Decode, DecodeMem16, Insn, Absent
  <2> QED
    BY <1>1, <2>1, <2>2 DEF Decoded, Moves, Singles, FlagOps, Sums, Logic, Shifts, Loads,
       Stores, Compares
<1>2. CASE Fills(i, [form |-> {"mem imm"}, op |-> {"ldr", "ldrb", "ldrh", "str", "strb",
                 "strh"}, rd |-> Regs, rn |-> Regs, imm |-> Scaled])
  <2>1. /\ i.form = "mem imm" /\ i.op \in {"ldr", "ldrb", "ldrh", "str", "strb", "strh"}
        /\ i.s = FALSE /\ i.rd \in Regs /\ i.rn \in Regs /\ i.rt2 = NoReg /\ i.shift = "lsl"
        /\ i.list = << >>
    BY <1>2 DEF Fills, Guest
  <2>2. /\ d.rd = i.rd /\ d.rt2 = i.rt2 /\ d.s = i.s /\ d.list = i.list
        /\ d.op = i.op
    BY <2>1 DEF Decode, DecodeMem16, Insn, Absent
  <2> QED
    BY <1>2, <2>1, <2>2 DEF Decoded, Moves, Singles, FlagOps, Sums, Logic, Shifts, Loads,
       Stores, Compares
<1>3. CASE Fills(i, [form |-> {"mem imm"}, op |-> {"ldr"}, rd |-> Regs, rn |-> {"pc"},
                 imm |-> Scaled])
  <2>1. /\ i.form = "mem imm" /\ i.op = "ldr" /\ i.s = FALSE /\ i.rd \in Regs /\ i.rn = "pc"
        /\ i.rt2 = NoReg /\ i.shift = "lsl" /\ i.list = << >>
    BY <1>3 DEF Fills, Guest
  <2>2. /\ d.rd = i.rd /\ d.rt2 = i.rt2 /\ d.s = i.s /\ d.list = i.list
        /\ d.op = i.op
    BY <2>1 DEF Decode, DecodeMem16, Insn, Absent
  <2> QED
    BY <1>3, <2>1, <2>2 DEF Decoded, Moves, Singles, FlagOps, Sums, Logic, Shifts, Loads,
       Stores, Compares
<1>4. CASE Fills(i, [form |-> {"stack"}, op |-> {"push", "pop"}, list |-> Seq(Regs \ {"sp"})])
  <2>1. /\ i.form = "stack" /\ i.op \in {"push", "pop"} /\ i.s = FALSE /\ i.rd = NoReg
        /\ i.rn = NoReg /\ i.rt2 = NoReg /\ i.shift = "lsl" /\ i.list \in Seq(Regs \ {"sp"})
    BY <1>4 DEF Fills, Guest
  <2>2. /\ d.rd = i.rd /\ d.rt2 = i.rt2 /\ d.s = i.s /\ d.list = i.list
        /\ d.op = i.op
    BY <2>1 DEF Decode, DecodeMisc16, Insn, Absent
  <2> QED
    BY <1>4, <2>1, <2>2 DEF Decoded, Moves, Singles, FlagOps, Sums, Logic, Shifts, Loads,
       Stores, Compares
<1> QED
  BY <1>1, <1>2, <1>3, <1>4 DEF EncodedMem16

(* 32-bit data processing. *)
LEMMA DecodedAlu32 ==
  ASSUME NEW i, NEW d, d = Decode(i), EncodedAlu32(i), d.op # "none"
  PROVE  Decoded(i, d)
<1>1. CASE /\ Fills(i, [form |-> {"alu.w"}, op |-> Three \cup {"mov", "mvn"} \cup Compares,
                 s |-> BOOLEAN, rd |-> Regs \cup {NoReg}, rn |-> Regs \cup {NoReg},
                 rm |-> Regs, shift |-> Shifts, amt |-> Amount])
           /\ i.rd = NoReg <=> i.op \in Compares
           /\ i.rn = NoReg <=> i.op \in {"mov", "mvn"}
           /\ i.op \in Compares => i.s
  <2>1. /\ i.form = "alu.w" /\ i.op \in Three \cup {"mov", "mvn"} \cup Compares
        /\ i.s \in BOOLEAN /\ i.rd \in Regs \cup {NoReg} /\ i.rn \in Regs \cup {NoReg}
        /\ i.rt2 = NoReg /\ i.shift \in Shifts /\ i.list = << >>
    BY <1>1 DEF Fills, Guest
  <2>2. /\ d.rd = i.rd /\ d.rt2 = i.rt2 /\ d.s = i.s /\ d.list = i.list
        /\ \/ d.op = i.op
           \/ i.op = "orn" /\ d.op = "mvn"
           \/ i.op = "teq" /\ d.op = "tst"
    BY <2>1 DEF Decode, DecodeAlu32, Insn, Absent
  <2> QED
    BY <1>1, <2>1, <2>2 DEF Decoded, Moves, Singles, FlagOps, Sums, Logic, Shifts, Loads,
       Stores, Compares, Three
<1>2. CASE /\ Fills(i, [form |-> {"alu.w"}, op |-> Three \cup {"mov", "mvn"} \cup Compares,
                 s |-> BOOLEAN, rd |-> Regs \cup {NoReg}, rn |-> Regs \cup {NoReg},
                 imm |-> 0 .. ByteMod - 1, hasImm |-> {TRUE}, rotated |-> BOOLEAN,
                 rot |-> Amount])
           /\ Modified(i)
           /\ i.rd = NoReg <=> i.op \in Compares
           /\ i.rn = NoReg <=> i.op \in {"mov", "mvn"}
           /\ i.op \in Compares => i.s
  <2>1. /\ i.form = "alu.w" /\ i.op \in Three \cup {"mov", "mvn"} \cup Compares
        /\ i.s \in BOOLEAN /\ i.rd \in Regs \cup {NoReg} /\ i.rn \in Regs \cup {NoReg}
        /\ i.rt2 = NoReg /\ i.shift = "lsl" /\ i.list = << >>
    BY <1>2 DEF Fills, Guest
  <2>2. /\ d.rd = i.rd /\ d.rt2 = i.rt2 /\ d.s = i.s /\ d.list = i.list
        /\ \/ d.op = i.op
           \/ i.op = "orn" /\ d.op = "mvn"
           \/ i.op = "teq" /\ d.op = "tst"
    BY <2>1 DEF Decode, DecodeAlu32, Insn, Absent
  <2> QED
    BY <1>2, <2>1, <2>2 DEF Decoded, Moves, Singles, FlagOps, Sums, Logic, Shifts, Loads,
       Stores, Compares, Three
<1>3. CASE Fills(i, [form |-> {"alu.w"}, op |-> {"pkh"}])
  <2>1. /\ i.form = "alu.w" /\ i.op = "pkh" /\ i.s = FALSE /\ i.rd = NoReg /\ i.rn = NoReg
        /\ i.rt2 = NoReg /\ i.shift = "lsl" /\ i.list = << >>
    BY <1>3 DEF Fills, Guest
  <2>2. d.op = "none"
    BY <2>1 DEF Decode, DecodeAlu32, Insn, Absent
  <2> QED
    BY <2>2
<1> QED
  BY <1>1, <1>2, <1>3 DEF EncodedAlu32

(* Plain immediates and bit fields. *)
LEMMA DecodedWide ==
  ASSUME NEW i, NEW d, d = Decode(i), EncodedWide(i), d.op # "none"
  PROVE  Decoded(i, d)
<1>1. CASE Fills(i, [form |-> {"wide"}, op |-> {"mov"}, rd |-> Regs, imm |-> Word,
                 hasImm |-> {TRUE}])
  <2>1. /\ i.form = "wide" /\ i.op = "mov" /\ i.s = FALSE /\ i.rd \in Regs /\ i.rn = NoReg
        /\ i.rt2 = NoReg /\ i.shift = "lsl" /\ i.list = << >>
    BY <1>1 DEF Fills, Guest
  <2>2. /\ d.rd = i.rd /\ d.rt2 = i.rt2 /\ d.s = i.s /\ d.list = i.list
        /\ d.op = i.op
    BY <2>1 DEF Decode, DecodeWide, Insn, Absent
  <2> QED
    BY <1>1, <2>1, <2>2 DEF Decoded, Moves, Singles, FlagOps, Sums, Logic, Shifts, Loads,
       Stores, Compares
<1>2. CASE Fills(i, [form |-> {"wide"}, op |-> {"movt"}, rd |-> Regs,
                 imm |-> 0 .. ShortMod - 1, hasImm |-> {TRUE}])
  <2>1. /\ i.form = "wide" /\ i.op = "movt" /\ i.s = FALSE /\ i.rd \in Regs /\ i.rn = NoReg
        /\ i.rt2 = NoReg /\ i.shift = "lsl" /\ i.list = << >>
    BY <1>2 DEF Fills, Guest
  <2>2. /\ d.rd = i.rd /\ d.rt2 = i.rt2 /\ d.s = i.s /\ d.list = i.list
        /\ d.op = i.op
    BY <2>1 DEF Decode, DecodeWide, Insn, Absent
  <2> QED
    BY <1>2, <2>1, <2>2 DEF Decoded, Moves, Singles, FlagOps, Sums, Logic, Shifts, Loads,
       Stores, Compares
<1>3. CASE Fills(i, [form |-> {"wide"}, op |-> {"add", "sub"}, rd |-> Regs,
                 rn |-> Regs \cup {"pc"}, imm |-> Word, hasImm |-> {TRUE}])
  <2>1. /\ i.form = "wide" /\ i.op \in {"add", "sub"} /\ i.s = FALSE /\ i.rd \in Regs
        /\ i.rn \in Regs \cup {"pc"} /\ i.rt2 = NoReg /\ i.shift = "lsl" /\ i.list = << >>
    BY <1>3 DEF Fills, Guest
  <2>2. /\ d.rd = i.rd /\ d.rt2 = i.rt2 /\ d.s = i.s /\ d.list = i.list
        /\ d.op = i.op
    BY <2>1 DEF Decode, DecodeWide, Insn, Absent
  <2> QED
    BY <1>3, <2>1, <2>2 DEF Decoded, Moves, Singles, FlagOps, Sums, Logic, Shifts, Loads,
       Stores, Compares
<1>4. CASE Fills(i, [form |-> {"wide"}, op |-> {"sbfx", "ubfx", "bfi"}, rd |-> Regs,
                 rn |-> Regs, lsb |-> Amount, width |-> 1 .. Width])
  <2>1. /\ i.form = "wide" /\ i.op \in {"sbfx", "ubfx", "bfi"} /\ i.s = FALSE /\ i.rd \in Regs
        /\ i.rn \in Regs /\ i.rt2 = NoReg /\ i.shift = "lsl" /\ i.list = << >>
    BY <1>4 DEF Fills, Guest
  <2>2. /\ d.rd = i.rd /\ d.rt2 = i.rt2 /\ d.s = i.s /\ d.list = i.list
        /\ d.op = i.op
    BY <2>1 DEF Decode, DecodeWide, Insn, Absent
  <2> QED
    BY <1>4, <2>1, <2>2 DEF Decoded, Moves, Singles, FlagOps, Sums, Logic, Shifts, Loads,
       Stores, Compares
<1>5. CASE Fills(i, [form |-> {"wide"}, op |-> {"bfc"}, rd |-> Regs, lsb |-> Amount,
                 width |-> 1 .. Width])
  <2>1. /\ i.form = "wide" /\ i.op = "bfc" /\ i.s = FALSE /\ i.rd \in Regs /\ i.rn = NoReg
        /\ i.rt2 = NoReg /\ i.shift = "lsl" /\ i.list = << >>
    BY <1>5 DEF Fills, Guest
  <2>2. /\ d.rd = i.rd /\ d.rt2 = i.rt2 /\ d.s = i.s /\ d.list = i.list
        /\ d.op = i.op
    BY <2>1 DEF Decode, DecodeWide, Insn, Absent
  <2> QED
    BY <1>5, <2>1, <2>2 DEF Decoded, Moves, Singles, FlagOps, Sums, Logic, Shifts, Loads,
       Stores, Compares
<1>6. CASE Fills(i, [form |-> {"wide"}, op |-> {"ssat"}])
  <2>1. /\ i.form = "wide" /\ i.op = "ssat" /\ i.s = FALSE /\ i.rd = NoReg /\ i.rn = NoReg
        /\ i.rt2 = NoReg /\ i.shift = "lsl" /\ i.list = << >>
    BY <1>6 DEF Fills, Guest
  <2>2. d.op = "none"
    BY <2>1 DEF Decode, DecodeWide, Insn, Absent
  <2> QED
    BY <2>2
<1> QED
  BY <1>1, <1>2, <1>3, <1>4, <1>5, <1>6 DEF EncodedWide

(* 32-bit loads and stores. *)
LEMMA DecodedMem32 ==
  ASSUME NEW i, NEW d, d = Decode(i), EncodedMem32(i), d.op # "none"
  PROVE  Decoded(i, d)
<1>1. CASE Fills(i, [form |-> {"mem.w"}, op |-> Loads \cup Stores, rd |-> Regs, rn |-> Regs,
                 imm |-> Word, hasImm |-> {TRUE}, add |-> BOOLEAN, index |-> {"offset", "pre",
                 "post"}])
  <2>1. /\ i.form = "mem.w" /\ i.op \in Loads \cup Stores /\ i.s = FALSE /\ i.rd \in Regs
        /\ i.rn \in Regs /\ i.rt2 = NoReg /\ i.shift = "lsl" /\ i.list = << >>
    BY <1>1 DEF Fills, Guest
  <2>2. /\ d.rd = i.rd /\ d.rt2 = i.rt2 /\ d.s = i.s /\ d.list = i.list
        /\ d.op = i.op
    BY <2>1 DEF Decode, DecodeMem32, LiteralBelow, Insn, Absent
  <2> QED
    BY <1>1, <2>1, <2>2 DEF Decoded, Moves, Singles, FlagOps, Sums, Logic, Shifts, Loads,
       Stores, Compares
<1>2. CASE Fills(i, [form |-> {"mem.w"}, op |-> Loads \cup Stores, rd |-> Regs, rn |-> Regs,
                 rm |-> Regs, amt |-> 0 .. 3])
  <2>1. /\ i.form = "mem.w" /\ i.op \in Loads \cup Stores /\ i.s = FALSE /\ i.rd \in Regs
        /\ i.rn \in Regs /\ i.rt2 = NoReg /\ i.shift = "lsl" /\ i.list = << >>
    BY <1>2 DEF Fills, Guest
  <2>2. /\ d.rd = i.rd /\ d.rt2 = i.rt2 /\ d.s = i.s /\ d.list = i.list
        /\ d.op = i.op
    BY <2>1 DEF Decode, DecodeMem32, LiteralBelow, Insn, Absent
  <2> QED
    BY <1>2, <2>1, <2>2 DEF Decoded, Moves, Singles, FlagOps, Sums, Logic, Shifts, Loads,
       Stores, Compares
<1>3. CASE Fills(i, [form |-> {"mem.w"}, op |-> Loads, rd |-> Regs, rn |-> {"pc"},
                 imm |-> Word, hasImm |-> {TRUE}, add |-> BOOLEAN])
  <2>1. /\ i.form = "mem.w" /\ i.op \in Loads /\ i.s = FALSE /\ i.rd \in Regs /\ i.rn = "pc"
        /\ i.rt2 = NoReg /\ i.shift = "lsl" /\ i.list = << >>
    BY <1>3 DEF Fills, Guest
  <2>2. /\ d.rd = i.rd /\ d.rt2 = i.rt2 /\ d.s = i.s /\ d.list = i.list
        /\ d.op = i.op
    BY <2>1 DEF Decode, DecodeMem32, LiteralBelow, Insn, Absent
  <2> QED
    BY <1>3, <2>1, <2>2 DEF Decoded, Moves, Singles, FlagOps, Sums, Logic, Shifts, Loads,
       Stores, Compares
<1>4. CASE Fills(i, [form |-> {"dual"}, op |-> {"ldrd", "strd"}, rd |-> Regs, rt2 |-> Regs,
                 rn |-> Regs, imm |-> Scaled, add |-> BOOLEAN, index |-> {"offset", "pre",
                 "post"}])
  <2>1. /\ i.form = "dual" /\ i.op \in {"ldrd", "strd"} /\ i.s = FALSE /\ i.rd \in Regs
        /\ i.rn \in Regs /\ i.rt2 \in Regs /\ i.shift = "lsl" /\ i.list = << >>
    BY <1>4 DEF Fills, Guest
  <2>2. /\ d.rd = i.rd /\ d.rt2 = i.rt2 /\ d.s = i.s /\ d.list = i.list
        /\ d.op = i.op
    BY <2>1 DEF Decode, DecodeMany32, Insn, Absent
  <2> QED
    BY <1>4, <2>1, <2>2 DEF Decoded, Moves, Singles, FlagOps, Sums, Logic, Shifts, Loads,
       Stores, Compares
<1>5. CASE Fills(i, [form |-> {"dual"}, op |-> {"ldrd"}, rd |-> Regs, rt2 |-> Regs,
                 rn |-> {"pc"}, imm |-> Scaled, add |-> BOOLEAN])
  <2>1. /\ i.form = "dual" /\ i.op = "ldrd" /\ i.s = FALSE /\ i.rd \in Regs /\ i.rn = "pc"
        /\ i.rt2 \in Regs /\ i.shift = "lsl" /\ i.list = << >>
    BY <1>5 DEF Fills, Guest
  <2>2. /\ d.rd = i.rd /\ d.rt2 = i.rt2 /\ d.s = i.s /\ d.list = i.list
        /\ d.op = i.op
    BY <2>1 DEF Decode, DecodeMany32, Insn, Absent
  <2> QED
    BY <1>5, <2>1, <2>2 DEF Decoded, Moves, Singles, FlagOps, Sums, Logic, Shifts, Loads,
       Stores, Compares
<1>6. CASE Fills(i, [form |-> {"multiple"}, op |-> {"ldm", "stm"}, rn |-> Regs,
                 list |-> Seq(Regs \ {"sp"}), add |-> BOOLEAN, index |-> {"offset", "pre"}])
  <2>1. /\ i.form = "multiple" /\ i.op \in {"ldm", "stm"} /\ i.s = FALSE /\ i.rd = NoReg
        /\ i.rn \in Regs /\ i.rt2 = NoReg /\ i.shift = "lsl" /\ i.list \in Seq(Regs \ {"sp"})
    BY <1>6 DEF Fills, Guest
  <2>2. /\ d.rd = i.rd /\ d.rt2 = i.rt2 /\ d.s = i.s /\ d.list = i.list
        /\ d.op = (IF i.op = "ldm" THEN "pop" ELSE "push") /\ i.rn = "sp"
    BY <2>1 DEF Decode, DecodeMany32, Insn, Absent
  <2> QED
    BY <1>6, <2>1, <2>2 DEF Decoded, Moves, Singles, FlagOps, Sums, Logic, Shifts, Loads,
       Stores, Compares
<1> QED
  BY <1>1, <1>2, <1>3, <1>4, <1>5, <1>6 DEF EncodedMem32

(* Extends, shifts by a register and products. *)
LEMMA DecodedOther ==
  ASSUME NEW i, NEW d, d = Decode(i), EncodedOther(i), d.op # "none"
  PROVE  Decoded(i, d)
<1>1. CASE Fills(i, [form |-> {"other.w"}, rd |-> Regs, rm |-> Regs, rot |-> 0 .. 3,
                 op |-> {"sxth", "uxth", "sxtb", "uxtb", "sxtb16", "uxtb16"}])
  <2>1. /\ i.form = "other.w" /\ i.op \in {"sxth", "uxth", "sxtb", "uxtb", "sxtb16", "uxtb16"}
        /\ i.s = FALSE /\ i.rd \in Regs /\ i.rn = NoReg /\ i.rt2 = NoReg /\ i.shift = "lsl"
        /\ i.list = << >>
    BY <1>1 DEF Fills, Guest
  <2>2. /\ d.rd = i.rd /\ d.rt2 = i.rt2 /\ d.s = i.s /\ d.list = i.list
        /\ d.op \in {"sxtb", "sxth", "uxtb", "uxth"}
    BY <2>1 DEF Decode, DecodeOther32, Insn, Absent
  <2> QED
    BY <1>1, <2>1, <2>2 DEF Decoded, Moves, Singles, FlagOps, Sums, Logic, Shifts, Loads,
       Stores, Compares
<1>2. CASE Fills(i, [form |-> {"other.w"}, op |-> Shifts, s |-> BOOLEAN, rd |-> Regs,
                 rn |-> Regs, rm |-> Regs])
  <2>1. /\ i.form = "other.w" /\ i.op \in Shifts /\ i.s \in BOOLEAN /\ i.rd \in Regs
        /\ i.rn \in Regs /\ i.rt2 = NoReg /\ i.shift = "lsl" /\ i.list = << >>
    BY <1>2 DEF Fills, Guest
  <2>2. /\ d.rd = i.rd /\ d.rt2 = i.rt2 /\ d.s = i.s /\ d.list = i.list
        /\ d.op = i.op
    BY <2>1 DEF Decode, DecodeOther32, Insn, Absent, Shifts
  <2> QED
    BY <1>2, <2>1, <2>2 DEF Decoded, Moves, Singles, FlagOps, Sums, Logic, Shifts, Loads,
       Stores, Compares
<1>3. CASE Fills(i, [form |-> {"other.w"}, op |-> {"mul", "mla"}, rd |-> Regs, rn |-> Regs,
                 rm |-> Regs])
  <2>1. /\ i.form = "other.w" /\ i.op \in {"mul", "mla"} /\ i.s = FALSE /\ i.rd \in Regs
        /\ i.rn \in Regs /\ i.rt2 = NoReg /\ i.shift = "lsl" /\ i.list = << >>
    BY <1>3 DEF Fills, Guest
  <2>2. /\ d.rd = i.rd /\ d.rt2 = i.rt2 /\ d.s = i.s /\ d.list = i.list
        /\ d.op = i.op
    BY <2>1 DEF Decode, DecodeOther32, Insn, Absent
  <2> QED
    BY <1>3, <2>1, <2>2 DEF Decoded, Moves, Singles, FlagOps, Sums, Logic, Shifts, Loads,
       Stores, Compares
<1> QED
  BY <1>1, <1>2, <1>3 DEF EncodedOther

(* Every encoding. *)
LEMMA DecodedAny ==
  ASSUME NEW i, NEW d, d = Decode(i), Encoded(i), d.op # "none"
  PROVE  Decoded(i, d)
  BY DecodedAlu16, DecodedMem16, DecodedAlu32, DecodedWide, DecodedMem32, DecodedOther DEF Encoded

--------------------------------------------------------------------------------
(* What an instruction does not name is left alone, on the machine and by  *)
(* the C, whatever the values are.                                         *)

Full(s) == DOMAIN s.r = Regs /\ s.f \in FlagRecord

(* t is s, but for what i may write.                                       *)
Framed(i, s, t) ==
  /\ \A q \in Regs \ Written(i) : t.r[q] = s.r[q]
  /\ t.f \in FlagRecord /\ (i.s \/ i.op \in Compares \/ t.f = s.f)
  /\ "mem" \in Written(i) \/ t.mem = s.mem

(* Setting one register leaves the others, the flags and memory.           *)
LEMMA SetRegFrame ==
  ASSUME NEW s, DOMAIN s.r = Regs, NEW x, NEW v
  PROVE  /\ DOMAIN SetReg(s, x, v).r = Regs
         /\ \A q \in Regs \ {x} : SetReg(s, x, v).r[q] = s.r[q]
         /\ SetReg(s, x, v).f = s.f /\ SetReg(s, x, v).mem = s.mem
  BY DEF SetReg, SetRegs

(* What Written names, by its parts. *)
LEMMA WrittenIs ==
  ASSUME NEW i
  PROVE  /\ \A q \in Regs \ Written(i) : q \notin {i.rd, i.rn, i.rt2}
         /\ \A q \in Regs \ Written(i), k \in 1 .. Len(i.list) : i.list[k] # q
         /\ i.op \in Stores \cup {"strd", "stm", "push"} => "mem" \in Written(i)
         /\ i.s \/ i.op \in Compares => Flag \subseteq Written(i)
  BY DEF Written

(* Flag helpers give flags, whatever they are given. *)
LEMMA AnyFlags ==
  ASSUME NEW x, NEW y, NEW k, NEW m
  PROVE  /\ AddWithCarry(x, y, k).c \in BOOLEAN /\ AddWithCarry(x, y, k).v \in BOOLEAN
         /\ vita_flags_add(x, y, m) \in FlagRecord
         /\ vita_flags_adc(x, y, k, m) \in FlagRecord
         /\ vita_flags_sub(x, y, m) \in FlagRecord
<1>1. AddWithCarry(x, y, k).c \in BOOLEAN /\ AddWithCarry(x, y, k).v \in BOOLEAN
  BY DEF AddWithCarry
<1> DEFINE b == m < x
           e == IF k = 1 THEN m <= x ELSE m < x
           g == x >= y
           o == SignsDiffer(x, m) /\ SignsDiffer(y, m)
           p == SignsDiffer(x, y) /\ SignsDiffer(x, m)
<1>2. b \in BOOLEAN /\ e \in BOOLEAN /\ g \in BOOLEAN
  <2>1. b \in BOOLEAN
    OBVIOUS
  <2>2. e \in BOOLEAN
    <3>1. CASE k = 1
      <4>1. e = (m <= x) /\ (m <= x) \in BOOLEAN
        BY <3>1
      <4> QED
        BY <4>1
    <3>2. CASE k # 1
      <4>1. e = (m < x) /\ (m < x) \in BOOLEAN
        BY <3>2
      <4> QED
        BY <4>1
    <3> QED
      BY <3>1, <3>2
  <2>3. g \in BOOLEAN
    OBVIOUS
  <2> QED
    BY <2>1, <2>2, <2>3
<1>4. o \in BOOLEAN /\ p \in BOOLEAN
  <2>1. o \in BOOLEAN
    BY DEF SignsDiffer
  <2>2. p \in BOOLEAN
    BY DEF SignsDiffer
  <2> QED
    BY <2>1, <2>2
<1>3. /\ vita_flags_add(x, y, m) = Flags(m, b, o)
      /\ vita_flags_adc(x, y, k, m) = Flags(m, e, o)
      /\ vita_flags_sub(x, y, m) = Flags(m, g, p)
  BY DEF vita_flags_add, vita_flags_adc, vita_flags_sub
<1> HIDE DEF b, e, g, o, p
<1>5. /\ Flags(m, b, o) \in FlagRecord /\ Flags(m, e, o) \in FlagRecord
      /\ Flags(m, g, p) \in FlagRecord
  BY <1>2, <1>4, FlagsType
<1> QED
  BY <1>1, <1>3, <1>5

(* What the machine computes has flags. *)
LEMMA ComputedFlags ==
  ASSUME NEW i, NEW a, NEW s, s.f \in FlagRecord, i.op \in FlagOps, i.shift \in Shifts
  PROVE  Computed(i, a, s).f \in FlagRecord
<1>0. s.f.c \in BOOLEAN /\ s.f.v \in BOOLEAN
  BY CarryIs
<1>1. CASE i.op \in Sums
  <2> DEFINE m == Sum(i.op, Left(i, a, s), Operand(i, a, s).val, s.f.c)
  <2>1. Computed(i, a, s).f = Flags(m.val, m.c, m.v)
    BY <1>1 DEF Computed, Sums, Logic, Shifts
  <2>2. m.c \in BOOLEAN /\ m.v \in BOOLEAN
    BY <1>1, AnyFlags DEF Sum, Sums
  <2> HIDE DEF m
  <2>3. Flags(m.val, m.c, m.v) \in FlagRecord
    BY <2>2, FlagsType
  <2> QED
    BY <2>1, <2>3
<1>2. CASE i.op \in Logic
  <2> DEFINE m == Bitwise2(i.op, Left(i, a, s), Operand(i, a, s).val)
             b == Operand(i, a, s).c
  <2>1. Computed(i, a, s).f = Flags(m, b, s.f.v)
    BY <1>2 DEF Computed, Sums, Logic, Shifts
  <2>2. b \in BOOLEAN
    <3>1. CASE i.hasImm
      BY <1>0, <3>1 DEF Operand
    <3>2. CASE ~i.hasImm
      <4> DEFINE x == Source(s, i.rm, a)
      <4>1. b = ShiftImm(i.shift, x, i.amt, s.f.c).c
        BY <3>2 DEF Operand
      <4> HIDE DEF x, b
      <4>2. ShiftImm(i.shift, x, i.amt, s.f.c).c \in BOOLEAN
        BY <1>0, CarryType DEF ShiftImm, Shifts
      <4> QED
        BY <4>1, <4>2
    <3> QED
      BY <3>1, <3>2
  <2> HIDE DEF m, b
  <2> QED
    BY SMTT(30), <1>0, <2>1, <2>2, FlagsType
<1>3. CASE i.op \in Shifts
  <2> DEFINE m == Moved(i, a, s).val
             b == Moved(i, a, s).c
  <2>1. Computed(i, a, s).f = Flags(m, b, s.f.v)
    BY <1>3 DEF Computed, Sums, Logic, Shifts
  <2>2. b \in BOOLEAN
    <3> DEFINE x == s.r[i.rm]
               y == s.r[i.rn]
               n == s.r[i.rm] % CountMod
    <3>1. \/ b = ShiftImm(i.op, x, i.amt, s.f.c).c
          \/ b = Shift(i.op, y, n, s.f.c).c
      BY DEF Moved
    <3> HIDE DEF x, y, n, b
    <3>2. ShiftImm(i.op, x, i.amt, s.f.c).c \in BOOLEAN
      BY <1>0, <1>3, CarryType DEF ShiftImm, Shifts
    <3>3. Shift(i.op, y, n, s.f.c).c \in BOOLEAN
      BY <1>0, <1>3, CarryType
    <3> QED
      BY <3>1, <3>2, <3>3
  <2> HIDE DEF m, b
  <2> QED
    BY <1>0, <2>1, <2>2, FlagsType
<1>4. CASE i.op = "mul"
  <2> DEFINE m == Wrap(s.r[i.rn] * s.r[i.rm])
  <2>1. Computed(i, a, s).f = Flags(m, s.f.c, s.f.v)
    BY <1>4 DEF Computed, Sums, Logic, Shifts
  <2> HIDE DEF m
  <2>2. Flags(m, s.f.c, s.f.v) \in FlagRecord
    BY <1>0, FlagsType
  <2> QED
    BY <2>1, <2>2
<1> QED
  BY <1>1, <1>2, <1>3, <1>4 DEF FlagOps

(* And so has what the C computes. *)
LEMMA FlagsSetType ==
  ASSUME NEW d, NEW a, NEW c, c.f \in FlagRecord, NEW m
  PROVE  FlagsSet(d, a, c, m) \in FlagRecord
<1>1. CASE d.op \in Sums
  BY <1>1, FlagsSetIs, AnyFlags DEF Sums
<1>2. CASE d.op \notin Sums
  BY <1>2, FlagsSetIs, FlagsNZ
<1> QED
  BY <1>1, <1>2

(* The machine.                                                            *)
LEMMA MachineFrame ==
  ASSUME NEW i, NEW d, Decoded(i, d), NEW a, NEW s, Full(s), i.op \notin {"push", "pop"}
  PROVE  Framed(i, s, MachineStep(i, a, s))
<1>1. CASE IsTransfer(i)
  <2> DEFINE at == Address(i, a, s)
             b == BaseAfter(i, a, s)
             t == IF WritesBack(i) THEN SetReg(s, b.reg, b.val) ELSE s
             u == Transfer(i, a, s)
  <2>1. MachineStep(i, a, s) = u
    BY <1>1 DEF MachineStep, IsTransfer, Compares, Loads, Stores, Multiple
  <2>2. b.reg = i.rn
    BY DEF BaseAfter
  <2>3. /\ DOMAIN t.r = Regs /\ (\A q \in Regs \ {i.rn} : t.r[q] = s.r[q])
        /\ t.f = s.f /\ t.mem = s.mem
    <3> HIDE DEF b
    <3> QED
      BY <2>2, SetRegFrame DEF Full
  <2>4. /\ \A q \in Regs \ Written(i) : u.r[q] = s.r[q]
        /\ u.f = s.f /\ ("mem" \in Written(i) \/ u.mem = s.mem)
    <3>1. CASE i.op \in Loads
      <4> DEFINE w == Loaded(i.op, Read(s.mem, at, Size(i.op)))
      <4>1. u = SetReg(t, i.rd, w)
        BY <3>1 DEF Transfer, Loads, Stores
      <4> HIDE DEF u, t, w
      <4> QED
        BY <2>3, <4>1, SetRegFrame, WrittenIs
    <3>2. CASE i.op \in Stores
      <4> DEFINE w == Write(s.mem, at, Size(i.op), s.r[i.rd])
      <4>1. u = SetMem(t, w)
        BY <3>2 DEF Transfer, Loads, Stores
      <4>2. "mem" \in Written(i)
        BY <3>2, WrittenIs
      <4>3. \A q \in Regs \ Written(i) : t.r[q] = s.r[q]
        BY <2>3, WrittenIs
      <4> HIDE DEF u, t, w
      <4> QED
        BY <2>3, <4>1, <4>2, <4>3 DEF SetMem
    <3>3. CASE i.op = "ldrd"
      <4> DEFINE x == Read(s.mem, at, 4)
                 y == Read(s.mem, Wrap(at + 4), 4)
                 v == SetReg(t, i.rd, x)
      <4>1. u = SetReg(v, i.rt2, y)
        BY <3>3 DEF Transfer, Loads, Stores
      <4>2. /\ DOMAIN v.r = Regs /\ (\A q \in Regs \ {i.rd} : v.r[q] = t.r[q])
            /\ v.f = t.f /\ v.mem = t.mem
        <5> HIDE DEF t, x
        <5> QED
          BY <2>3, SetRegFrame
      <4> HIDE DEF u, t, v, y
      <4>3. /\ DOMAIN u.r = Regs /\ (\A q \in Regs \ {i.rt2} : u.r[q] = v.r[q])
            /\ u.f = v.f /\ u.mem = v.mem
        BY <4>1, <4>2, SetRegFrame
      <4> QED
        BY <2>3, <4>2, <4>3, WrittenIs
    <3>4. CASE i.op = "strd"
      <4> DEFINE w == Write(Write(s.mem, at, 4, s.r[i.rd]), Wrap(at + 4), 4, s.r[i.rt2])
      <4>1. u = SetMem(t, w)
        BY <3>4 DEF Transfer, Loads, Stores
      <4>2. "mem" \in Written(i)
        BY <3>4, WrittenIs
      <4>3. \A q \in Regs \ Written(i) : t.r[q] = s.r[q]
        BY <2>3, WrittenIs
      <4> HIDE DEF u, t, w
      <4> QED
        BY <2>3, <4>1, <4>2, <4>3 DEF SetMem
    <3>5. CASE i.op = "stm"
      <4> DEFINE w == StoreList(s.mem, at, i.list, s.r)
      <4>1. u = SetMem(t, w)
        BY <3>5 DEF Transfer, Loads, Stores
      <4>2. "mem" \in Written(i)
        BY <3>5, WrittenIs
      <4>3. \A q \in Regs \ Written(i) : t.r[q] = s.r[q]
        BY <2>3, WrittenIs
      <4> HIDE DEF u, t, w
      <4> QED
        BY <2>3, <4>1, <4>2, <4>3 DEF SetMem
    <3>6. CASE i.op = "ldm"
      <4> DEFINE l == LoadList(s.mem, at, i.list, t.r)
      <4>1. u = SetRegs(t, l)
        BY <3>6 DEF Transfer, Loads, Stores
      <4>2. \A q \in Regs \ Written(i) : l[q] = t.r[q]
        <5> HIDE DEF t, at
        <5> QED
          BY WrittenIs DEF LoadList
      <4>3. \A q \in Regs \ Written(i) : t.r[q] = s.r[q]
        BY <2>3, WrittenIs
      <4> HIDE DEF u, t, l
      <4> QED
        BY <2>3, <4>1, <4>2, <4>3 DEF SetRegs
    <3> QED
      BY <1>1, <3>1, <3>2, <3>3, <3>4, <3>5, <3>6 DEF IsTransfer, Multiple
  <2> HIDE DEF u
  <2> QED
    BY <2>1, <2>4 DEF Framed, Full
<1>2. CASE i.op \in Compares
  <2> DEFINE f == Computed(i, a, s).f
  <2>1. MachineStep(i, a, s) = SetFlags(s, f)
    BY <1>2 DEF MachineStep, IsTransfer, Compares, Loads, Stores, Multiple
  <2>2. f \in FlagRecord
    BY <1>2, ComputedFlags DEF Decoded, Full
  <2> HIDE DEF f
  <2> QED
    BY <1>2, <2>1, <2>2 DEF Framed, SetFlags
<1>3. CASE ~IsTransfer(i) /\ i.op \notin Compares
  <2> DEFINE v == Computed(i, a, s).val
             f == IF i.s THEN Computed(i, a, s).f ELSE s.f
             t == SetReg(s, i.rd, v)
  <2>1. MachineStep(i, a, s) = SetFlags(t, f)
    BY <1>3 DEF MachineStep
  <2>2. f \in FlagRecord /\ (i.s \/ f = s.f)
    BY ComputedFlags DEF Decoded, Full
  <2>3. /\ DOMAIN t.r = Regs /\ (\A q \in Regs \ {i.rd} : t.r[q] = s.r[q])
        /\ t.f = s.f /\ t.mem = s.mem
    <3> HIDE DEF v
    <3> QED
      BY SetRegFrame DEF Full
  <2> HIDE DEF f, t
  <2>4. \A q \in Regs \ Written(i) : t.r[q] = s.r[q]
    BY <2>3, WrittenIs
  <2> QED
    BY <2>1, <2>2, <2>3, <2>4 DEF Framed, SetFlags
<1> QED
  BY <1>1, <1>2, <1>3

(* And the C.                                                              *)
LEMMA EmittedFrame ==
  ASSUME NEW i, NEW d, Decoded(i, d), NEW a, NEW c, Full(c), i.op \notin {"push", "pop"}
  PROVE  Framed(i, c, Emitted(d, a, c))
<1> DEFINE u == Emitted(d, a, c)
<1>0. /\ d.rd = i.rd /\ d.rt2 = i.rt2 /\ d.s = i.s /\ d.list = i.list
      /\ \/ d.op = i.op /\ i.op \notin {"stm", "ldm"}
         \/ i.op = "stm" /\ d.op = "push" /\ i.rn = "sp"
         \/ i.op = "ldm" /\ d.op = "pop" /\ i.rn = "sp"
         \/ i.op \notin Moves /\ d.op \notin Moves /\ (d.op \in Compares <=> i.op \in Compares)
  BY DEF Decoded
<1>1. CASE d.op \in Loads
  <2> DEFINE v == LoadC(d, a, c)
  <2>1. u = SetReg(c, i.rd, v)
    BY <1>0, <1>1 DEF Emitted, Loads, Stores, Compares
  <2> HIDE DEF u, v
  <2>2. u.f = c.f /\ u.mem = c.mem /\ \A q \in Regs \ {i.rd} : u.r[q] = c.r[q]
    BY <2>1, SetRegFrame DEF Full
  <2> QED
    BY <2>2, WrittenIs DEF Framed, Full, u
<1>2. CASE d.op \in Stores
  <2> DEFINE m == Write(c.mem, address(d, a, c), Size(d.op), c.r[d.rd])
  <2>1. u = SetMem(c, m)
    BY <1>2 DEF Emitted, Loads, Stores, Compares
  <2>2. "mem" \in Written(i)
    <3>1. i.op = d.op
      BY <1>0, <1>2 DEF Stores, Moves, Singles
    <3> QED
      BY <1>2, <3>1, WrittenIs
  <2> HIDE DEF u, m
  <2>3. u.f = c.f /\ u.r = c.r
    BY <2>1 DEF SetMem
  <2> QED
    BY <2>2, <2>3 DEF Framed, Full, u
<1>3. CASE d.op = "ldrd"
  <2> DEFINE x == Read(c.mem, address(d, a, c), 4)
             first == SetReg(c, i.rd, x)
             y == Read(c.mem, Wrap(address(d, a, first) + 4), 4)
  <2>1. u = SetReg(first, i.rt2, y)
    <3>1. u = DualC(d, a, c)
      BY <1>3 DEF Emitted, Loads, Stores, Compares
    <3>2. DualC(d, a, c) = SetReg(first, i.rt2, y)
      BY <1>0, <1>3 DEF DualC
    <3> QED
      BY <3>1, <3>2
  <2>2. /\ DOMAIN first.r = Regs /\ (\A q \in Regs \ {i.rd} : first.r[q] = c.r[q])
        /\ first.f = c.f /\ first.mem = c.mem
    <3> HIDE DEF x
    <3> QED
      BY SetRegFrame DEF Full
  <2> HIDE DEF first, y, u
  <2>3. /\ \A q \in Regs \ {i.rt2} : u.r[q] = first.r[q]
        /\ u.f = first.f /\ u.mem = first.mem
    BY <2>1, <2>2, SetRegFrame
  <2> QED
    BY <2>2, <2>3, WrittenIs DEF Framed, Full, u
<1>4. CASE d.op = "strd"
  <2> DEFINE m == Write(Write(c.mem, address(d, a, c), 4, c.r[d.rd]),
                        Wrap(address(d, a, c) + 4), 4, c.r[d.rt2])
  <2>1. u = SetMem(c, m)
    <3>1. u = DualC(d, a, c)
      BY <1>4 DEF Emitted, Loads, Stores, Compares
    <3>2. DualC(d, a, c) = SetMem(c, m)
      BY <1>4 DEF DualC
    <3> QED
      BY <3>1, <3>2
  <2>2. "mem" \in Written(i)
    <3>1. i.op = d.op
      BY <1>0, <1>4 DEF Moves, Singles
    <3> QED
      BY <1>4, <3>1, WrittenIs
  <2> HIDE DEF u, m
  <2>3. u.f = c.f /\ u.r = c.r
    BY <2>1 DEF SetMem
  <2> QED
    BY <2>2, <2>3 DEF Framed, Full, u
<1>5. CASE d.op = "push"
  <2> DEFINE sp == Wrap(c.r["sp"] - 4 * Len(d.list))
             t == SetReg(c, "sp", sp)
             m == StoreList(c.mem, sp, d.list, c.r)
  <2>0. i.op = "stm" /\ i.rn = "sp"
    BY <1>0, <1>5 DEF Moves
  <2>1. u = SetMem(t, m)
    <3>1. u = PushC(d, c)
      BY <1>5 DEF Emitted, Loads, Stores, Compares
    <3> QED
      BY <3>1 DEF PushC
  <2>2. t.f = c.f /\ \A q \in Regs \ {"sp"} : t.r[q] = c.r[q]
    <3> HIDE DEF sp
    <3> QED
      BY SetRegFrame DEF Full
  <2> HIDE DEF u, m, t
  <2>3. u.f = t.f /\ u.r = t.r
    BY <2>1 DEF SetMem
  <2>4. "mem" \in Written(i)
    BY <2>0, WrittenIs
  <2> QED
    BY <2>0, <2>2, <2>3, <2>4, WrittenIs DEF Framed, Full, u
<1>6. CASE d.op = "pop"
  <2> DEFINE l == LoadList(c.mem, c.r["sp"], d.list, c.r)
             r == [l EXCEPT !["sp"] = Wrap(@ + 4 * Len(d.list))]
  <2>0. i.op = "ldm" /\ i.rn = "sp"
    BY <1>0, <1>6 DEF Moves
  <2>1. u = SetRegs(c, r)
    <3>1. u = PopC(d, c)
      BY <1>6 DEF Emitted, Loads, Stores, Compares
    <3> QED
      BY <3>1 DEF PopC
  <2>2. \A q \in Regs \ Written(i) : l[q] = c.r[q]
    BY <1>0, WrittenIs DEF LoadList
  <2>3. DOMAIN l = Regs
    BY DEF LoadList
  <2>4. \A q \in Regs \ {"sp"} : r[q] = l[q]
    <3> HIDE DEF l
    <3> QED
      BY <2>3
  <2> HIDE DEF u, l, r
  <2>5. u.f = c.f /\ u.mem = c.mem /\ u.r = r
    BY <2>1 DEF SetRegs
  <2> QED
    BY <2>0, <2>2, <2>4, <2>5, WrittenIs DEF Framed, Full, u
<1>7. CASE d.op \in Compares
  <2> DEFINE f == FlagsSet(d, a, c, Value(d, a, c))
  <2>1. u = SetFlags(c, f)
    BY <1>7 DEF Emitted, Loads, Stores, Compares
  <2>2. f \in FlagRecord
    BY FlagsSetType DEF Full
  <2>3. i.op \in Compares
    BY <1>0, <1>7 DEF Compares
  <2> HIDE DEF u, f
  <2>4. u.f = f /\ u.r = c.r /\ u.mem = c.mem
    BY <2>1 DEF SetFlags
  <2> QED
    BY <2>2, <2>3, <2>4 DEF Framed, u
<1>8. CASE d.op \notin Loads \cup Stores \cup {"ldrd", "strd", "push", "pop"} \cup Compares
  <2> DEFINE v == Value(d, a, c)
             t == SetReg(c, i.rd, v)
             f == IF i.s THEN FlagsSet(d, a, c, v) ELSE c.f
  <2>1. u = SetFlags(t, f)
    BY <1>0, <1>8 DEF Emitted
  <2>2. f \in FlagRecord /\ (i.s \/ f = c.f)
    BY FlagsSetType DEF Full
  <2>3. t.mem = c.mem /\ \A q \in Regs \ {i.rd} : t.r[q] = c.r[q]
    <3> HIDE DEF v
    <3> QED
      BY SetRegFrame DEF Full
  <2> HIDE DEF u, t, f
  <2>4. u.f = f /\ u.r = t.r /\ u.mem = t.mem
    BY <2>1 DEF SetFlags
  <2> QED
    BY <2>2, <2>3, <2>4, WrittenIs DEF Framed, u
<1> QED
  BY <1>1, <1>2, <1>3, <1>4, <1>5, <1>6, <1>7, <1>8

--------------------------------------------------------------------------------
(* Every step, and every run. *)

(* The C at u and the machine at t, but for what is in x.                  *)
KeptBut(u, t, x) ==
  /\ \A q \in Regs \ x : u.r[q] = t.r[q]
  /\ \A b \in Flag \ x : u.f[b] = t.f[b]
  /\ "mem" \in x \/ u.mem = t.mem
  /\ u.f \in FlagRecord /\ t.f \in FlagRecord
  /\ x = {} => Same(u, t) /\ Typed(t)

(* The same state is kept, whatever is in doubt. *)
LEMMA SameKept ==
  ASSUME NEW u, NEW t, NEW x, Same(u, t), Typed(t)
  PROVE  KeptBut(u, t, x)
  BY DEF KeptBut, Same, Typed

(* Flags that are close, after the rest is set the same.                   *)
LEMMA CloseKept ==
  ASSUME NEW u, NEW t, NEW g, NEW h, NEW carry, NEW over, NEW x,
         Same(u, t), Typed(t), FlagsClose(g, h, carry, over),
         carry => "c" \in x, over => "v" \in x
  PROVE  KeptBut(SetFlags(u, g), SetFlags(t, h), x)
<1>1. /\ g \in FlagRecord /\ h \in FlagRecord /\ g.n = h.n /\ g.z = h.z
      /\ ("c" \in x \/ g.c = h.c) /\ ("v" \in x \/ g.v = h.v)
  BY DEF FlagsClose
<1>2. /\ SetFlags(u, g).f = g /\ SetFlags(t, h).f = h
      /\ SetFlags(u, g).r = SetFlags(t, h).r /\ SetFlags(u, g).mem = SetFlags(t, h).mem
  BY DEF SetFlags, Same
<1>3. \A b \in Flag \ x : g[b] = h[b]
  BY <1>1 DEF Flag
<1>4. ASSUME x = {} PROVE Same(SetFlags(u, g), SetFlags(t, h)) /\ Typed(SetFlags(t, h))
  <2>1. g = h
    BY <1>1, <1>4, FlagsEqual
  <2> QED
    BY <1>1, <1>2, <2>1, SetTyped DEF Same
<1> QED
  BY <1>1, <1>2, <1>3, <1>4 DEF KeptBut

(* An instruction that computes.                                           *)
LEMMA ComputedKept ==
  ASSUME NEW i, NEW d, Decoded(i, d), NEW a \in Nat, NEW s, NEW c, Typed(s), Same(c, s),
         ~Gap(i, a, s), Agrees(i, d, a, s, c)
  PROVE  KeptBut(Emitted(d, a, c), MachineStep(i, a, s), Doubtful(i, a, s))
<1> DEFINE v == Computed(i, a, s).val
           h == Computed(i, a, s).f
           g == FlagsSet(d, a, c, v)
           x == Doubtful(i, a, s)
           carry == \/ i.op \in Logic \cup Shifts /\ h.c # s.f.c
                    \/ i.op = "sbc" /\ ~s.f.c /\ Operand(i, a, s).val = Mod - 1
           over  == i.op = "sbc" /\ ~s.f.c /\ Operand(i, a, s).val \in {Half - 1, Mod - 1}
<1>1. /\ ~IsTransfer(i) /\ d.op \notin Loads \cup Stores \cup {"ldrd", "strd", "push", "pop"}
      /\ (d.op \in Compares <=> i.op \in Compares) /\ d.s = i.s /\ d.rd = i.rd
      /\ v \in Word /\ Value(d, a, c) = v
      /\ (i.s \/ i.op \in Compares => FlagsClose(g, h, carry, over))
  BY DEF Agrees
<1>2. /\ x = {y \in {"c"} : ShifterCarry(i, a, s) \/ BorrowWraps(i, a, s)}
               \cup {y \in {"v"} : BorrowChangesSign(i, a, s)}
  BY DEF Doubtful
<1>3. ASSUME i.s \/ i.op \in Compares, MachineStep(i, a, s).f = h
      PROVE  (carry => "c" \in x) /\ (over => "v" \in x)
  <2>1. i.op = "sbc" => i.s
    BY <1>3 DEF Compares
  <2>2. i.op \in Logic \cup Shifts /\ h.c # s.f.c => ShifterCarry(i, a, s)
    BY <1>3 DEF ShifterCarry
  <2>3. /\ i.op = "sbc" /\ ~s.f.c /\ Operand(i, a, s).val = Mod - 1 => BorrowWraps(i, a, s)
    BY <2>1 DEF BorrowWraps
  <2>4. over => BorrowChangesSign(i, a, s)
    BY <2>1 DEF BorrowChangesSign
  <2> HIDE DEF x, h
  <2> QED
    BY <1>2, <2>2, <2>3, <2>4
<1>4. CASE i.op \in Compares
  <2>1. MachineStep(i, a, s) = SetFlags(s, h)
    BY <1>1, <1>4 DEF MachineStep
  <2>2. Emitted(d, a, c) = SetFlags(c, g)
    BY <1>1, <1>4 DEF Emitted, Loads, Stores, Compares
  <2> HIDE DEF g, h, x, carry, over
  <2>3. MachineStep(i, a, s).f = h
    BY <2>1 DEF SetFlags
  <2> QED
    <3>1. (carry => "c" \in x) /\ (over => "v" \in x)
      BY <1>3, <1>4, <2>3
    <3>2. FlagsClose(g, h, carry, over)
      BY <1>1, <1>4
    <3>3. KeptBut(SetFlags(c, g), SetFlags(s, h), x)
      BY <3>1, <3>2, CloseKept
    <3> QED
      BY <2>1, <2>2, <3>3 DEF x
<1>5. CASE i.op \notin Compares
  <2> DEFINE u == SetReg(c, i.rd, v)
             t == SetReg(s, i.rd, v)
  <2>1. MachineStep(i, a, s) = SetFlags(t, IF i.s THEN h ELSE s.f)
    BY <1>1, <1>5 DEF MachineStep
  <2>2. Emitted(d, a, c) = SetFlags(u, IF i.s THEN g ELSE c.f)
    <3>1. d.op \notin Loads \cup Stores \cup {"ldrd", "strd", "push", "pop"} \cup Compares
      BY <1>1, <1>5
    <3> QED
      BY <1>1, <3>1 DEF Emitted
  <2>3. i.rd \in Regs
    <3>1. i.op \notin Moves
      BY <1>1 DEF Moves, Singles, IsTransfer, Multiple
    <3> QED
      BY <1>5, <3>1 DEF Decoded
  <2>4. Same(u, t) /\ Typed(t)
    <3> HIDE DEF v
    <3> QED
      BY <1>1, <2>3, SetSame, SetTyped
  <2> HIDE DEF g, h, x, carry, over, u, t
  <2>5. CASE i.s
    <3>1. MachineStep(i, a, s) = SetFlags(t, h) /\ Emitted(d, a, c) = SetFlags(u, g)
      BY <2>1, <2>2, <2>5
    <3>2. MachineStep(i, a, s).f = h
      BY <3>1 DEF SetFlags
    <3>3. (carry => "c" \in x) /\ (over => "v" \in x)
      BY <1>3, <2>5, <3>2
    <3>4. FlagsClose(g, h, carry, over)
      BY <1>1, <2>5
    <3>5. KeptBut(SetFlags(u, g), SetFlags(t, h), x)
      BY <2>4, <3>3, <3>4, CloseKept
    <3> QED
      BY <3>1, <3>5 DEF x
  <2>6. CASE ~i.s
    <3>1. MachineStep(i, a, s) = SetFlags(t, s.f) /\ Emitted(d, a, c) = SetFlags(u, s.f)
      BY <2>1, <2>2, <2>6 DEF Same
    <3>2. s.f \in FlagRecord
      BY DEF Typed
    <3>3. Same(SetFlags(u, s.f), SetFlags(t, s.f)) /\ Typed(SetFlags(t, s.f))
      BY <2>4, <3>2, SetSame, SetTyped
    <3> QED
      BY <3>1, <3>3, SameKept
  <2> QED
    BY <2>5, <2>6
<1> QED
  BY <1>4, <1>5

(* An instruction that becomes another: what it does not name is kept.     *)
LEMMA GapKept ==
  ASSUME NEW i, NEW d, Decoded(i, d), NEW a \in Nat, NEW s, NEW c, Typed(s), Same(c, s),
         Gap(i, a, s)
  PROVE  KeptBut(Emitted(d, a, c), MachineStep(i, a, s), Doubtful(i, a, s))
<1> DEFINE u == Emitted(d, a, c)
           t == MachineStep(i, a, s)
<1>1. i.form # "stack"
  <2> SUFFICES ASSUME i.form = "stack" PROVE FALSE
    OBVIOUS
  <2>1. i.op \in {"push", "pop"}
    BY DEF Decoded
  <2> QED
    BY <2>1 DEF Gap, ZeroIsWidth, OtherOperation, SourceDropped, AdrUnaligned, AddressDropped,
                LiteralBelow, LiteralAsWord, BaseLoaded, Loads
<1>2. i.op \notin {"push", "pop"} /\ Written(i) # {}
  <2>1. i.op \notin {"push", "pop"} /\ (i.rd \in Regs \/ i.rn \in Regs)
    BY <1>1 DEF Decoded
  <2> QED
    BY <2>1 DEF Written
<1>3. Doubtful(i, a, s) = Written(i)
  BY DEF Doubtful
<1>4. Full(s) /\ Full(c) /\ c.r = s.r /\ c.f = s.f /\ c.mem = s.mem
  BY DEF Full, Typed, Same, Contents
<1>5. Framed(i, s, t) /\ Framed(i, c, u)
  BY <1>2, <1>4, MachineFrame, EmittedFrame
<1>6. i.s \/ i.op \in Compares => Flag \subseteq Written(i)
  BY WrittenIs
<1> HIDE DEF u, t
<1>7. /\ \A q \in Regs \ Written(i) : u.r[q] = t.r[q]
      /\ u.f \in FlagRecord /\ t.f \in FlagRecord
      /\ i.s \/ i.op \in Compares \/ u.f = t.f
      /\ "mem" \in Written(i) \/ u.mem = t.mem
  BY <1>4, <1>5 DEF Framed
<1>8. KeptBut(u, t, Written(i))
  BY <1>2, <1>6, <1>7 DEF KeptBut
<1> QED
  BY <1>3, <1>8 DEF u, t

(* Any encoding the decoder gives an operation, from the same state: the C *)
(* agrees with the machine but for what a named gap puts in doubt.         *)
THEOREM StepKept ==
  ASSUME NEW i, NEW d, d = Decode(i), Encoded(i), d.op # "none", NEW a \in Nat,
         NEW s, NEW c, Typed(s), Same(c, s), Fits(i, a, s)
  PROVE  KeptBut(Emitted(d, a, c), MachineStep(i, a, s), Doubtful(i, a, s))
<1>1. Decoded(i, d)
  BY DecodedAny
<1>2. CASE Gap(i, a, s)
  BY <1>1, <1>2, GapKept
<1>3. CASE ~Gap(i, a, s)
  <2>1. CASE EncodedAlu16(i) \/ EncodedAlu32(i) \/ EncodedWide(i) \/ EncodedOther(i)
    <3>1. Agrees(i, d, a, s, c)
      BY <1>3, <2>1, Alu16Agrees, Alu32Agrees, WideAgrees, OtherAgrees
    <3> QED
      BY <1>1, <1>3, <3>1, ComputedKept
  <2>2. CASE EncodedMem16(i) \/ EncodedMem32(i)
    <3>1. Same(Emitted(d, a, c), MachineStep(i, a, s)) /\ Typed(MachineStep(i, a, s))
      BY <1>3, <2>2, Mem16Agrees, Mem32Agrees
    <3> QED
      BY <3>1, SameKept
  <2> QED
    BY <2>1, <2>2 DEF Encoded
<1> QED
  BY <1>2, <1>3

--------------------------------------------------------------------------------
(* The inductive invariant: what StateKept says, flags that are flags, and *)
(* while nothing is in doubt the same well-formed state on both sides.     *)
Agreeing == pc \in Nat /\ KeptBut(cpu, arm, doubt)

(* Both start from the same registers, flags and memory. *)
LEMMA InitAgreeing == Init => Agreeing
<1> SUFFICES ASSUME Init PROVE Agreeing
  OBVIOUS
<1>1. PICK r \in Starts :
        arm = [r |-> r, f |-> [n |-> FALSE, z |-> FALSE, c |-> FALSE, v |-> FALSE], mem |-> Image]
  BY DEF Init
<1>2. arm.r \in Contents /\ arm.mem \in Memory
  BY <1>1, TranslateAssumption DEF Contents, Memory, Bytes
<1>3. arm.f \in FlagRecord
  BY <1>1 DEF FlagRecord
<1>4. Typed(arm) /\ Same(cpu, arm) /\ pc \in Nat
  BY <1>2, <1>3 DEF Typed, Same, Init
<1> QED
  BY <1>4, SameKept DEF Agreeing

(* Every step keeps the invariant: execution goes on only while nothing is *)
(* in doubt, so each one starts from the same state.                       *)
LEMMA NextAgreeing == Agreeing /\ [Next]_vars => Agreeing'
<1> SUFFICES ASSUME Agreeing, [Next]_vars PROVE Agreeing'
  OBVIOUS
<1>1. ASSUME NEW i \in Insns, Trap(i) PROVE Agreeing'
  BY <1>1 DEF Trap, Agreeing
<1>2. ASSUME NEW i \in Insns, Execute(i) PROVE Agreeing'
  <2>1. /\ doubt = {} /\ Fits(i, pc, arm) /\ Decode(i).op # "none"
        /\ arm' = MachineStep(i, pc, arm) /\ cpu' = Emitted(Decode(i), pc, cpu)
        /\ doubt' = Doubtful(i, pc, arm) /\ pc' \in Nat
    BY <1>2 DEF Execute, Going, Agreeing
  <2>2. Same(cpu, arm) /\ Typed(arm) /\ pc \in Nat
    BY <2>1 DEF Agreeing, KeptBut
  <2>3. Encoded(i)
    BY TranslateAssumption
  <2>4. KeptBut(Emitted(Decode(i), pc, cpu), MachineStep(i, pc, arm), Doubtful(i, pc, arm))
    BY <2>1, <2>2, <2>3, StepKept
  <2> QED
    BY <2>1, <2>4 DEF Agreeing
<1>3. CASE UNCHANGED vars
  BY <1>3 DEF vars, Agreeing
<1> QED
  BY <1>1, <1>2, <1>3 DEF Next

(* The invariant holds in every run. *)
THEOREM RunsAgree == Spec => []Agreeing
  BY InitAgreeing, NextAgreeing, PTL DEF Spec

(* Whatever program runs, and for every width: registers, flags and memory *)
(* of the runtime are the machine's, but for what the last instruction put *)
(* in doubt by one of the gaps that are named.                             *)
THEOREM TranslationKept == Spec => []StateKept
<1>1. Agreeing => StateKept
  BY DEF Agreeing, KeptBut, StateKept
<1> QED
  BY <1>1, RunsAgree, PTL

(* A conditional branch goes the way it goes on the machine, unless it     *)
(* reads a flag in doubt.                                                  *)
THEOREM BranchesAgree == Spec => []BranchesKept
<1>1. Agreeing => BranchesKept
  <2> SUFFICES ASSUME Agreeing PROVE BranchesKept
    OBVIOUS
  <2>1. StateKept
    BY DEF Agreeing, KeptBut, StateKept
  <2>2. \A x \in Flag : cpu.f[x] \in BOOLEAN /\ arm.f[x] \in BOOLEAN
    BY DEF Agreeing, KeptBut, FlagRecord, Flag
  <2> QED
    BY <2>1, <2>2, BranchesFollow
<1> QED
  BY <1>1, RunsAgree, PTL
================================================================================
