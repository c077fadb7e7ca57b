------------------------------ MODULE ExtractProofs ------------------------------
(***************************************************************************)
(* From a SELF to guest memory, for every file and every region: the ELF   *)
(* that is written is the module's image, memory that was loaded from it   *)
(* holds that image, and memory sized by a probe is enough for the load.   *)
(* On the way every segment goes through inflate.c, and for every stream   *)
(* and every capacity:                                                     *)
(*   - what was copied repeats what was written before it, and the output   *)
(*     stays within its room, whatever the tables decode;                   *)
(*   - the tables huff_build makes of any code lengths decode every window  *)
(*     of bits to the one symbol whose canonical code begins it;            *)
(*   - every turn of a loop consumes or produces something.                 *)
(* Of what inflating yields the image needs only the length.               *)
(***************************************************************************)
EXTENDS Extract, Induction, SequenceTheorems

--------------------------------------------------------------------------------
(* inflate.c.                                                              *)

(* The bit reader yields bits, and n of them a number of n bits.           *)
LEMMA BitType ==
  ASSUME src \in Seq({0, 1}), NEW p \in Nat
  PROVE  Bit(p) \in {0, 1}
<1>1. Len(src) \in Nat /\ (p < Len(src) => p + 1 \in 1 .. Len(src))
  BY LenProperties
<1> QED
  BY <1>1, ElementOfSeq DEF Bit

LEMMA BitsType ==
  ASSUME src \in Seq({0, 1}), NEW p \in Nat, NEW n \in Nat
  PROVE  Bits(p, n) \in 0 .. 2 ^ n - 1
<1> DEFINE Turn(i, x) == x + Bit(p + i - 1) * 2 ^ (i - 1)
           step == [i \in Nat |-> [x \in Nat |-> IF i = 0 THEN 0 ELSE Turn(i, x)]]
           v == CHOOSE v : v = [i \in 0 .. n |-> IF i = 0 THEN 0 ELSE Turn(i, v[i - 1])]
<1>1. ASSUME NEW i \in Nat \ {0}
      PROVE  Bit(p + i - 1) \in {0, 1} /\ 2 ^ (i - 1) \in Nat \ {0} /\ 2 ^ i = 2 * 2 ^ (i - 1)
  <2>1. p + i - 1 \in Nat /\ i - 1 \in Nat /\ (i - 1) + 1 = i
    OBVIOUS
  <2> QED
    BY <2>1, BitType, PowerStep
<1>2. ASSUME NEW i \in Nat \ {0}, NEW x \in Nat
      PROVE  Turn(i, x) \in Nat /\ (x < 2 ^ (i - 1) => Turn(i, x) < 2 ^ i)
  <2> DEFINE b == Bit(p + i - 1)
             w == 2 ^ (i - 1)
             z == 2 ^ i
  <2>1. b \in {0, 1} /\ w \in Nat /\ z = 2 * w /\ Turn(i, x) = x + b * w
    BY <1>1
  <2> HIDE DEF b, w, z, Turn
  <2>2. Turn(i, x) \in Nat /\ (x < w => Turn(i, x) < z)
    BY <2>1
  <2> QED
    BY <2>2 DEF w, z
<1>3. step \in [Nat -> [Nat -> Nat]]
  BY <1>2
<1>4. v = [i \in 0 .. n |-> IF i = 0 THEN 0 ELSE Turn(i, v[i - 1])]
  <2>1. PICK g : Recurses(g, Nat, 0, step, n)
    <3> HIDE DEF step
    <3>1. 0 \in Nat
      OBVIOUS
    <3> QED
      BY <1>3, <3>1, Recursion, Zenon
  <2>2. g \in [0 .. n -> Nat] /\ g[0] = 0 /\ \A i \in 1 .. n : g[i] = Turn(i, g[i - 1])
    <3>1. /\ g \in [0 .. n -> Nat] /\ g[0] = 0
          /\ \A i \in 1 .. n : g[i] = step[i][g[i - 1]]
      BY <2>1 DEF Recurses
    <3>2. \A i \in 1 .. n : g[i - 1] \in Nat
      BY <3>1
    <3> HIDE DEF Turn
    <3>3. \A i \in 1 .. n, x \in Nat : step[i][x] = Turn(i, x)
      OBVIOUS
    <3> HIDE DEF step
    <3> QED
      BY <3>1, <3>2, <3>3
  <2> HIDE DEF Turn
  <2>3. g = [i \in 0 .. n |-> IF i = 0 THEN 0 ELSE Turn(i, g[i - 1])]
    BY <2>2
  <2> QED
    BY <2>3
<1> DEFINE T == { u \in Nat : u <= n => v[u] \in 0 .. 2 ^ u - 1 }
<1>5. Nat \subseteq T
  <2> HIDE DEF v, Turn
  <2>1. 0 \in T
    <3>1. v[0] = 0 /\ 2 ^ 0 = 1
      BY <1>4
    <3> QED
      BY <3>1
  <2>2. ASSUME NEW u \in Nat, u \in T
        PROVE  u + 1 \in T
    <3> SUFFICES ASSUME u + 1 <= n PROVE v[u + 1] \in 0 .. 2 ^ (u + 1) - 1
      OBVIOUS
    <3>1. v[u] \in 0 .. 2 ^ u - 1 /\ 2 ^ u \in Nat
      BY <2>2, PowerStep
    <3>2. v[u + 1] = Turn(u + 1, v[u])
      BY <1>4
    <3> DEFINE j == u + 1
               x == v[u]
    <3>3. j \in Nat \ {0} /\ x \in Nat /\ j - 1 = u /\ x < 2 ^ u
      BY <3>1
    <3> HIDE DEF j, x
    <3>4. Turn(j, x) \in Nat /\ Turn(j, x) < 2 ^ j
      BY <1>2, <3>3
    <3> USE DEF j, x
    <3>5. 2 ^ (u + 1) \in Nat
      BY PowerStep
    <3> QED
      BY <3>2, <3>4, <3>5
  <2> HIDE DEF T
  <2> QED
    BY <2>1, <2>2, SetInduction
<1>6. v[n] \in 0 .. 2 ^ n - 1
  BY <1>5
<1>7. Bits(p, n) = v[n]
  BY Zenon DEF Bits
<1> QED
  BY <1>6, <1>7

MatchInv ==
  /\ \E S : dst \in Seq(S)
  /\ match.dist \in Nat \ {0} /\ match.from \in Nat /\ match.to \in Nat
  /\ MatchRepeats

--------------------------------------------------------------------------------
(* A function from an initial interval is a sequence.                      *)
LEMMA FunctionIsSeq ==
  ASSUME NEW n \in Nat, NEW T, NEW g \in [1 .. n -> T]
  PROVE  g \in Seq(T) /\ Len(g) = n
  OBVIOUS

LEMMA MatchInit ==
  ASSUME InfInit
  PROVE  MatchInv
<1>1. dst = << >> /\ phase = "idle" /\ match = [from |-> 0, to |-> 0, dist |-> 1, goal |-> 0]
  BY DEF InfInit
<1>2. dst \in Seq({}) /\ Len(dst) = 0
  BY <1>1
<1>3. MatchRepeats
  BY <1>1, <1>2 DEF MatchRepeats
<1> QED
  BY <1>1, <1>2, <1>3 DEF MatchInv

LEMMA MatchStart ==
  ASSUME NEW f, NEW c, Inflate(f, c)
  PROVE  MatchInv'
<1>1. dst' = << >> /\ match' = [from |-> 0, to |-> 0, dist |-> 1, goal |-> 0]
  BY DEF Inflate
<1>2. phase' # "copy"
  BY DEF Inflate, Return
<1>3. dst' \in Seq({}) /\ Len(dst') = 0
  BY <1>1
<1>4. MatchRepeats'
  BY <1>1, <1>2, <1>3 DEF MatchRepeats
<1> QED
  BY <1>1, <1>3, <1>4 DEF MatchInv

(* Output that only grows leaves a finished back-reference as it was.      *)
LEMMA MatchGrown ==
  ASSUME MatchInv, match' = match, phase' # "copy",
         \E S : dst' \in Seq(S),
         Len(dst) <= Len(dst'),
         \A i \in 1 .. Len(dst) : dst'[i] = dst[i]
  PROVE  MatchInv'
<1>1. PICK S : dst \in Seq(S)
  BY DEF MatchInv
<1>2. PICK T : dst' \in Seq(T)
  OBVIOUS
<1>3. Len(dst) \in Nat /\ Len(dst') \in Nat
  BY <1>1, <1>2, LenProperties
<1> DEFINE F == match.from  G == match.to  D == match.dist
<1>4. F \in Nat /\ G \in Nat /\ D \in Nat \ {0}
  BY DEF MatchInv
<1>5. F <= G /\ G <= Len(dst) /\ \A i \in F + 1 .. G : i > D /\ dst[i] = dst[i - D]
  BY DEF MatchInv, MatchRepeats
<1>6. F <= G /\ G <= Len(dst')
  BY <1>3, <1>4, <1>5
<1>7. ASSUME NEW i \in F + 1 .. G
      PROVE  i > D /\ dst'[i] = dst'[i - D]
  <2>1. i > D /\ dst[i] = dst[i - D]
    BY <1>5
  <2>2. i \in 1 .. Len(dst) /\ i - D \in 1 .. Len(dst)
    BY SMTT(30), <1>3, <1>4, <1>5, <2>1
  <2> QED
    BY <2>1, <2>2
<1>8. MatchRepeats'
  BY <1>6, <1>7 DEF MatchRepeats
<1> QED
  BY <1>2, <1>4, <1>8 DEF MatchInv

LEMMA MatchKept ==
  ASSUME MatchInv, match' = match, phase' # "copy", dst' = dst
  PROVE  MatchInv'
<1>1. PICK S : dst \in Seq(S)
  BY DEF MatchInv
<1>2. Len(dst) \in Nat
  BY <1>1, LenProperties
<1>3. /\ \E T : dst' \in Seq(T)
      /\ Len(dst) <= Len(dst')
      /\ \A i \in 1 .. Len(dst) : dst'[i] = dst[i]
  BY <1>1, <1>2
<1> QED
  BY <1>3, MatchGrown

LEMMA MatchAppend ==
  ASSUME MatchInv, match' = match, phase' # "copy", NEW b, dst' = Append(dst, b)
  PROVE  MatchInv'
<1>1. PICK S : dst \in Seq(S)
  BY DEF MatchInv
<1>2. dst \in Seq(S \cup {b}) /\ Len(dst) \in Nat
  BY <1>1, LenProperties
<1>3. /\ dst' \in Seq(S \cup {b})
      /\ Len(dst') = Len(dst) + 1
      /\ \A i \in 1 .. Len(dst) : dst'[i] = dst[i]
  BY <1>2, AppendProperties
<1>4. Len(dst) <= Len(dst')
  BY <1>2, <1>3
<1> QED
  BY <1>3, <1>4, MatchGrown

--------------------------------------------------------------------------------
LEMMA EndBlockPhase ==
  ASSUME EndBlock
  PROVE  phase' # "copy"
<1>1. CASE over'
  BY <1>1 DEF EndBlock, Return
<1>2. CASE ~over' /\ ~final
  BY <1>2 DEF EndBlock, Goto
<1>3. CASE ~over' /\ final
  BY <1>3 DEF EndBlock, Return
<1> QED
  BY <1>1, <1>2, <1>3

LEMMA MatchBlock ==
  ASSUME MatchInv, Block
  PROVE  MatchInv'
<1>1. phase' # "copy"
  BY DEF Block, Return, Goto
<1>2. match' = match /\ dst' = dst
  BY DEF Block
<1> QED
  BY <1>1, <1>2, MatchKept

LEMMA MatchDynamic ==
  ASSUME MatchInv, Dynamic
  PROVE  MatchInv'
<1>1. phase' # "copy"
  BY DEF Dynamic, Return, Goto
<1>2. match' = match /\ dst' = dst
  BY DEF Dynamic
<1> QED
  BY <1>1, <1>2, MatchKept

LEMMA MatchLengths ==
  ASSUME MatchInv, Lengths
  PROVE  MatchInv'
<1>1. phase' # "copy"
  BY ZenonT(40) DEF Lengths, Return, Goto
<1>2. match' = match /\ dst' = dst
  BY DEF Lengths
<1> QED
  BY <1>1, <1>2, MatchKept

LEMMA MatchTables ==
  ASSUME MatchInv, Tables
  PROVE  MatchInv'
<1>1. phase' # "copy"
  BY DEF Tables, Return, Goto
<1>2. match' = match /\ dst' = dst
  BY DEF Tables
<1> QED
  BY <1>1, <1>2, MatchKept

(* A stored block puts out what there is room for.                         *)
LEMMA StoredOutput ==
  ASSUME Stored, dst' # dst
  PROVE  \E n, cell : n \in 0 .. cap - Len(dst) /\ dst' = dst \o [i \in 1 .. n |-> cell[i]]
<1> DEFINE word == 2 * ByteBits
           p    == ByteBits * ((at + ByteBits - 1) \div ByteBits)
           len  == Bits(p, word)
           body == p + 2 * word
           copied == [i \in 1 .. len |-> Bits(body + (i - 1) * ByteBits, ByteBits)]
<1>1. len \in 0 .. cap - Len(dst) /\ dst' = dst \o copied
  BY DEF Stored
<1>2. copied = [i \in 1 .. len |-> copied[i]]
  OBVIOUS
<1> HIDE DEF copied, len
<1> QED
  BY <1>1, <1>2

LEMMA MatchStored ==
  ASSUME MatchInv, Stored
  PROVE  MatchInv'
<1>1. match' = match
  BY DEF Stored
<1>2. phase' # "copy"
  BY EndBlockPhase DEF Stored, Return
<1>3. CASE dst' = dst
  BY <1>1, <1>2, <1>3, MatchKept
<1>4. CASE dst' # dst
  <2>1. PICK n, cell : n \in 0 .. cap - Len(dst) /\ dst' = dst \o [i \in 1 .. n |-> cell[i]]
    BY <1>4, StoredOutput
  <2> DEFINE add == [i \in 1 .. n |-> cell[i]]
             T   == { cell[i] : i \in 1 .. n }
  <2>2. PICK S : dst \in Seq(S)
    BY DEF MatchInv
  <2>3. n \in Nat /\ Len(dst) \in Nat
    BY <2>1, <2>2, LenProperties
  <2>4. add \in [1 .. n -> T]
    OBVIOUS
  <2> HIDE DEF add, T
  <2>5. add \in Seq(T) /\ Len(add) = n
    BY <2>3, <2>4, FunctionIsSeq
  <2>6. dst \in Seq(S \cup T) /\ add \in Seq(S \cup T)
    BY <2>2, <2>5
  <2>7. dst' = dst \o add
    BY <2>1 DEF add
  <2>8. /\ dst' \in Seq(S \cup T)
        /\ Len(dst') = Len(dst) + n
        /\ \A i \in 1 .. Len(dst) + n : dst'[i] = IF i <= Len(dst) THEN dst[i] ELSE add[i - Len(dst)]
    BY <2>3, <2>5, <2>6, <2>7, ConcatProperties
  <2>9. Len(dst) <= Len(dst') /\ \A i \in 1 .. Len(dst) : dst'[i] = dst[i]
    BY <2>3, <2>8
  <2> QED
    BY <1>1, <1>2, <2>8, <2>9, MatchGrown
<1> QED
  BY <1>3, <1>4

--------------------------------------------------------------------------------
LEMMA MatchReference ==
  ASSUME MatchInv, NEW sym, NEW p, Reference(sym, p)
  PROVE  MatchInv'
<1>1. dst' = dst
  BY DEF Reference
<1>2. CASE match' = match /\ phase' # "copy"
  BY <1>1, <1>2, MatchKept
<1>3. CASE ~(match' = match /\ phase' # "copy")
  <2>1. PICK back, goal :
          /\ back \in 1 .. Len(dst)
          /\ match' = [from |-> Len(dst), to |-> Len(dst), dist |-> back, goal |-> goal]
    BY <1>3 DEF Reference, Return
  <2>2. PICK S : dst \in Seq(S)
    BY DEF MatchInv
  <2>3. Len(dst) \in Nat /\ back \in Nat \ {0} /\ back <= Len(dst)
    BY <2>1, <2>2, LenProperties
  <2>4. match'.from = Len(dst) /\ match'.to = Len(dst) /\ match'.dist = back
    BY <2>1
  <2>5. MatchRepeats'
    BY <1>1, <2>3, <2>4 DEF MatchRepeats
  <2> QED
    BY <1>1, <2>2, <2>3, <2>4, <2>5 DEF MatchInv
<1> QED
  BY <1>2, <1>3

LEMMA MatchSymbol ==
  ASSUME MatchInv, Symbol
  PROVE  MatchInv'
<1> DEFINE d == Decode(lit, Window(at))
           p == at + d.used
<1>1. \/ Reference(d.sym, p)
      \/ match' = match /\ dst' = dst /\ phase' # "copy"
      \/ match' = match /\ dst' = Append(dst, d.sym) /\ phase' # "copy"
  BY EndBlockPhase DEF Symbol, Return, Goto
<1> HIDE DEF d, p
<1> QED
  BY <1>1, MatchReference, MatchKept, MatchAppend

(* The byte-wise loop: each byte it writes repeats the one a distance back, *)
(* which may be one it wrote itself.                                        *)
LEMMA MatchCopy ==
  ASSUME MatchInv, Copy
  PROVE  MatchInv'
<1>1. CASE dst' = dst
  <2>1. PICK S : dst \in Seq(S)
    BY DEF MatchInv
  <2>2. dst # Append(dst, dst[CopyFrom])
    <3>1. dst \in Seq(S \cup {dst[CopyFrom]}) /\ Len(dst) \in Nat
      BY <2>1, LenProperties
    <3>2. Len(Append(dst, dst[CopyFrom])) = Len(dst) + 1
      BY <3>1, AppendProperties
    <3> QED
      BY <3>1, <3>2
  <2>3. match' = match /\ phase' # "copy"
    BY <1>1, <2>2 DEF Copy, Return
  <2> QED
    BY <1>1, <2>3, MatchKept
<1>2. CASE dst' # dst
  <2> DEFINE n == Len(dst)
             D == match.dist
             b == dst[n - D + 1]
  <2>1. phase = "copy" /\ dst' = Append(dst, b) /\ match' = [match EXCEPT !.to = n + 1]
    BY <1>2 DEF Copy, CopyFrom
  <2>2. PICK S : dst \in Seq(S)
    BY DEF MatchInv
  <2>3. dst \in Seq(S \cup {b}) /\ n \in Nat
    BY <2>2, LenProperties
  <2>4. /\ dst' \in Seq(S \cup {b})
        /\ Len(dst') = n + 1
        /\ \A i \in 1 .. n : dst'[i] = dst[i]
        /\ dst'[n + 1] = b
    BY <2>1, <2>3, AppendProperties
  <2>5. D \in Nat \ {0} /\ match.from \in Nat /\ match.to \in Nat
    BY DEF MatchInv
  <2>6. /\ D <= match.from /\ match.to = n /\ match.from <= match.to
        /\ \A i \in match.from + 1 .. match.to : i > D /\ dst[i] = dst[i - D]
    BY <2>1 DEF MatchInv, MatchRepeats
  <2>7. match'.from = match.from /\ match'.dist = D /\ match'.to = n + 1
    BY <2>1 DEF MatchInv
  <2>8. ASSUME NEW i \in match.from + 1 .. n + 1
        PROVE  i > D /\ dst'[i] = dst'[i - D]
    <3>1. CASE i = n + 1
      <4>1. n + 1 - D \in 1 .. n /\ n - D + 1 = n + 1 - D
        BY SMTT(30), <2>3, <2>5, <2>6
      <4>2. i > D
        BY <3>1, <2>3, <2>5, <2>6
      <4>3. dst'[n + 1 - D] = dst[n + 1 - D] /\ dst'[n + 1] = dst[n + 1 - D]
        BY <4>1, <2>4
      <4>4. i - D = n + 1 - D
        BY SMTT(30), <3>1, <2>3, <2>5
      <4>5. dst'[i] = dst'[n + 1] /\ dst'[i - D] = dst'[n + 1 - D]
        BY <3>1, <4>4
      <4> HIDE DEF n, D
      <4> QED
        BY <4>2, <4>3, <4>5
    <3>2. CASE i # n + 1
      <4>1. i \in match.from + 1 .. n
        BY <3>2, <2>3, <2>5
      <4>2. i > D /\ dst[i] = dst[i - D]
        BY <4>1, <2>6
      <4>3. i \in 1 .. n /\ i - D \in 1 .. n
        BY SMTT(30), <4>1, <4>2, <2>3, <2>5
      <4> QED
        BY <4>2, <4>3, <2>4
    <3> QED
      BY <3>1, <3>2
  <2>9. D <= match.from /\ match.from <= n + 1
    BY <2>3, <2>5, <2>6
  <2> HIDE DEF n, D, b
  <2>10. MatchRepeats'
    BY <2>4, <2>7, <2>8, <2>9 DEF MatchRepeats
  <2> QED
    BY <2>3, <2>4, <2>5, <2>7, <2>10 DEF MatchInv
<1> QED
  BY <1>1, <1>2

LEMMA MatchStep ==
  ASSUME MatchInv, Step
  PROVE  MatchInv'
  BY MatchBlock, MatchStored, MatchDynamic, MatchLengths, MatchTables, MatchSymbol, MatchCopy
     DEF Step

LEMMA MatchStutter ==
  ASSUME MatchInv, UNCHANGED infVars
  PROVE  MatchInv'
  BY DEF MatchInv, MatchRepeats, infVars

--------------------------------------------------------------------------------
(* The room the caller gave.                                               *)

RoomInv == cap \in Nat /\ Len(dst) <= cap

LEMMA RoomStart ==
  ASSUME NEW f, NEW c \in Nat, Inflate(f, c)
  PROVE  RoomInv'
<1>1. dst' = << >> /\ cap' = c
  BY DEF Inflate
<1> QED
  BY <1>1 DEF RoomInv

LEMMA RoomAppend ==
  ASSUME MatchInv, RoomInv, cap' = cap, Len(dst) < cap, NEW b, dst' = Append(dst, b)
  PROVE  RoomInv'
<1>1. PICK S : dst \in Seq(S)
  BY DEF MatchInv
<1>2. dst \in Seq(S \cup {b}) /\ Len(dst) \in Nat
  BY <1>1, LenProperties
<1>3. Len(dst') = Len(dst) + 1
  BY <1>2, AppendProperties
<1> QED
  BY <1>2, <1>3 DEF RoomInv

LEMMA RoomStep ==
  ASSUME MatchInv, RoomInv, Step
  PROVE  RoomInv'
<1>1. cap' = cap
  BY ZenonT(40) DEF Step, Block, Stored, Dynamic, Lengths, Tables, Symbol, Copy
<1>2. CASE dst' = dst
  BY <1>1, <1>2 DEF RoomInv
<1>3. CASE dst' # dst /\ Stored
  <2>1. PICK n, cell : n \in 0 .. cap - Len(dst) /\ dst' = dst \o [i \in 1 .. n |-> cell[i]]
    BY <1>3, StoredOutput
  <2> DEFINE add == [i \in 1 .. n |-> cell[i]]
             T   == { cell[i] : i \in 1 .. n }
  <2>2. PICK S : dst \in Seq(S)
    BY DEF MatchInv
  <2>3. Len(dst) \in Nat /\ n \in Nat /\ n <= cap - Len(dst)
    BY <2>1, <2>2, LenProperties DEF RoomInv
  <2>4. add \in [1 .. n -> T]
    OBVIOUS
  <2> HIDE DEF add, T
  <2>5. add \in Seq(T) /\ Len(add) = n
    BY <2>3, <2>4, FunctionIsSeq
  <2>6. dst \in Seq(S \cup T) /\ add \in Seq(S \cup T)
    BY <2>2, <2>5
  <2>7. dst' = dst \o add
    BY <2>1 DEF add
  <2>8. Len(dst') = Len(dst) + n
    BY ZenonT(40), <2>5, <2>6, <2>7, ConcatProperties
  <2> QED
    BY <1>1, <2>3, <2>8 DEF RoomInv
<1>4. CASE dst' # dst /\ Symbol
  <2>1. PICK b : Len(dst) < cap /\ dst' = Append(dst, b)
    BY ZenonT(40), <1>4 DEF Symbol, Reference
  <2> QED
    BY <1>1, <2>1, RoomAppend
<1>5. CASE dst' # dst /\ Copy
  <2>1. PICK b : ~(Len(dst) >= cap) /\ dst' = Append(dst, b)
    BY <1>5 DEF Copy
  <2>2. \E S : dst \in Seq(S)
    BY DEF MatchInv
  <2>3. Len(dst) < cap
    BY <2>1, <2>2, LenProperties DEF RoomInv
  <2> QED
    BY <1>1, <2>1, <2>3, RoomAppend
<1> QED
  BY ZenonT(40), <1>2, <1>3, <1>4, <1>5 DEF Step, Block, Dynamic, Lengths, Tables

--------------------------------------------------------------------------------
(* The types.                                                              *)

Phases == {"idle", "block", "stored", "dynamic", "lengths", "symbols", "copy"}
Results == {"ok", "header", "input", "output", "format", "distance", "adler"}

StatusOK ==
  /\ phase \in Phases
  /\ status \in Results \cup {"none", "running"}
  /\ status = "running" <=> phase # "idle"

ReaderOK == src \in Seq({0, 1}) /\ at \in 0 .. Len(src) /\ over \in BOOLEAN

LengthsOK ==
  /\ need \in (0 .. LitCount.max) \X (0 .. DistCount.max)
  /\ lengths \in Seq(0 .. MaxBits) /\ Len(lengths) <= need[1] + need[2]

OutputOK == cap \in Nat /\ dst \in Seq(Byte) /\ Len(dst) <= cap

MatchOK == match.dist \in Nat \ {0} /\ match.from \in Nat /\ match.to \in Nat

LEMMA TypeParts ==
  InfTypeOK <=>
    /\ StatusOK /\ ReaderOK /\ LengthsOK /\ OutputOK /\ MatchOK
    /\ final \in BOOLEAN
<1>1. StatusOK <=> /\ phase \in Phases
                   /\ status \in {"none", "running", "ok", "header", "input", "output",
                                  "format", "distance", "adler"}
                   /\ status = "running" <=> phase # "idle"
  BY DEF StatusOK, Results
<1> QED
  BY <1>1 DEF InfTypeOK, ReaderOK, LengthsOK, OutputOK, MatchOK, Phases

LEMMA ReturnType ==
  ASSUME NEW s \in Results, Return(s)
  PROVE  StatusOK'
  BY DEF StatusOK, Return, Results, Phases

LEMMA GotoType ==
  ASSUME StatusOK, phase # "idle", NEW p \in Phases \ {"idle"}, Goto(p)
  PROVE  StatusOK'
  BY DEF StatusOK, Goto

LEMMA EndBlockType ==
  ASSUME StatusOK, phase # "idle", over' \in BOOLEAN, final \in BOOLEAN, EndBlock
  PROVE  StatusOK'
<1>1. CASE over'
  <2>1. Return("input") /\ "input" \in Results
    BY <1>1 DEF EndBlock, Results
  <2> QED
    BY <2>1, ReturnType
<1>2. CASE ~over' /\ ~final
  <2>1. Goto("block") /\ "block" \in Phases \ {"idle"}
    BY <1>2 DEF EndBlock, Phases
  <2> QED
    BY <2>1, GotoType
<1>3. CASE ~over' /\ final
  <2>1. \E s \in Results : Return(s)
    BY <1>3 DEF EndBlock, Results
  <2> QED
    BY <2>1, ReturnType
<1> QED
  BY <1>1, <1>2, <1>3

LEMMA AdvanceType ==
  ASSUME ReaderOK, src' = src, NEW p, Advance(p)
  PROVE  ReaderOK'
<1>1. Len(src) \in Nat
  BY LenProperties DEF ReaderOK
<1>2. at' \in 0 .. Len(src)
  BY <1>1 DEF Advance
<1>3. over' \in BOOLEAN
  BY DEF Advance, Past, ReaderOK
<1> QED
  BY <1>2, <1>3 DEF ReaderOK

LEMMA TypeKept ==
  /\ UNCHANGED << src, at, over >> => (ReaderOK' <=> ReaderOK)
  /\ UNCHANGED << need, lengths >> => (LengthsOK' <=> LengthsOK)
  /\ UNCHANGED << cap, dst >> => (OutputOK' <=> OutputOK)
  /\ UNCHANGED match => (MatchOK' <=> MatchOK)
  BY DEF ReaderOK, LengthsOK, OutputOK, MatchOK

(* The state a call starts in, whatever its frame. *)
LEMMA TypeFresh ==
  /\ << 0, 0 >> \in (0 .. LitCount.max) \X (0 .. DistCount.max)
  /\ << >> \in Seq(0 .. MaxBits) /\ Len(<< >>) = 0
  /\ << >> \in Seq({0, 1}) /\ << >> \in Seq(Byte)
<1>1. LitCount.max \in Nat /\ DistCount.max \in Nat
  BY AlphabetAssumption
<1>2. 0 \in 0 .. LitCount.max /\ 0 \in 0 .. DistCount.max
  BY <1>1
<1>3. << 0, 0 >> \in (0 .. LitCount.max) \X (0 .. DistCount.max)
  BY <1>2
<1> QED
  BY <1>3, EmptySeq

LEMMA TypeInit ==
  ASSUME InfInit
  PROVE  InfTypeOK
<1>1. StatusOK
  BY DEF InfInit, StatusOK, Phases, Results
<1>2. ReaderOK
  <2>1. over \in BOOLEAN
    BY Zenon DEF InfInit
  <2>2. src = << >> /\ at = 0
    BY DEF InfInit
  <2> QED
    BY <2>1, <2>2, TypeFresh DEF ReaderOK
<1>3. LengthsOK
  BY TypeFresh DEF InfInit, LengthsOK
<1>4. OutputOK
  BY TypeFresh DEF InfInit, OutputOK
<1>5. MatchOK /\ final \in BOOLEAN
  <2>1. final \in BOOLEAN
    BY Zenon DEF InfInit
  <2>2. match = [from |-> 0, to |-> 0, dist |-> 1, goal |-> 0]
    BY DEF InfInit
  <2> QED
    BY <2>1, <2>2 DEF MatchOK
<1> QED
  BY <1>1, <1>2, <1>3, <1>4, <1>5, TypeParts

LEMMA TypePartsNext ==
  ASSUME StatusOK', ReaderOK', LengthsOK', OutputOK', MatchOK', final' \in BOOLEAN
  PROVE  InfTypeOK'
  BY DEF StatusOK, ReaderOK, LengthsOK, OutputOK, MatchOK, InfTypeOK, Phases, Results

LEMMA TypeStart ==
  ASSUME NEW f, NEW c, f.bits \in Seq({0, 1}), c \in Nat, Inflate(f, c)
  PROVE  InfTypeOK'
<1>1. StatusOK'
  BY DEF Inflate, StatusOK, Return, Phases, Results
<1>2. ReaderOK'
  <2>1. src' = f.bits /\ at' = 0 /\ Len(f.bits) \in Nat
    BY LenProperties DEF Inflate
  <2>2. over' \in BOOLEAN
    BY Zenon DEF Inflate
  <2> QED
    BY <2>1, <2>2 DEF ReaderOK
<1>3. LengthsOK'
  <2>1. need' = << 0, 0 >> /\ lengths' = << >>
    BY DEF Inflate
  <2> QED
    BY <2>1, TypeFresh DEF LengthsOK
<1>4. OutputOK'
  <2>1. dst' = << >> /\ cap' = c
    BY DEF Inflate
  <2> QED
    BY <2>1, TypeFresh DEF OutputOK
<1>5. MatchOK' /\ final' \in BOOLEAN
  <2>1. match' = [from |-> 0, to |-> 0, dist |-> 1, goal |-> 0]
    BY DEF Inflate
  <2>2. final' \in BOOLEAN
    BY Zenon DEF Inflate
  <2> QED
    BY <2>1, <2>2 DEF MatchOK
<1> QED
  BY <1>1, <1>2, <1>3, <1>4, <1>5, TypePartsNext

LEMMA TypeBlock ==
  ASSUME InfTypeOK, Block
  PROVE  InfTypeOK'
<1>1. /\ StatusOK /\ ReaderOK /\ LengthsOK /\ OutputOK /\ MatchOK
      /\ phase # "idle" /\ src' = src /\ Advance(at + 3)
      /\ UNCHANGED << need, lengths >> /\ UNCHANGED << cap, dst >> /\ UNCHANGED match
  BY TypeParts DEF Block
<1>2. ReaderOK' /\ LengthsOK' /\ OutputOK' /\ MatchOK'
  BY <1>1, AdvanceType, TypeKept
<1>3. final' \in BOOLEAN
  BY Zenon DEF Block
<1>4. \/ \E s \in Results : Return(s)
      \/ \E p \in Phases \ {"idle"} : Goto(p)
  <2>1. \/ Return("input") \/ Return("format")
        \/ Goto("stored") \/ Goto("symbols") \/ Goto("dynamic")
    BY DEF Block
  <2> QED
    BY <2>1 DEF Results, Phases
<1>5. StatusOK'
  BY <1>1, <1>4, ReturnType, GotoType
<1> QED
  BY <1>2, <1>3, <1>5, TypePartsNext

LEMMA TypeDynamic ==
  ASSUME InfTypeOK, Dynamic
  PROVE  InfTypeOK'
<1>1. /\ StatusOK /\ ReaderOK /\ LengthsOK /\ OutputOK /\ MatchOK
      /\ phase # "idle" /\ src' = src /\ (\E p : Advance(p))
      /\ UNCHANGED << cap, dst >> /\ UNCHANGED match /\ final' = final /\ final \in BOOLEAN
  BY TypeParts DEF Dynamic
<1>2. ReaderOK' /\ OutputOK' /\ MatchOK' /\ final' \in BOOLEAN
  BY <1>1, AdvanceType, TypeKept
<1>3. \/ Return("format") /\ UNCHANGED << need, lengths >>
      \/ Return("input") /\ UNCHANGED << need, lengths >>
      \/ /\ Goto("lengths") /\ lengths' = << >>
         /\ \E a \in 1 .. LitCount.max, b \in 1 .. DistCount.max : need' = << a, b >>
  BY DEF Dynamic
<1>4. StatusOK'
  <2>1. "format" \in Results /\ "input" \in Results /\ "lengths" \in Phases \ {"idle"}
    BY DEF Results, Phases
  <2> QED
    BY <1>1, <1>3, <2>1, ReturnType, GotoType
<1>5. LengthsOK'
  <2>1. CASE UNCHANGED << need, lengths >>
    BY <1>1, <2>1, TypeKept
  <2>2. ASSUME NEW a \in 1 .. LitCount.max, NEW b \in 1 .. DistCount.max,
               need' = << a, b >>, lengths' = << >>
        PROVE  LengthsOK'
    <3>1. LitCount.max \in Nat /\ DistCount.max \in Nat
      BY AlphabetAssumption
    <3>2. need' \in (0 .. LitCount.max) \X (0 .. DistCount.max) /\ 0 <= need'[1] + need'[2]
      BY SMTT(30), <2>2, <3>1
    <3> QED
      BY <2>2, <3>2, TypeFresh DEF LengthsOK
  <2> QED
    BY <1>3, <2>1, <2>2
<1> QED
  BY <1>2, <1>4, <1>5, TypePartsNext

LEMMA TypeLengths ==
  ASSUME InfTypeOK, Lengths
  PROVE  InfTypeOK'
<1>1. /\ StatusOK /\ ReaderOK /\ LengthsOK /\ OutputOK /\ MatchOK
      /\ phase # "idle" /\ src' = src /\ (\E p : Advance(p)) /\ need' = need
      /\ UNCHANGED << cap, dst >> /\ UNCHANGED match /\ final' = final /\ final \in BOOLEAN
  BY ZenonT(40), TypeParts DEF Lengths
<1>2. ReaderOK' /\ OutputOK' /\ MatchOK' /\ final' \in BOOLEAN
  BY SMTT(30), <1>1, AdvanceType, TypeKept
<1>3. Return("input") \/ Return("format") \/ Goto("lengths")
  BY ZenonT(40) DEF Lengths
<1>4. StatusOK'
  <2>1. "format" \in Results /\ "input" \in Results /\ "lengths" \in Phases \ {"idle"}
    BY DEF Results, Phases
  <2> QED
    BY <1>1, <1>3, <2>1, ReturnType, GotoType
<1> DEFINE n == Len(lengths)
           total == need[1] + need[2]
<1>5. /\ n \in Nat /\ total \in Nat /\ n < total /\ lengths \in Seq(0 .. MaxBits)
      /\ n > 0 => lengths[n] \in 0 .. MaxBits
      /\ MaxBits \in Nat
  <2>1. /\ need \in (0 .. LitCount.max) \X (0 .. DistCount.max)
        /\ lengths \in Seq(0 .. MaxBits) /\ n < total
    BY ZenonT(40), <1>1 DEF LengthsOK, Lengths
  <2>2. LitCount.max \in Nat /\ DistCount.max \in Nat /\ MaxBits \in Nat
    BY AlphabetAssumption, InflateAssumption
  <2>3. total \in Nat /\ n \in Nat
    BY <2>1, <2>2, LenProperties
  <2>4. n > 0 => n \in 1 .. n
    BY <2>3
  <2> QED
    BY SMTT(30), <2>1, <2>2, <2>3, <2>4, ElementOfSeq
<1>6. \/ UNCHANGED lengths
      \/ \E x \in 0 .. MaxBits : lengths' = Append(lengths, x)
      \/ \E rep \in 1 .. total - n, x \in 0 .. MaxBits :
           lengths' = lengths \o [i \in 1 .. rep |-> x]
  <2> DEFINE d   == Decode(clen, Window(at))
             p   == at + d.used
             run == RunCode[d.sym - MaxBits]
             rep == run.base + Bits(p, run.extra)
             x   == IF d.sym = MaxBits + 1 THEN lengths[n] ELSE 0
  <2>1. CASE ~(UNCHANGED lengths) /\ ~(\E y \in 0 .. MaxBits : lengths' = Append(lengths, y))
    <3>1. /\ rep \in 1 .. total - n
          /\ d.sym = MaxBits + 1 => n > 0
          /\ lengths' = lengths \o [i \in 1 .. rep |-> x]
      BY ZenonT(40), <2>1 DEF Lengths
    <3>2. x \in 0 .. MaxBits
      <4> DEFINE given == lengths[n]
      <4>1. /\ MaxBits \in Nat
            /\ d.sym = MaxBits + 1 => given \in 0 .. MaxBits
        BY ZenonT(40), <1>5, <3>1
      <4>2. x = IF d.sym = MaxBits + 1 THEN given ELSE 0
        OBVIOUS
      <4> HIDE DEF d, p, run, rep, n, total, x, given
      <4> QED
        BY SMTT(30), <4>1, <4>2
    <3> HIDE DEF rep, x
    <3> QED
      BY ZenonT(40), <3>1, <3>2
  <2> QED
    BY <2>1
<1> HIDE DEF n, total
<1>7. lengths' \in Seq(0 .. MaxBits) /\ Len(lengths') <= total
  <2>1. CASE UNCHANGED lengths
    BY <1>5, <2>1 DEF n
  <2>2. ASSUME NEW x \in 0 .. MaxBits, lengths' = Append(lengths, x)
        PROVE  lengths' \in Seq(0 .. MaxBits) /\ Len(lengths') = n + 1
    BY <1>5, <2>2, AppendProperties DEF n
  <2>3. ASSUME NEW rep \in 1 .. total - n, NEW x \in 0 .. MaxBits,
               lengths' = lengths \o [i \in 1 .. rep |-> x]
        PROVE  lengths' \in Seq(0 .. MaxBits) /\ Len(lengths') = n + rep
    <3> DEFINE add == [i \in 1 .. rep |-> x]
    <3>1. rep \in Nat /\ add \in [1 .. rep -> 0 .. MaxBits]
      BY <1>5
    <3> HIDE DEF add
    <3>2. add \in Seq(0 .. MaxBits) /\ Len(add) = rep
      BY <3>1, FunctionIsSeq
    <3>3. lengths' = lengths \o add
      BY <2>3 DEF add
    <3> QED
      BY <1>5, <3>2, <3>3, ConcatProperties DEF n
  <2> DEFINE Good == lengths' \in Seq(0 .. MaxBits) /\ Len(lengths') <= total
  <2>4. ASSUME NEW x \in 0 .. MaxBits, lengths' = Append(lengths, x)
        PROVE  Good
    BY SMTT(30), <1>5, <2>2, <2>4
  <2>5. ASSUME NEW rep \in 1 .. total - n, NEW x \in 0 .. MaxBits,
               lengths' = lengths \o [i \in 1 .. rep |-> x]
        PROVE  Good
    <3>1. lengths' \in Seq(0 .. MaxBits) /\ Len(lengths') = n + rep
      BY <2>3, <2>5
    <3> QED
      BY <1>5, <3>1
  <2> HIDE DEF Good
  <2>6. Good
    BY <1>6, <2>1, <2>4, <2>5 DEF Good
  <2> QED
    BY <2>6 DEF Good
<1>8. LengthsOK'
  BY <1>1, <1>7 DEF LengthsOK, total
<1> QED
  BY <1>2, <1>4, <1>8, TypePartsNext

LEMMA TypeTables ==
  ASSUME InfTypeOK, Tables
  PROVE  InfTypeOK'
<1>1. /\ StatusOK /\ ReaderOK /\ LengthsOK /\ OutputOK /\ MatchOK /\ phase # "idle"
      /\ UNCHANGED << src, at, over >> /\ UNCHANGED << need, lengths >>
      /\ UNCHANGED << cap, dst >> /\ UNCHANGED match /\ final' = final /\ final \in BOOLEAN
  BY TypeParts DEF Tables
<1>2. ReaderOK' /\ LengthsOK' /\ OutputOK' /\ MatchOK' /\ final' \in BOOLEAN
  BY <1>1, TypeKept
<1>3. (Return("format") \/ Goto("symbols"))
      /\ "format" \in Results /\ "symbols" \in Phases \ {"idle"}
  BY DEF Tables, Results, Phases
<1>4. StatusOK'
  BY <1>1, <1>3, ReturnType, GotoType
<1> QED
  BY <1>2, <1>4, TypePartsNext

(* What block_stored copies: bytes, as many as there is room for. *)
LEMMA StoredBytes ==
  ASSUME InfTypeOK, Stored, dst' # dst
  PROVE  \E n \in 0 .. cap - Len(dst), add \in Seq(Byte) : Len(add) = n /\ dst' = dst \o add
<1> DEFINE word == 2 * ByteBits
           p    == ByteBits * ((at + ByteBits - 1) \div ByteBits)
           len  == Bits(p, word)
           body == p + 2 * word
           add  == [i \in 1 .. len |-> Bits(body + (i - 1) * ByteBits, ByteBits)]
<1>1. len \in 0 .. cap - Len(dst) /\ dst' = dst \o add
  BY DEF Stored
<1>2. /\ src \in Seq({0, 1}) /\ at \in Nat /\ Len(dst) \in Nat /\ cap \in Nat
      /\ ByteBits \in Nat \ {0}
  <2>1. src \in Seq({0, 1}) /\ at \in 0 .. Len(src) /\ dst \in Seq(Byte) /\ cap \in Nat
    BY DEF InfTypeOK
  <2> QED
    BY <2>1, LenProperties, InflateAssumption
<1>3. p \in Nat
  <2>1. at + ByteBits - 1 \in Nat
    BY <1>2
  <2>2. \A a \in Nat : a \div ByteBits \in Nat
    BY <1>2
  <2>3. \A a \in Nat : ByteBits * a \in Nat
    BY <1>2
  <2> QED
    BY <2>1, <2>2, <2>3
<1>4. word \in Nat
  BY <1>2
<1> HIDE DEF p, word
<1>5. body \in Nat
  BY <1>3, <1>4
<1>6. len \in Nat
  BY <1>1, <1>2
<1> HIDE DEF len, body
<1>7. ASSUME NEW i \in 1 .. len
      PROVE  Bits(body + (i - 1) * ByteBits, ByteBits) \in Byte
  <2>1. i - 1 \in Nat
    BY <1>6
  <2>2. \A u \in Nat : u * ByteBits \in Nat
    BY <1>2
  <2>3. body + (i - 1) * ByteBits \in Nat
    BY <1>5, <2>1, <2>2
  <2> QED
    BY <1>2, <2>3, BitsType DEF Byte
<1>8. add \in [1 .. len -> Byte]
  BY <1>7
<1> HIDE DEF add
<1>9. add \in Seq(Byte) /\ Len(add) = len
  BY <1>6, <1>8, FunctionIsSeq
<1> QED
  BY <1>1, <1>9

LEMMA TypeStored ==
  ASSUME InfTypeOK, Stored
  PROVE  InfTypeOK'
<1>1. /\ StatusOK /\ ReaderOK /\ LengthsOK /\ OutputOK /\ MatchOK /\ phase # "idle"
      /\ src' = src /\ cap' = cap /\ UNCHANGED << need, lengths >>
      /\ UNCHANGED match /\ final' = final /\ final \in BOOLEAN
  BY TypeParts DEF Stored, tables
<1>2. LengthsOK' /\ MatchOK' /\ final' \in BOOLEAN
  BY <1>1, TypeKept
<1>3. UNCHANGED << src, at, over >> \/ \E p : Advance(p)
  BY <1>1 DEF Stored
<1>4. ReaderOK'
  BY <1>1, <1>3, AdvanceType, TypeKept
<1>5. StatusOK'
  <2>1. Return("input") \/ Return("format") \/ Return("output") \/ EndBlock
    BY DEF Stored
  <2>2. "input" \in Results /\ "format" \in Results /\ "output" \in Results
    BY DEF Results
  <2>3. over' \in BOOLEAN
    BY <1>4 DEF ReaderOK
  <2> QED
    BY <1>1, <2>1, <2>2, <2>3, ReturnType, EndBlockType
<1>6. OutputOK'
  <2>1. CASE dst' = dst
    BY <1>1, <2>1, TypeKept
  <2>2. CASE dst' # dst
    <3>1. PICK n \in 0 .. cap - Len(dst), add \in Seq(Byte) :
                 Len(add) = n /\ dst' = dst \o add
      BY <2>2, StoredBytes
    <3>2. cap \in Nat /\ dst \in Seq(Byte) /\ Len(dst) \in Nat
      BY <1>1, LenProperties DEF OutputOK
    <3>3. dst' \in Seq(Byte) /\ Len(dst') = Len(dst) + n
      BY <3>1, <3>2, ConcatProperties
    <3> QED
      BY <1>1, <3>2, <3>3 DEF OutputOK
  <2> QED
    BY <2>1, <2>2
<1> QED
  BY <1>2, <1>4, <1>5, <1>6, TypePartsNext

LEMMA TypeReference ==
  ASSUME InfTypeOK, phase # "idle", src' = src, NEW sym, NEW p, Reference(sym, p)
  PROVE  StatusOK' /\ ReaderOK' /\ MatchOK' /\ dst' = dst
<1>1. StatusOK /\ ReaderOK /\ OutputOK /\ MatchOK
  BY TypeParts
<1>2. dst' = dst /\ \E q : Advance(q)
  BY DEF Reference
<1>3. ReaderOK'
  BY <1>1, <1>2, AdvanceType
<1>4. Return("format") \/ Return("input") \/ Return("distance") \/ Goto("copy")
  BY DEF Reference
<1>5. StatusOK'
  <2>1. /\ "format" \in Results /\ "input" \in Results /\ "distance" \in Results
        /\ "copy" \in Phases \ {"idle"}
    BY DEF Results, Phases
  <2> QED
    BY <1>1, <1>4, <2>1, ReturnType, GotoType
<1>6. \/ UNCHANGED match
      \/ \E back \in 1 .. Len(dst) : \E end :
           match' = [from |-> Len(dst), to |-> Len(dst), dist |-> back, goal |-> end]
  BY DEF Reference
<1>7. MatchOK'
  <2>1. CASE UNCHANGED match
    BY <1>1, <2>1, TypeKept
  <2>2. ASSUME NEW back \in 1 .. Len(dst), NEW end,
               match' = [from |-> Len(dst), to |-> Len(dst), dist |-> back, goal |-> end]
        PROVE  MatchOK'
    <3>1. Len(dst) \in Nat
      BY <1>1, LenProperties DEF OutputOK
    <3>2. match'.dist = back /\ match'.from = Len(dst) /\ match'.to = Len(dst)
      BY <2>2
    <3> QED
      BY <3>1, <3>2 DEF MatchOK
  <2> QED
    BY <1>6, <2>1, <2>2
<1> QED
  BY <1>2, <1>3, <1>5, <1>7

LEMMA OutputAppend ==
  ASSUME OutputOK, cap' = cap, Len(dst) < cap, NEW b \in Byte, dst' = Append(dst, b)
  PROVE  OutputOK'
<1>1. dst \in Seq(Byte) /\ Len(dst) \in Nat /\ cap \in Nat
  BY LenProperties DEF OutputOK
<1>2. dst' \in Seq(Byte) /\ Len(dst') = Len(dst) + 1
  BY <1>1, AppendProperties
<1> QED
  BY <1>1, <1>2 DEF OutputOK

LEMMA TypeSymbol ==
  ASSUME InfTypeOK, Symbol
  PROVE  InfTypeOK'
<1>1. /\ StatusOK /\ ReaderOK /\ LengthsOK /\ OutputOK /\ MatchOK /\ phase # "idle"
      /\ src' = src /\ cap' = cap /\ UNCHANGED << need, lengths >>
      /\ final' = final /\ final \in BOOLEAN
  BY TypeParts DEF Symbol, tables
<1>2. LengthsOK' /\ final' \in BOOLEAN
  BY <1>1, TypeKept
<1>3. CASE \E sym, p : Reference(sym, p)
  <2>1. StatusOK' /\ ReaderOK' /\ MatchOK' /\ dst' = dst
    BY <1>1, <1>3, TypeReference
  <2>2. OutputOK'
    BY <1>1, <2>1, TypeKept
  <2> QED
    BY <1>2, <2>1, <2>2, TypePartsNext
<1>4. CASE ~\E sym, p : Reference(sym, p)
  <2>1. UNCHANGED match /\ \E p : Advance(p)
    BY <1>4 DEF Symbol
  <2>2. ReaderOK' /\ MatchOK'
    BY <1>1, <2>1, AdvanceType, TypeKept
  <2>3. over' \in BOOLEAN
    BY <2>2 DEF ReaderOK
  <2>4. \/ Return("input") \/ Return("format") \/ Return("output")
        \/ Goto("symbols") \/ EndBlock
    BY <1>4 DEF Symbol
  <2>5. StatusOK'
    <3>1. /\ "input" \in Results /\ "format" \in Results /\ "output" \in Results
          /\ "symbols" \in Phases \ {"idle"}
      BY DEF Results, Phases
    <3> QED
      BY <1>1, <2>3, <2>4, <3>1, ReturnType, GotoType, EndBlockType
  <2>6. dst' = dst \/ (Len(dst) < cap /\ \E b \in Byte : dst' = Append(dst, b))
    BY <1>4 DEF Symbol
  <2>7. OutputOK'
    BY <1>1, <2>6, TypeKept, OutputAppend
  <2> QED
    BY <1>2, <2>2, <2>5, <2>7, TypePartsNext
<1> QED
  BY <1>3, <1>4

LEMMA TypeCopy ==
  ASSUME InfTypeOK, MatchRepeats, Copy
  PROVE  InfTypeOK'
<1>1. /\ StatusOK /\ ReaderOK /\ LengthsOK /\ OutputOK /\ MatchOK /\ phase # "idle"
      /\ cap' = cap /\ UNCHANGED << src, at, over >> /\ UNCHANGED << need, lengths >>
      /\ final' = final /\ final \in BOOLEAN
  BY TypeParts DEF Copy, tables
<1>2. ReaderOK' /\ LengthsOK' /\ final' \in BOOLEAN
  BY <1>1, TypeKept
<1>3. StatusOK'
  <2>1. Return("output") \/ Goto("copy") \/ Goto("symbols")
    BY DEF Copy
  <2>2. "output" \in Results /\ {"copy", "symbols"} \subseteq Phases \ {"idle"}
    BY DEF Results, Phases
  <2> QED
    BY <1>1, <2>1, <2>2, ReturnType, GotoType
<1>4. CASE Len(dst) >= cap
  <2>1. UNCHANGED << cap, dst >> /\ UNCHANGED match
    BY <1>4 DEF Copy
  <2>2. OutputOK' /\ MatchOK'
    BY <1>1, <2>1, TypeKept
  <2> QED
    BY <1>2, <1>3, <2>2, TypePartsNext
<1>5. CASE ~(Len(dst) >= cap)
  <2>1. dst' = Append(dst, dst[CopyFrom]) /\ match' = [match EXCEPT !.to = Len(dst) + 1]
    BY <1>5 DEF Copy
  <2>2. Len(dst) \in Nat /\ cap \in Nat /\ dst \in Seq(Byte)
    BY <1>1, LenProperties DEF OutputOK
  <2>3. /\ match.dist \in Nat \ {0} /\ match.from \in Nat /\ match.to \in Nat
        /\ match.from <= match.to /\ match.to <= Len(dst) /\ match.dist <= match.from
    BY <1>1 DEF MatchOK, MatchRepeats, Copy
  <2>4. CopyFrom \in 1 .. Len(dst)
    BY <2>2, <2>3 DEF CopyFrom
  <2>5. dst[CopyFrom] \in Byte
    BY <2>2, <2>4, ElementOfSeq
  <2>6. OutputOK'
    BY <1>1, <1>5, <2>1, <2>2, <2>5, OutputAppend
  <2>7. match'.dist = match.dist /\ match'.from = match.from /\ match'.to \in Nat
    BY <2>1, <2>2, <2>3
  <2>8. MatchOK'
    BY <2>3, <2>7 DEF MatchOK
  <2> QED
    BY <1>2, <1>3, <2>6, <2>8, TypePartsNext
<1> QED
  BY <1>4, <1>5

LEMMA TypeStep ==
  ASSUME InfTypeOK, MatchRepeats, Step
  PROVE  InfTypeOK'
  BY TypeBlock, TypeStored, TypeDynamic, TypeLengths, TypeTables, TypeSymbol, TypeCopy
     DEF Step

--------------------------------------------------------------------------------
(* Codes and tables.                                                       *)

Bitstring == [1 .. MaxBits -> {0, 1}]

CodeOf(w) ==
  CHOOSE code : code = [n \in 0 .. MaxBits |-> IF n = 0 THEN 0 ELSE 2 * code[n - 1] + w[n]]

FirstOf(L) ==
  CHOOSE first : first = [n \in 1 .. MaxBits |->
                            IF n = 1 THEN 0 ELSE 2 * (first[n - 1] + Counts(L)[n - 1])]

IndexOf(L) ==
  CHOOSE index : index = [n \in 1 .. MaxBits |->
                            IF n = 1 THEN 0 ELSE index[n - 1] + Counts(L)[n - 1]]

Ends(h, w) == { n \in 1 .. MaxBits : CodeOf(w)[n] - h.first[n] < h.counts[n] }

LEMMA DecodeIs ==
  ASSUME NEW h, NEW w
  PROVE  LET n == Min(Ends(h, w))
         IN  Decode(h, w) =
               IF Ends(h, w) = {} THEN [sym |-> NoSymbol, used |-> MaxBits]
               ELSE [sym |-> h.symbols[h.index[n] + (CodeOf(w)[n] - h.first[n])], used |-> n]
  BY Zenon DEF Decode, Ends, CodeOf

LEMMA HuffIs ==
  ASSUME NEW L
  PROVE  Huff(L) = [of |-> L, counts |-> Counts(L), symbols |-> Symbols(L),
                    first |-> FirstOf(L), index |-> IndexOf(L)]
  BY Zenon DEF Huff, FirstOf, IndexOf

LEMMA CodeType ==
  ASSUME NEW w \in Bitstring
  PROVE  LET code == CodeOf(w)
         IN  /\ code \in [0 .. MaxBits -> Nat] /\ code[0] = 0
             /\ \A n \in 1 .. MaxBits : code[n] = 2 * code[n - 1] + w[n]
<1> DEFINE step == [i \in Nat |-> [x \in Nat |-> IF i \in 1 .. MaxBits THEN 2 * x + w[i] ELSE 0]]
<1>1. MaxBits \in Nat /\ 0 \in Nat
  BY InflateAssumption
<1>2. \A i \in 1 .. MaxBits : w[i] \in Nat
  BY DEF Bitstring
<1>3. step \in [Nat -> [Nat -> Nat]]
  BY <1>2
<1>4. PICK g : Recurses(g, Nat, 0, step, MaxBits)
  <2> HIDE DEF step
  <2> QED
    BY <1>1, <1>3, Recursion, Zenon
<1>5. /\ g \in [0 .. MaxBits -> Nat] /\ g[0] = 0
      /\ \A i \in 1 .. MaxBits : g[i] = 2 * g[i - 1] + w[i]
  <2>1. /\ g \in [0 .. MaxBits -> Nat] /\ g[0] = 0
        /\ \A i \in 1 .. MaxBits : g[i] = step[i][g[i - 1]]
    BY <1>4 DEF Recurses
  <2>2. \A i \in 1 .. MaxBits : g[i - 1] \in Nat
    BY <1>1, <2>1
  <2>3. \A i \in 1 .. MaxBits, x \in Nat : step[i][x] = 2 * x + w[i]
    OBVIOUS
  <2> HIDE DEF step
  <2> QED
    BY <2>1, <2>2, <2>3
<1>6. g = [n \in 0 .. MaxBits |-> IF n = 0 THEN 0 ELSE 2 * g[n - 1] + w[n]]
  BY <1>1, <1>5
<1> DEFINE code == CodeOf(w)
<1>7. code = [n \in 0 .. MaxBits |-> IF n = 0 THEN 0 ELSE 2 * code[n - 1] + w[n]]
  BY <1>6, Zenon DEF CodeOf
<1> HIDE DEF code
<1> DEFINE T == { n \in Nat : n <= MaxBits => code[n] \in Nat }
<1>8. Nat \subseteq T
  <2>1. 0 \in T
    BY <1>7
  <2>2. ASSUME NEW n \in Nat, n \in T
        PROVE  n + 1 \in T
    <3> SUFFICES ASSUME n + 1 <= MaxBits PROVE code[n + 1] \in Nat
      OBVIOUS
    <3>1. code[n] \in Nat /\ w[n + 1] \in Nat /\ code[n + 1] = 2 * code[n] + w[n + 1]
      BY <1>1, <1>2, <1>7, <2>2
    <3> QED
      BY <3>1
  <2> HIDE DEF T
  <2> QED
    BY <2>1, <2>2, SetInduction
<1>9. \A n \in 0 .. MaxBits : code[n] \in Nat
  BY <1>1, <1>8
<1>10. /\ code \in [0 .. MaxBits -> Nat] /\ code[0] = 0
       /\ \A n \in 1 .. MaxBits : code[n] = 2 * code[n - 1] + w[n]
  BY <1>1, <1>7, <1>9
<1> QED
  BY <1>10 DEF code

(* A row of a table, from the length 1 on: first with a = 2, index with 1. *)
Row(f, a, c) == f = [n \in 1 .. MaxBits |-> IF n = 1 THEN 0 ELSE a * (f[n - 1] + c[n - 1])]

LEMMA RowType ==
  ASSUME NEW f, NEW a \in {1, 2}, NEW c \in [1 .. MaxBits -> Nat], Row(f, a, c)
  PROVE  /\ f \in [1 .. MaxBits -> Nat] /\ f[1] = 0
         /\ \A n \in 1 .. MaxBits - 1 : f[n + 1] = a * (f[n] + c[n])
<1>1. MaxBits \in Nat \ {0}
  BY InflateAssumption
<1>2. f = [n \in 1 .. MaxBits |-> IF n = 1 THEN 0 ELSE a * (f[n - 1] + c[n - 1])]
  BY DEF Row
<1>3. f[1] = 0 /\ \A n \in 1 .. MaxBits - 1 : f[n + 1] = a * (f[n] + c[n])
  BY <1>1, <1>2
<1> DEFINE T == { n \in Nat : n + 1 <= MaxBits => f[n + 1] \in Nat }
<1>4. Nat \subseteq T
  <2>1. 0 \in T
    BY <1>3
  <2>2. ASSUME NEW n \in Nat, n \in T
        PROVE  n + 1 \in T
    <3> SUFFICES ASSUME n + 1 + 1 <= MaxBits PROVE f[n + 1 + 1] \in Nat
      OBVIOUS
    <3>1. n + 1 \in 1 .. MaxBits - 1 /\ n + 1 \in 1 .. MaxBits /\ f[n + 1] \in Nat
      BY <1>1, <2>2
    <3>2. f[n + 1 + 1] = a * (f[n + 1] + c[n + 1]) /\ c[n + 1] \in Nat
      BY <1>3, <3>1
    <3> QED
      BY <3>1, <3>2
  <2> HIDE DEF T
  <2> QED
    BY <2>1, <2>2, SetInduction
<1>5. ASSUME NEW n \in 1 .. MaxBits
      PROVE  f[n] \in Nat
  <2>1. n - 1 \in Nat /\ (n - 1) + 1 = n /\ n <= MaxBits
    BY <1>1
  <2>2. n - 1 \in T
    BY <1>4, <2>1
  <2> QED
    BY <2>1, <2>2
<1>6. f \in [1 .. MaxBits -> Nat]
  BY <1>2, <1>5
<1> QED
  BY <1>3, <1>6

LEMMA RowExists ==
  ASSUME NEW a \in {1, 2}, NEW c \in [1 .. MaxBits -> Nat]
  PROVE  \E f : Row(f, a, c)
<1> DEFINE step == [i \in Nat |-> [x \in Nat |->
                      IF i \in 2 .. MaxBits THEN a * (x + c[i - 1]) ELSE 0]]
<1>1. MaxBits \in Nat \ {0} /\ 0 \in Nat
  BY InflateAssumption
<1>2. \A i \in 2 .. MaxBits : c[i - 1] \in Nat
  BY <1>1
<1>3. step \in [Nat -> [Nat -> Nat]]
  BY <1>2
<1>4. PICK g : Recurses(g, Nat, 0, step, MaxBits)
  <2> HIDE DEF step
  <2> QED
    BY <1>1, <1>3, Recursion, Zenon
<1>5. /\ g \in [0 .. MaxBits -> Nat]
      /\ \A i \in 1 .. MaxBits : g[i] = step[i][g[i - 1]]
  BY <1>4 DEF Recurses
<1>6. \A i \in 1 .. MaxBits : g[i - 1] \in Nat
  BY <1>1, <1>5
<1>7. \A i \in 1 .. MaxBits, x \in Nat :
        step[i][x] = IF i = 1 THEN 0 ELSE a * (x + c[i - 1])
  BY <1>1
<1> HIDE DEF step
<1>8. \A i \in 1 .. MaxBits : g[i] = IF i = 1 THEN 0 ELSE a * (g[i - 1] + c[i - 1])
  BY <1>5, <1>6, <1>7
<1> DEFINE f == [i \in 1 .. MaxBits |-> g[i]]
<1>9. ASSUME NEW i \in 1 .. MaxBits, i # 1
      PROVE  f[i - 1] = g[i - 1]
  BY <1>1, <1>9
<1>10. Row(f, a, c)
  <2>1. \A i \in 1 .. MaxBits : f[i] = IF i = 1 THEN 0 ELSE a * (f[i - 1] + c[i - 1])
    BY <1>8, <1>9
  <2> HIDE DEF f
  <2>2. f = [i \in 1 .. MaxBits |-> f[i]]
    BY DEF f
  <2> QED
    BY <2>1, <2>2 DEF Row
<1> QED
  BY <1>10

LEMMA CountsType ==
  ASSUME NEW L, Alphabet(L)
  PROVE  Counts(L) \in [1 .. MaxBits -> Nat]
<1>1. ASSUME NEW n \in 1 .. MaxBits
      PROVE  Cardinality({ s \in DOMAIN L : L[s] = n }) \in Nat
  <2> DEFINE S == { s \in DOMAIN L : L[s] = n }
  <2>1. S \in SUBSET DOMAIN L
    OBVIOUS
  <2> HIDE DEF S
  <2>2. IsFiniteSet(S)
    BY <2>1, FS_Subset DEF Alphabet
  <2> QED
    BY <2>2, FS_CardinalityType DEF S
<1> QED
  BY <1>1 DEF Counts

LEMMA FirstType ==
  ASSUME NEW L, Alphabet(L)
  PROVE  LET first == FirstOf(L)
         IN  /\ first \in [1 .. MaxBits -> Nat] /\ first[1] = 0
             /\ \A n \in 1 .. MaxBits - 1 : first[n + 1] = 2 * (first[n] + Counts(L)[n])
<1> DEFINE first == FirstOf(L)
           c == Counts(L)
<1>1. c \in [1 .. MaxBits -> Nat]
  BY CountsType
<1>2. \E f : f = [n \in 1 .. MaxBits |-> IF n = 1 THEN 0 ELSE 2 * (f[n - 1] + c[n - 1])]
  <2> HIDE DEF c
  <2> QED
    BY <1>1, RowExists DEF Row
<1>3. first = [n \in 1 .. MaxBits |-> IF n = 1 THEN 0 ELSE 2 * (first[n - 1] + c[n - 1])]
  BY <1>2, Zenon DEF FirstOf
<1> HIDE DEF first, c
<1>4. Row(first, 2, c)
  BY <1>3 DEF Row
<1>5. /\ first \in [1 .. MaxBits -> Nat] /\ first[1] = 0
      /\ \A n \in 1 .. MaxBits - 1 : first[n + 1] = 2 * (first[n] + c[n])
  BY <1>1, <1>4, RowType
<1> QED
  BY <1>5 DEF first, c

LEMMA IndexType ==
  ASSUME NEW L, Alphabet(L)
  PROVE  LET index == IndexOf(L)
         IN  /\ index \in [1 .. MaxBits -> Nat] /\ index[1] = 0
             /\ \A n \in 1 .. MaxBits - 1 : index[n + 1] = index[n] + Counts(L)[n]
<1> DEFINE index == IndexOf(L)
           c == Counts(L)
<1>1. c \in [1 .. MaxBits -> Nat] /\ MaxBits \in Nat
  BY CountsType, InflateAssumption
<1>2. \E f : f = [n \in 1 .. MaxBits |-> IF n = 1 THEN 0 ELSE f[n - 1] + c[n - 1]]
  <2> HIDE DEF c
  <2>1. PICK f : Row(f, 1, c)
    BY <1>1, RowExists
  <2>2. f \in [1 .. MaxBits -> Nat]
    BY <1>1, <2>1, RowType
  <2>3. \A n \in 1 .. MaxBits : n # 1 => 1 * (f[n - 1] + c[n - 1]) = f[n - 1] + c[n - 1]
    BY <1>1, <2>2
  <2>4. f = [n \in 1 .. MaxBits |-> IF n = 1 THEN 0 ELSE f[n - 1] + c[n - 1]]
    BY <2>1, <2>3 DEF Row
  <2> QED
    BY <2>4
<1>3. index = [n \in 1 .. MaxBits |-> IF n = 1 THEN 0 ELSE index[n - 1] + c[n - 1]]
  BY <1>2, Zenon DEF IndexOf
<1> HIDE DEF index, c
<1>4. index[1] = 0 /\ \A n \in 1 .. MaxBits - 1 : index[n + 1] = index[n] + c[n]
  BY <1>1, <1>3, InflateAssumption
<1> DEFINE T == { n \in Nat : n + 1 <= MaxBits => index[n + 1] \in Nat }
<1>5. Nat \subseteq T
  <2>1. 0 \in T
    BY <1>4
  <2>2. ASSUME NEW n \in Nat, n \in T
        PROVE  n + 1 \in T
    <3> SUFFICES ASSUME n + 1 + 1 <= MaxBits PROVE index[n + 1 + 1] \in Nat
      OBVIOUS
    <3>1. n + 1 \in 1 .. MaxBits - 1 /\ n + 1 \in 1 .. MaxBits /\ index[n + 1] \in Nat
      BY <1>1, <2>2
    <3>2. index[n + 1 + 1] = index[n + 1] + c[n + 1] /\ c[n + 1] \in Nat
      BY <1>1, <1>4, <3>1
    <3> QED
      BY <3>1, <3>2
  <2> HIDE DEF T
  <2> QED
    BY <2>1, <2>2, SetInduction
<1>6. ASSUME NEW n \in 1 .. MaxBits
      PROVE  index[n] \in Nat
  <2>1. n - 1 \in Nat /\ (n - 1) + 1 = n /\ n <= MaxBits
    BY <1>1
  <2>2. n - 1 \in T
    BY <1>5, <2>1
  <2> QED
    BY <2>1, <2>2
<1>7. /\ index \in [1 .. MaxBits -> Nat] /\ index[1] = 0
      /\ \A n \in 1 .. MaxBits - 1 : index[n + 1] = index[n] + c[n]
  BY <1>3, <1>4, <1>6
<1> QED
  BY <1>7 DEF index, c
(* Where huff_build puts a symbol. *)
With(L, n) == { s \in DOMAIN L : L[s] = n }
Shorter(L, n) == { t \in DOMAIN L : L[t] \in 1 .. n - 1 }
Before(L, s) == { t \in DOMAIN L : L[t] = L[s] /\ t < s }
CodedIn(L) == { s \in DOMAIN L : L[s] # 0 }

LEMMA SetTypes ==
  ASSUME NEW L, Alphabet(L), NEW S, S \subseteq DOMAIN L
  PROVE  IsFiniteSet(S) /\ Cardinality(S) \in Nat
<1>1. S \in SUBSET DOMAIN L /\ IsFiniteSet(DOMAIN L)
  BY DEF Alphabet
<1>2. IsFiniteSet(S)
  BY <1>1, FS_Subset
<1> QED
  BY <1>2, FS_CardinalityType

LEMMA SetGrows ==
  ASSUME NEW L, Alphabet(L), NEW S, NEW T, S \subseteq T, T \subseteq DOMAIN L
  PROVE  /\ Cardinality(S) <= Cardinality(T)
         /\ Cardinality(S) = Cardinality(T) => S = T
<1>1. IsFiniteSet(T) /\ S \in SUBSET T
  BY SetTypes
<1> QED
  BY <1>1, FS_Subset

LEMMA ShorterIs ==
  ASSUME NEW L, Alphabet(L), NEW n \in 1 .. MaxBits
  PROVE  /\ Cardinality(Shorter(L, n)) = IndexOf(L)[n]
         /\ Cardinality(Shorter(L, n + 1)) = IndexOf(L)[n] + Counts(L)[n]
<1>1. MaxBits \in Nat \ {0}
  BY InflateAssumption
<1>2. ASSUME NEW u \in 1 .. MaxBits
      PROVE  Cardinality(Shorter(L, u + 1)) = Cardinality(Shorter(L, u)) + Counts(L)[u]
  <2>1. Shorter(L, u + 1) = Shorter(L, u) \cup With(L, u)
    <3>1. \A x : x \in 1 .. (u + 1) - 1 <=> x \in 1 .. u - 1 \/ x = u
      BY <1>1
    <3> QED
      BY <3>1 DEF Shorter, With
  <2>2. Shorter(L, u) \cap With(L, u) = {}
    BY <1>1 DEF Shorter, With
  <2>3. IsFiniteSet(Shorter(L, u)) /\ IsFiniteSet(With(L, u))
    BY SetTypes DEF Shorter, With
  <2>4. Counts(L)[u] = Cardinality(With(L, u))
    BY DEF Counts, With
  <2>5. Cardinality(Shorter(L, u) \cap With(L, u)) = 0
    BY <2>2, FS_EmptySet
  <2>6. Cardinality(Shorter(L, u)) \in Nat /\ Cardinality(With(L, u)) \in Nat
    BY SetTypes DEF Shorter, With
  <2>7. Cardinality(Shorter(L, u) \cup With(L, u))
          = Cardinality(Shorter(L, u)) + Cardinality(With(L, u))
            - Cardinality(Shorter(L, u) \cap With(L, u))
    BY <2>3, FS_Union
  <2>8. Cardinality(Shorter(L, u + 1)) = Cardinality(Shorter(L, u) \cup With(L, u))
    BY <2>1, Zenon
  <2> QED
    BY <2>4, <2>5, <2>6, <2>7, <2>8
<1> DEFINE T == { u \in Nat : u + 1 <= MaxBits => Cardinality(Shorter(L, u + 1)) = IndexOf(L)[u + 1] }
<1>3. Nat \subseteq T
  <2>1. 0 \in T
    <3>1. Shorter(L, 1) = {}
      BY DEF Shorter
    <3>2. Cardinality(Shorter(L, 1)) = 0
      BY <3>1, FS_EmptySet, Zenon
    <3>3. IndexOf(L)[1] = 0
      BY IndexType
    <3> QED
      BY <3>2, <3>3
  <2>2. ASSUME NEW u \in Nat, u \in T
        PROVE  u + 1 \in T
    <3> SUFFICES ASSUME u + 1 + 1 <= MaxBits
                 PROVE  Cardinality(Shorter(L, u + 1 + 1)) = IndexOf(L)[u + 1 + 1]
      OBVIOUS
    <3>1. u + 1 \in 1 .. MaxBits - 1 /\ u + 1 \in 1 .. MaxBits
      BY <1>1
    <3>2. Cardinality(Shorter(L, u + 1)) = IndexOf(L)[u + 1]
      BY <2>2, <3>1
    <3>3. IndexOf(L)[u + 1 + 1] = IndexOf(L)[u + 1] + Counts(L)[u + 1]
      BY <3>1, IndexType
    <3> QED
      BY <1>2, <3>1, <3>2, <3>3
  <2> HIDE DEF T
  <2> QED
    BY <2>1, <2>2, SetInduction
<1>4. Cardinality(Shorter(L, n)) = IndexOf(L)[n]
  <2>1. n - 1 \in Nat /\ (n - 1) + 1 = n /\ n <= MaxBits
    BY <1>1
  <2>2. n - 1 \in T
    BY <1>3, <2>1
  <2> QED
    BY <2>1, <2>2
<1> QED
  BY <1>2, <1>4

LEMMA PlaceIs ==
  ASSUME NEW L, Alphabet(L), NEW s \in CodedIn(L)
  PROVE  /\ s \in DOMAIN L /\ L[s] \in 1 .. MaxBits
         /\ Place(L, s) = IndexOf(L)[L[s]] + Cardinality(Before(L, s))
         /\ Cardinality(Before(L, s)) \in 0 .. Counts(L)[L[s]] - 1
<1>1. s \in DOMAIN L /\ L[s] \in 1 .. MaxBits /\ s \in Nat /\ L[s] \in Nat
  BY InflateAssumption DEF CodedIn, Alphabet
<1>2. Place(L, s) = Cardinality(Shorter(L, L[s])) + Cardinality(Before(L, s))
  BY DEF Place, Shorter, Before
<1>3. Cardinality(Shorter(L, L[s])) = IndexOf(L)[L[s]]
  BY <1>1, ShorterIs
<1>4. Cardinality(Before(L, s)) \in Nat /\ IsFiniteSet(Before(L, s))
  BY SetTypes DEF Before
<1>5. Cardinality(Before(L, s) \cup {s}) = Cardinality(Before(L, s)) + 1
  <2>1. s \notin Before(L, s)
    BY <1>1 DEF Before
  <2> QED
    BY <1>4, <2>1, FS_AddElement
<1>6. Cardinality(Before(L, s) \cup {s}) <= Cardinality(With(L, L[s]))
  <2>1. Before(L, s) \cup {s} \subseteq With(L, L[s]) /\ With(L, L[s]) \subseteq DOMAIN L
    BY <1>1 DEF Before, With
  <2> QED
    BY <2>1, SetGrows
<1>7. Counts(L)[L[s]] = Cardinality(With(L, L[s]))
  BY <1>1 DEF Counts, With
<1>8. Cardinality(With(L, L[s])) \in Nat
  BY SetTypes DEF With
<1> QED
  BY <1>1, <1>2, <1>3, <1>4, <1>5, <1>6, <1>7, <1>8

(* The places of one length end before those of a longer one begin. *)
LEMMA IndexGrows ==
  ASSUME NEW L, Alphabet(L), NEW n \in 1 .. MaxBits
  PROVE  /\ \A u \in n + 1 .. MaxBits : IndexOf(L)[n] + Counts(L)[n] <= IndexOf(L)[u]
         /\ IndexOf(L)[n] + Counts(L)[n] <= Cardinality(CodedIn(L))
<1>1. MaxBits \in Nat
  BY InflateAssumption
<1>2. ASSUME NEW u \in n + 1 .. MaxBits
      PROVE  IndexOf(L)[n] + Counts(L)[n] <= IndexOf(L)[u]
  <2>1. \A x : x \in 1 .. (n + 1) - 1 => x \in 1 .. u - 1
    BY <1>1
  <2>2. Shorter(L, n + 1) \subseteq Shorter(L, u) /\ Shorter(L, u) \subseteq DOMAIN L
    BY <2>1 DEF Shorter
  <2>3. u \in 1 .. MaxBits
    BY <1>1
  <2> QED
    BY <2>2, <2>3, SetGrows, ShorterIs
<1>3. IndexOf(L)[n] + Counts(L)[n] <= Cardinality(CodedIn(L))
  <2>1. Shorter(L, n + 1) \subseteq CodedIn(L) /\ CodedIn(L) \subseteq DOMAIN L
    BY DEF Shorter, CodedIn
  <2> QED
    BY <2>1, SetGrows, ShorterIs
<1> QED
  BY <1>2, <1>3

LEMMA PlaceApart ==
  ASSUME NEW L, Alphabet(L), NEW s \in CodedIn(L), NEW t \in CodedIn(L),
         L[s] < L[t] \/ (L[s] = L[t] /\ s < t)
  PROVE  Place(L, s) < Place(L, t)
<1> DEFINE n == L[s]
           u == L[t]
           r == Cardinality(Before(L, s))
           q == Cardinality(Before(L, t))
<1>1. /\ n \in 1 .. MaxBits /\ u \in 1 .. MaxBits /\ s \in DOMAIN L /\ t \in DOMAIN L
      /\ Place(L, s) = IndexOf(L)[n] + r /\ r \in 0 .. Counts(L)[n] - 1
      /\ Place(L, t) = IndexOf(L)[u] + q /\ q \in 0 .. Counts(L)[u] - 1
  BY PlaceIs
<1>2. /\ MaxBits \in Nat /\ IndexOf(L)[n] \in Nat /\ IndexOf(L)[u] \in Nat
      /\ Counts(L)[n] \in Nat /\ Counts(L)[u] \in Nat
  BY <1>1, IndexType, CountsType, InflateAssumption
<1>3. CASE n < u
  <2>1. IndexOf(L)[n] + Counts(L)[n] <= IndexOf(L)[u]
    <3>1. u \in n + 1 .. MaxBits
      BY <1>1, <1>2, <1>3
    <3> QED
      BY <1>1, <3>1, IndexGrows
  <2> HIDE DEF n, u, r, q
  <2> QED
    BY <1>1, <1>2, <2>1
<1>4. CASE n = u /\ s < t
  <2>1. s \in Nat /\ t \in Nat
    BY <1>1 DEF Alphabet
  <2>2. /\ Before(L, s) \cup {s} \subseteq Before(L, t) /\ Before(L, t) \subseteq DOMAIN L
        /\ s \notin Before(L, s)
    <3>1. ASSUME NEW x \in Before(L, s) \cup {s}
          PROVE  x \in Before(L, t)
      <4>1. x \in DOMAIN L /\ x \in Nat /\ L[x] = n /\ x <= s
        BY <1>1, <2>1 DEF Before, Alphabet
      <4> QED
        BY <1>4, <2>1, <4>1 DEF Before
    <3> QED
      BY <2>1, <3>1 DEF Before
  <2>3. IsFiniteSet(Before(L, s)) /\ r \in Nat
    BY SetTypes DEF Before
  <2>4. Cardinality(Before(L, s) \cup {s}) = r + 1
    BY <2>2, <2>3, FS_AddElement
  <2>5. r + 1 <= q
    BY <2>2, <2>4, SetGrows
  <2> HIDE DEF n, u, r, q
  <2> QED
    BY <1>1, <1>2, <1>4, <2>5
<1> QED
  BY <1>3, <1>4

LEMMA PlaceOnto ==
  ASSUME NEW L, Alphabet(L), NEW i \in 0 .. Cardinality(CodedIn(L)) - 1
  PROVE  \E s \in CodedIn(L) : Place(L, s) = i
<1> DEFINE C == CodedIn(L)
           c == Cardinality(C)
           f == [s \in C |-> Place(L, s)]
<1>1. IsFiniteSet(C) /\ c \in Nat
  BY SetTypes DEF CodedIn
<1>2. ASSUME NEW s \in C
      PROVE  Place(L, s) \in 0 .. c - 1
  <2> DEFINE n == L[s]
             r == Cardinality(Before(L, s))
  <2>1. /\ n \in 1 .. MaxBits /\ Place(L, s) = IndexOf(L)[n] + r
        /\ r \in 0 .. Counts(L)[n] - 1
    BY PlaceIs
  <2>2. IndexOf(L)[n] \in Nat /\ Counts(L)[n] \in Nat
    BY <2>1, IndexType, CountsType
  <2>3. IndexOf(L)[n] + Counts(L)[n] <= c
    BY <2>1, IndexGrows
  <2> HIDE DEF n, r, c
  <2> QED
    BY <1>1, <2>1, <2>2, <2>3
<1>3. ASSUME NEW s \in C, NEW t \in C, s # t
      PROVE  Place(L, s) # Place(L, t)
  <2>1. s \in Nat /\ t \in Nat /\ L[s] \in Nat /\ L[t] \in Nat
    BY InflateAssumption DEF CodedIn, Alphabet
  <2>2. \/ L[s] < L[t] \/ (L[s] = L[t] /\ s < t)
        \/ L[t] < L[s] \/ (L[t] = L[s] /\ t < s)
    BY <1>3, <2>1
  <2>3. Place(L, s) < Place(L, t) \/ Place(L, t) < Place(L, s)
    BY <2>2, PlaceApart
  <2>4. Place(L, s) \in Nat /\ Place(L, t) \in Nat
    BY <1>1, <1>2
  <2> QED
    BY <2>3, <2>4
<1>4. f \in Injection(C, 0 .. c - 1)
  <2>1. f \in [C -> 0 .. c - 1]
    BY <1>2
  <2>2. \A s, t \in C : f[s] = f[t] => s = t
    BY <1>3
  <2> HIDE DEF f, C, c
  <2> QED
    BY <2>1, <2>2 DEF Injection, IsInjective
<1>5. IsFiniteSet(0 .. c - 1) /\ Cardinality(0 .. c - 1) = c
  BY <1>1, FS_Interval
<1>6. f \in Surjection(C, 0 .. c - 1)
  BY <1>4, <1>5, FS_Injection
<1>7. \E s \in C : f[s] = i
  BY <1>6 DEF Surjection
<1> QED
  BY <1>7

(* The symbol at a place: the one of its length with as many before it.    *)
LEMMA SymbolAt ==
  ASSUME NEW L, Alphabet(L), NEW n \in 1 .. MaxBits, NEW r \in 0 .. Counts(L)[n] - 1
  PROVE  LET s == Symbols(L)[IndexOf(L)[n] + r]
         IN  s \in DOMAIN L /\ L[s] = n /\ Cardinality(Before(L, s)) = r
<1> DEFINE c == Cardinality(CodedIn(L))
           i == IndexOf(L)[n] + r
           s == Symbols(L)[i]
<1>1. IndexOf(L)[n] \in Nat /\ Counts(L)[n] \in Nat /\ c \in Nat
  BY IndexType, CountsType, SetTypes DEF CodedIn
<1>2. i \in 0 .. c - 1
  BY <1>1, IndexGrows
<1>3. s \in CodedIn(L) /\ Place(L, s) = i
  <2>1. s = CHOOSE x \in CodedIn(L) : Place(L, x) = i
    BY <1>2 DEF Symbols, CodedIn
  <2> QED
    BY <1>2, <2>1, PlaceOnto
<1> DEFINE u == L[s]
           q == Cardinality(Before(L, s))
<1>4. /\ s \in DOMAIN L /\ u \in 1 .. MaxBits /\ i = IndexOf(L)[u] + q
      /\ q \in 0 .. Counts(L)[u] - 1
  BY <1>3, PlaceIs
<1>5. MaxBits \in Nat /\ IndexOf(L)[u] \in Nat /\ Counts(L)[u] \in Nat
  BY <1>4, IndexType, CountsType, InflateAssumption
<1>6. /\ u \in n + 1 .. MaxBits => IndexOf(L)[n] + Counts(L)[n] <= IndexOf(L)[u]
      /\ n \in u + 1 .. MaxBits => IndexOf(L)[u] + Counts(L)[u] <= IndexOf(L)[n]
  BY <1>4, IndexGrows
<1>7. i = IndexOf(L)[n] + r
  OBVIOUS
<1> HIDE DEF u, q, i
<1>8. u = n
  BY <1>1, <1>4, <1>5, <1>6, <1>7
<1>9. q = r
  BY <1>1, <1>4, <1>5, <1>7, <1>8
<1> QED
  BY <1>4, <1>8, <1>9 DEF u, q, i

(* Before the first length that has the code, the walk has gone past the   *)
(* codes of every length.                                                  *)
LEMMA PastCodes ==
  ASSUME NEW L, Alphabet(L), NEW w \in Bitstring, NEW n \in 1 .. MaxBits,
         \A u \in 1 .. n - 1 : u \notin Ends(Huff(L), w)
  PROVE  FirstOf(L)[n] <= CodeOf(w)[n]
<1> DEFINE code == CodeOf(w)
           first == FirstOf(L)
           c == Counts(L)
<1>1. MaxBits \in Nat
  BY InflateAssumption
<1>2. /\ code \in [0 .. MaxBits -> Nat] /\ code[0] = 0
      /\ \A u \in 1 .. MaxBits : code[u] = 2 * code[u - 1] + w[u]
  BY CodeType
<1>3. /\ first \in [1 .. MaxBits -> Nat] /\ first[1] = 0
      /\ \A u \in 1 .. MaxBits - 1 : first[u + 1] = 2 * (first[u] + c[u])
  BY FirstType
<1>4. c \in [1 .. MaxBits -> Nat]
  BY CountsType
<1>5. \A u \in 1 .. MaxBits : u \in Ends(Huff(L), w) <=> code[u] - first[u] < c[u]
  BY HuffIs DEF Ends
<1>6. \A u \in 1 .. MaxBits : w[u] \in {0, 1}
  BY DEF Bitstring
<1> HIDE DEF code, first, c
<1> DEFINE T == { u \in Nat : u + 1 <= n => first[u + 1] <= code[u + 1] }
<1>7. Nat \subseteq T
  <2>1. 0 \in T
    <3>1. 1 <= n => first[1] = 0 /\ code[1] \in Nat
      BY <1>1, <1>2, <1>3
    <3> QED
      BY <3>1
  <2>2. ASSUME NEW u \in Nat, u \in T
        PROVE  u + 1 \in T
    <3> SUFFICES ASSUME u + 1 + 1 <= n PROVE first[u + 1 + 1] <= code[u + 1 + 1]
      OBVIOUS
    <3> DEFINE j == u + 1
    <3>1. j \in 1 .. n - 1 /\ j \in 1 .. MaxBits - 1 /\ j \in 1 .. MaxBits /\ j + 1 \in 1 .. MaxBits
          /\ j \in 0 .. MaxBits
      BY <1>1
    <3>2. first[j] <= code[j]
      BY <2>2
    <3>3. ~(code[j] - first[j] < c[j])
      BY <1>5, <3>1
    <3>4. (j + 1) - 1 = j
      BY <3>1
    <3>5. first[j + 1] = 2 * (first[j] + c[j]) /\ code[j + 1] = 2 * code[j] + w[j + 1]
      BY <1>2, <1>3, <3>1, <3>4
    <3>6. first[j] \in Nat /\ code[j] \in Nat /\ c[j] \in Nat /\ w[j + 1] \in {0, 1}
      BY <1>2, <1>3, <1>4, <1>6, <3>1
    <3> HIDE DEF j
    <3>7. first[j + 1] <= code[j + 1]
      BY <3>2, <3>3, <3>5, <3>6
    <3> QED
      BY <3>7 DEF j
  <2> HIDE DEF T
  <2> QED
    BY <2>1, <2>2, SetInduction
<1>8. n - 1 \in T /\ (n - 1) + 1 = n
  BY <1>1, <1>7
<1>9. first[n] <= code[n]
  BY <1>1, <1>8
<1> QED
  BY <1>9 DEF first, code

(* What huff_decode yields: nothing when no length has the code, else the  *)
(* symbol of the first that does, as far from its first as the code is.    *)
Found(L, w, d) ==
  /\ d.used \in 1 .. MaxBits
  /\ d.sym = NoSymbol => d.used = MaxBits /\ Ends(Huff(L), w) = {}
  /\ d.sym # NoSymbol =>
       /\ d.sym \in DOMAIN L /\ L[d.sym] = d.used
       /\ CodeOf(w)[d.used] = FirstOf(L)[d.used] + Cardinality(Before(L, d.sym))

LEMMA DecodeFinds ==
  ASSUME NEW L, Alphabet(L), NEW w \in Bitstring
  PROVE  Found(L, w, Decode(Huff(L), w))
<1> DEFINE h == Huff(L)
           d == Decode(h, w)
           E == Ends(h, w)
           n == Min(E)
<1>1. MaxBits \in Nat \ {0}
  BY InflateAssumption
<1>2. CASE E = {}
  <2>1. d = [sym |-> NoSymbol, used |-> MaxBits]
    BY <1>2, DecodeIs, Zenon
  <2> HIDE DEF d
  <2>2. d.sym = NoSymbol /\ d.used = MaxBits /\ d.used \in 1 .. MaxBits
    BY <1>1, <2>1
  <2> QED
    BY <1>2, <2>2 DEF Found, d
<1>3. CASE E # {}
  <2>1. n \in E /\ \A u \in E : n <= u
    <3>1. E \subseteq Nat
      BY DEF Ends
    <3>2. \E x \in E : \A y \in E : x <= y
      BY <1>3, <3>1, LeastNumber
    <3> HIDE DEF E
    <3> QED
      BY <3>2 DEF Min
  <2> DEFINE r == CodeOf(w)[n] - FirstOf(L)[n]
  <2>2. n \in 1 .. MaxBits /\ r < Counts(L)[n]
    BY <2>1, HuffIs DEF Ends
  <2>3. \A u \in 1 .. n - 1 : u \notin E
    BY <2>1, <2>2
  <2>4. FirstOf(L)[n] <= CodeOf(w)[n]
    BY <2>2, <2>3, PastCodes
  <2>5. FirstOf(L)[n] \in Nat /\ CodeOf(w)[n] \in Nat /\ Counts(L)[n] \in Nat
    <3>1. n \in 1 .. MaxBits /\ n \in 0 .. MaxBits
      BY <1>1, <2>2
    <3> HIDE DEF n
    <3>2. FirstOf(L)[n] \in Nat
      BY <3>1, FirstType
    <3>3. CodeOf(w)[n] \in Nat
      BY <3>1, CodeType
    <3>4. Counts(L)[n] \in Nat
      BY <3>1, CountsType
    <3> QED
      BY <3>2, <3>3, <3>4
  <2>6. r \in 0 .. Counts(L)[n] - 1
    BY <2>2, <2>4, <2>5
  <2> DEFINE s == Symbols(L)[IndexOf(L)[n] + r]
  <2>7. s \in DOMAIN L /\ L[s] = n /\ Cardinality(Before(L, s)) = r
    BY <2>2, <2>6, SymbolAt
  <2>8. d = [sym |-> s, used |-> n]
    <3>1. d = [sym |-> h.symbols[h.index[n] + (CodeOf(w)[n] - h.first[n])], used |-> n]
      BY <1>3, DecodeIs, Zenon
    <3>2. h.symbols = Symbols(L) /\ h.index = IndexOf(L) /\ h.first = FirstOf(L)
      BY HuffIs
    <3> QED
      BY <3>1, <3>2, Zenon
  <2>9. CodeOf(w)[n] = FirstOf(L)[n] + r
    BY <2>5
  <2>10. s # NoSymbol
    BY <2>7 DEF Alphabet, NoSymbol
  <2> HIDE DEF d, s, n, r
  <2>11. d.sym = s /\ d.used = n
    BY <2>8
  <2> QED
    BY <2>2, <2>7, <2>9, <2>10, <2>11 DEF Found, d
<1> QED
  BY <1>2, <1>3

LEMMA WindowType ==
  ASSUME src \in Seq({0, 1}), NEW p \in Nat
  PROVE  Window(p) \in Bitstring
<1>1. ASSUME NEW n \in 1 .. MaxBits
      PROVE  Bit(p + n - 1) \in {0, 1}
  <2>1. p + n - 1 \in Nat
    BY InflateAssumption
  <2> QED
    BY <2>1, BitType
<1> QED
  BY <1>1 DEF Window, Bitstring

(* Every table in use was built from the code lengths of an alphabet.      *)
CodeTable(h, D) == \E L : Alphabet(L) /\ DOMAIN L \subseteq D /\ h = Huff(L)

TablesInv ==
  CodeTable(clen, 0 .. MaxBits + 3) /\ CodeTable(lit, Nat) /\ CodeTable(dist, Nat)

LEMMA NoTableType ==
  ASSUME NEW D
  PROVE  CodeTable(NoTable, D)
<1>1. DOMAIN << >> = {}
  OBVIOUS
<1>2. Alphabet(<< >>)
  BY <1>1, FS_EmptySet DEF Alphabet
<1> QED
  BY <1>1, <1>2 DEF CodeTable, NoTable

LEMMA IntervalType ==
  ASSUME NEW n \in Int
  PROVE  IsFiniteSet(0 .. n) /\ 0 .. n \subseteq Nat
  BY FS_Interval

LEMMA DynamicTable ==
  ASSUME InfTypeOK, Dynamic, clen' # clen
  PROVE  CodeTable(clen', 0 .. MaxBits + 3)
<1> DEFINE p1 == at + LitCount.extra
           p2 == p1 + DistCount.extra
           p3 == p2 + ClenCount.extra
           hclen == ClenCount.base + Bits(p2, ClenCount.extra)
           given == [i \in 1 .. hclen |-> Bits(p3 + (i - 1) * ClenBits, ClenBits)]
           place(s) == CHOOSE i \in DOMAIN ClenOrder : ClenOrder[i] = s
           L == [s \in 0 .. MaxBits + 3 |->
                   LET i == CHOOSE i \in DOMAIN ClenOrder : ClenOrder[i] = s
                   IN  IF i <= hclen THEN given[i] ELSE 0]
<1>1. clen' = Huff(L)
  BY DEF Dynamic
<1>2. /\ at \in Nat /\ src \in Seq({0, 1}) /\ MaxBits \in Nat
      /\ LitCount.extra \in Nat /\ DistCount.extra \in Nat
      /\ ClenCount.extra \in Nat /\ ClenCount.base \in Nat
      /\ ClenBits \in Nat
  <2>1. src \in Seq({0, 1}) /\ at \in 0 .. Len(src)
    BY DEF InfTypeOK
  <2>2. at \in Nat
    BY <2>1, LenProperties
  <2>3. ClenCount \in Coded
    BY AlphabetAssumption
  <2> QED
    BY <2>1, <2>2, <2>3, AlphabetAssumption, InflateAssumption DEF Coded
<1>3. p2 \in Nat /\ p3 \in Nat
  <2>1. p1 \in Nat
    BY <1>2
  <2> HIDE DEF p1
  <2>2. p2 \in Nat
    BY <1>2, <2>1
  <2> HIDE DEF p2
  <2>3. p3 \in Nat
    BY <1>2, <2>2
  <2> QED
    BY <2>2, <2>3
<1>4. hclen \in Nat
  <2>1. Bits(p2, ClenCount.extra) \in 0 .. 2 ^ ClenCount.extra - 1
    BY <1>2, <1>3, BitsType
  <2>2. 2 ^ ClenCount.extra \in Nat
    BY <1>2, PowerStep
  <2> QED
    BY <1>2, <2>1, <2>2
<1> HIDE DEF p1, p2, p3, hclen
<1>5. ASSUME NEW i \in 1 .. hclen
      PROVE  given[i] \in 0 .. MaxBits
  <2>1. i - 1 \in Nat
    BY <1>4
  <2>2. \A x \in Nat : x * ClenBits \in Nat
    BY <1>2
  <2>3. p3 + (i - 1) * ClenBits \in Nat
    BY <1>3, <2>1, <2>2
  <2>4. Bits(p3 + (i - 1) * ClenBits, ClenBits) \in 0 .. 2 ^ ClenBits - 1
    BY <1>2, <2>3, BitsType
  <2>5. 2 ^ ClenBits \in Nat /\ 2 ^ ClenBits <= MaxBits + 1
    BY <1>2, PowerStep, AlphabetAssumption
  <2> HIDE DEF given
  <2>6. given[i] = Bits(p3 + (i - 1) * ClenBits, ClenBits)
    BY DEF given
  <2> QED
    BY <1>2, <2>4, <2>5, <2>6
<1> HIDE DEF given
<1>6. ASSUME NEW s \in 0 .. MaxBits + 3
      PROVE  L[s] \in 0 .. MaxBits
  <2>1. place(s) \in DOMAIN ClenOrder
    BY AlphabetAssumption
  <2>2. DOMAIN ClenOrder \subseteq Nat \ {0}
    <3>1. ClenOrder \in Seq(0 .. MaxBits + 3)
      BY AlphabetAssumption
    <3>2. DOMAIN ClenOrder = 1 .. Len(ClenOrder) /\ Len(ClenOrder) \in Nat
      BY <3>1, LenProperties
    <3> QED
      BY <3>2
  <2>3. L[s] = IF place(s) <= hclen THEN given[place(s)] ELSE 0
    OBVIOUS
  <2> HIDE DEF place, L
  <2>4. place(s) <= hclen => place(s) \in 1 .. hclen
    BY <1>4, <2>1, <2>2
  <2> QED
    BY <1>2, <1>5, <2>3, <2>4
<1>7. DOMAIN L = 0 .. MaxBits + 3
  OBVIOUS
<1>8. L \in [DOMAIN L -> 0 .. MaxBits]
  BY <1>6, <1>7
<1> HIDE DEF L
<1>9. IsFiniteSet(DOMAIN L) /\ DOMAIN L \subseteq Nat
  BY <1>2, <1>7, IntervalType
<1> QED
  BY <1>1, <1>7, <1>8, <1>9 DEF CodeTable, Alphabet

LEMMA LengthsTable ==
  ASSUME InfTypeOK, Tables, lit' # lit \/ dist' # dist
  PROVE  CodeTable(lit', Nat) /\ CodeTable(dist', Nat)
<1> DEFINE L == [s \in 0 .. need[1] - 1 |-> lengths[s + 1]]
           D == [s \in 0 .. need[2] - 1 |-> lengths[need[1] + s + 1]]
<1>1. lit' = Huff(L) /\ dist' = Huff(D) /\ Len(lengths) >= need[1] + need[2]
  BY DEF Tables
<1>2. /\ need[1] \in Nat /\ need[2] \in Nat
      /\ lengths \in Seq(0 .. MaxBits) /\ Len(lengths) \in Nat
  <2>1. need \in (0 .. LitCount.max) \X (0 .. DistCount.max) /\ lengths \in Seq(0 .. MaxBits)
    BY DEF InfTypeOK
  <2>2. LitCount.max \in Nat /\ DistCount.max \in Nat
    BY AlphabetAssumption
  <2> QED
    BY <2>1, <2>2, LenProperties
<1>3. Alphabet(L) /\ DOMAIN L \subseteq Nat
  <2>1. DOMAIN L = 0 .. need[1] - 1
    OBVIOUS
  <2>2. ASSUME NEW s \in 0 .. need[1] - 1
        PROVE  lengths[s + 1] \in 0 .. MaxBits
    <3>1. s + 1 \in 1 .. Len(lengths)
      BY <1>1, <1>2
    <3> QED
      BY <1>2, <3>1, ElementOfSeq
  <2>3. L \in [DOMAIN L -> 0 .. MaxBits]
    BY <2>2
  <2> HIDE DEF L
  <2>4. IsFiniteSet(DOMAIN L) /\ DOMAIN L \subseteq Nat
    BY <1>2, <2>1, IntervalType
  <2> QED
    BY <2>3, <2>4 DEF Alphabet
<1>4. Alphabet(D) /\ DOMAIN D \subseteq Nat
  <2>1. DOMAIN D = 0 .. need[2] - 1
    OBVIOUS
  <2>2. ASSUME NEW s \in 0 .. need[2] - 1
        PROVE  lengths[need[1] + s + 1] \in 0 .. MaxBits
    <3>1. need[1] + s + 1 \in 1 .. Len(lengths)
      BY <1>1, <1>2
    <3> QED
      BY <1>2, <3>1, ElementOfSeq
  <2>3. D \in [DOMAIN D -> 0 .. MaxBits]
    BY <2>2
  <2> HIDE DEF D
  <2>4. IsFiniteSet(DOMAIN D) /\ DOMAIN D \subseteq Nat
    BY <1>2, <2>1, IntervalType
  <2> QED
    BY <2>3, <2>4 DEF Alphabet
<1> HIDE DEF L, D
<1> QED
  BY <1>1, <1>3, <1>4 DEF CodeTable

LEMMA TablesStep ==
  ASSUME InfTypeOK, TablesInv, Step
  PROVE  TablesInv'
<1>1. CodeTable(clen', 0 .. MaxBits + 3)
  <2>1. clen' = clen \/ Dynamic
    BY ZenonT(40) DEF Step, Block, Stored, Dynamic, Lengths, Tables, Symbol, Copy, tables
  <2> QED
    BY SMTT(30), <2>1, DynamicTable DEF TablesInv
<1>2. CodeTable(lit', Nat) /\ CodeTable(dist', Nat)
  <2>1. CASE lit' = lit /\ dist' = dist
    BY <2>1 DEF TablesInv
  <2>2. CASE Tables /\ (lit' # lit \/ dist' # dist)
    BY <2>2, LengthsTable
  <2>3. CASE lit' = Huff(FixedLit) /\ dist' = Huff(FixedDist)
    <3>1. Alphabet(FixedLit) /\ Alphabet(FixedDist)
      BY SMTT(30), AlphabetAssumption
    <3> QED
      BY <2>3, <3>1 DEF CodeTable, Alphabet
  <2>4. \/ lit' = lit /\ dist' = dist
        \/ Tables
        \/ lit' = Huff(FixedLit) /\ dist' = Huff(FixedDist)
    BY ZenonT(40) DEF Step, Block, Stored, Dynamic, Lengths, Symbol, Copy, tables, FixedTables
  <2> QED
    BY <2>1, <2>2, <2>3, <2>4
<1> QED
  BY <1>1, <1>2 DEF TablesInv, CodeTable

LEMMA TablesStart ==
  ASSUME NEW f, NEW c, Inflate(f, c)
  PROVE  TablesInv'
<1>1. clen' = NoTable /\ lit' = NoTable /\ dist' = NoTable
  BY DEF Inflate
<1> QED
  BY <1>1, NoTableType DEF TablesInv, CodeTable

(* Every turn counts. *)
LEMMA TableDecodes ==
  ASSUME NEW D, NEW h, CodeTable(h, D), NEW w \in Bitstring
  PROVE  LET d == Decode(h, w)
         IN  d.used \in 1 .. MaxBits /\ (d.sym = NoSymbol \/ d.sym \in D)
<1>1. PICK L : Alphabet(L) /\ DOMAIN L \subseteq D /\ h = Huff(L)
  BY DEF CodeTable
<1>2. Found(L, w, Decode(h, w))
  BY <1>1, DecodeFinds
<1> HIDE DEF Decode
<1> QED
  BY <1>1, <1>2 DEF Found

LEMMA FuelType ==
  ASSUME InfTypeOK
  PROVE  /\ Len(src) \in Nat /\ at \in Nat /\ at <= Len(src) /\ src \in Seq({0, 1})
         /\ cap \in Nat /\ Len(dst) \in Nat /\ Len(dst) <= cap
<1>1. /\ src \in Seq({0, 1}) /\ at \in 0 .. Len(src) /\ cap \in Nat
      /\ dst \in Seq(Byte) /\ Len(dst) <= cap
  BY DEF InfTypeOK
<1> QED
  BY <1>1, LenProperties

LEMMA Turns ==
  ASSUME NEW x \in Nat, NEW y \in Nat, x < y, NEW e \in Nat
  PROVE  x * e + e <= y * e /\ x * e \in Nat /\ y * e \in Nat
<1> DEFINE z == y - (x + 1)
<1>1. z \in Nat /\ y = x + 1 + z
  OBVIOUS
<1>2. y * e = x * e + e + z * e
  <2> HIDE DEF z
  <2> QED
    BY <1>1
<1>3. z * e \in Nat /\ x * e \in Nat /\ y * e \in Nat
  BY <1>1
<1> HIDE DEF z
<1> QED
  BY <1>2, <1>3

LEMMA FuelEnds ==
  ASSUME InfTypeOK, phase # "idle", phase' = "idle"
  PROVE  Fuel' < Fuel
<1> DEFINE turns == (Len(src) - at) * (cap + 2)
           more  == IF phase = "lengths" THEN 1 ELSE 0
<1>1. Len(src) - at \in Nat /\ cap + 2 \in Nat /\ cap - Len(dst) \in Nat
  BY FuelType
<1>2. turns \in Nat
  BY <1>1
<1>3. Fuel = 1 + turns + (cap - Len(dst)) + more
  BY DEF Fuel
<1>4. Fuel' = 0
  BY DEF Fuel
<1>5. more \in Nat
  OBVIOUS
<1> HIDE DEF turns, more
<1> QED
  BY <1>1, <1>2, <1>3, <1>4, <1>5

LEMMA FuelReads ==
  ASSUME InfTypeOK, InfTypeOK', phase # "idle", src' = src, cap' = cap, at < at'
  PROVE  Fuel' < Fuel
<1>1. CASE phase' = "idle"
  BY <1>1, FuelEnds
<1>2. CASE phase' # "idle"
  <2> DEFINE N == Len(src)
             e == cap + 2
             old == (N - at) * e
             new == (N - at') * e
             more == IF phase = "lengths" THEN 1 ELSE 0
             extra == IF phase' = "lengths" THEN 1 ELSE 0
  <2>1. /\ N \in Nat /\ at \in Nat /\ cap \in Nat /\ Len(dst) \in Nat /\ Len(dst) <= cap
        /\ at <= N
    BY FuelType
  <2>2. at' \in Nat /\ at' <= N /\ Len(dst') \in Nat /\ Len(dst') <= cap
    <3>1. /\ src' \in Seq({0, 1}) /\ at' \in 0 .. Len(src') /\ cap' \in Nat
          /\ dst' \in Seq(Byte) /\ Len(dst') <= cap'
      BY DEF InfTypeOK
    <3> QED
      BY <3>1, LenProperties
  <2>3. new + e <= old /\ new \in Nat /\ old \in Nat
    <3>1. N - at' \in Nat /\ N - at \in Nat /\ N - at' < N - at /\ e \in Nat
      BY <2>1, <2>2
    <3> HIDE DEF N, e
    <3> QED
      BY <3>1, Turns
  <2>4. Fuel = 1 + old + (cap - Len(dst)) + more
    BY DEF Fuel
  <2>5. Fuel' = 1 + new + (cap - Len(dst')) + extra
    BY <1>2 DEF Fuel
  <2>6. more \in {0, 1} /\ extra \in {0, 1}
    OBVIOUS
  <2> HIDE DEF N, old, new, more, extra
  <2> QED
    BY <2>1, <2>2, <2>3, <2>4, <2>5, <2>6
<1> QED
  BY <1>1, <1>2

LEMMA ReaderMoves ==
  ASSUME InfTypeOK, NEW p \in Nat, at < p, ~Past(p), NEW q \in Nat, p <= q, Advance(q)
  PROVE  at < at'
<1>1. p <= Len(src) /\ Len(src) \in Nat
  BY FuelType DEF Past
<1>2. at' = IF q \in 0 .. Len(src) THEN q ELSE Len(src)
  BY DEF Advance
<1> QED
  BY <1>1, <1>2, FuelType

(* A byte boundary is not behind the reader. *)
LEMMA RoundsUp ==
  ASSUME NEW x \in Nat, NEW b \in Nat \ {0}
  PROVE  b * ((x + b - 1) \div b) \in Nat /\ x <= b * ((x + b - 1) \div b)
<1> DEFINE y == x + b - 1
           q == y \div b
           r == y % b
<1>1. y \in Nat
  OBVIOUS
<1>2. q \in Nat /\ r \in 0 .. b - 1 /\ y = b * q + r
  <2> HIDE DEF y
  <2> QED
    BY <1>1
<1> HIDE DEF q, r
<1>3. b * q \in Nat
  BY <1>2
<1>4. x <= b * q
  BY <1>2, <1>3
<1> QED
  BY <1>3, <1>4 DEF q

LEMMA FuelBlock ==
  ASSUME InfTypeOK, InfTypeOK', Block
  PROVE  Fuel' < Fuel
<1>1. phase # "idle" /\ src' = src /\ cap' = cap /\ Advance(at + 3)
  BY DEF Block
<1>2. CASE Past(at + 3)
  <2>1. phase' = "idle"
    BY <1>2 DEF Block, Return
  <2> QED
    BY <1>1, <2>1, FuelEnds
<1>3. CASE ~Past(at + 3)
  <2>1. at + 3 \in Nat /\ at < at + 3
    BY FuelType
  <2>2. at < at'
    BY <1>1, <1>3, <2>1, ReaderMoves
  <2> QED
    BY <1>1, <2>2, FuelReads
<1> QED
  BY <1>2, <1>3

LEMMA FuelStored ==
  ASSUME InfTypeOK, InfTypeOK', Stored
  PROVE  Fuel' < Fuel
<1>1. phase # "idle" /\ src' = src /\ cap' = cap
  BY DEF Stored
<1>2. CASE phase' = "idle"
  BY <1>1, <1>2, FuelEnds
<1>3. CASE phase' # "idle"
  <2> DEFINE word == 2 * ByteBits
             p    == ByteBits * ((at + ByteBits - 1) \div ByteBits)
             len  == Bits(p, word)
             body == p + 2 * word
  <2>1. /\ Advance(body + len * ByteBits)
        /\ body + len * ByteBits <= Len(src)
        /\ len \in 0 .. cap - Len(dst)
    BY <1>3 DEF Stored, Return
  <2>2. /\ at \in Nat /\ ByteBits \in Nat \ {0} /\ Len(src) \in Nat
        /\ cap - Len(dst) \in Nat
    BY FuelType, InflateAssumption
  <2>3. p \in Nat /\ at <= p
    BY <2>2, RoundsUp
  <2> HIDE DEF p, len
  <2>4. len \in Nat
    BY <2>1, <2>2
  <2>5. len * ByteBits \in Nat
    BY <2>2, <2>4
  <2>6. /\ body + len * ByteBits \in Nat /\ at < body + len * ByteBits
        /\ body + len * ByteBits <= Len(src)
    BY <2>1, <2>2, <2>3, <2>5
  <2> DEFINE end == body + len * ByteBits
  <2>7. Advance(end) /\ end \in 0 .. Len(src) /\ at < end
    BY <2>1, <2>2, <2>6
  <2> HIDE DEF end
  <2>8. at < at'
    BY <2>7 DEF Advance
  <2> QED
    BY <1>1, <2>8, FuelReads
<1> QED
  BY <1>2, <1>3

LEMMA FuelDynamic ==
  ASSUME InfTypeOK, InfTypeOK', Dynamic
  PROVE  Fuel' < Fuel
<1>1. phase # "idle" /\ src' = src /\ cap' = cap
  BY DEF Dynamic
<1>2. CASE phase' = "idle"
  BY <1>1, <1>2, FuelEnds
<1>3. CASE phase' # "idle"
  <2> DEFINE p1 == at + LitCount.extra
             p2 == p1 + DistCount.extra
             p3 == p2 + ClenCount.extra
             hclen == ClenCount.base + Bits(p2, ClenCount.extra)
             end == p3 + hclen * ClenBits
  <2>1. Advance(end) /\ ~Past(end)
    BY <1>3 DEF Dynamic, Return
  <2>2. /\ at \in Nat /\ src \in Seq({0, 1}) /\ ClenBits \in Nat
        /\ LitCount.extra \in Nat \ {0} /\ DistCount.extra \in Nat
        /\ ClenCount.extra \in Nat /\ ClenCount.base \in Nat
    BY FuelType, AlphabetAssumption DEF Coded
  <2>3. p1 \in Nat /\ at < p1
    BY <2>2
  <2> HIDE DEF p1
  <2>4. p2 \in Nat /\ at < p2
    BY <2>2, <2>3
  <2> HIDE DEF p2
  <2>5. p3 \in Nat /\ at < p3
    BY <2>2, <2>4
  <2>6. hclen \in Nat
    <3>1. Bits(p2, ClenCount.extra) \in 0 .. 2 ^ ClenCount.extra - 1
      BY <2>2, <2>4, BitsType
    <3>2. 2 ^ ClenCount.extra \in Nat
      BY <2>2, PowerStep
    <3> QED
      BY <2>2, <3>1, <3>2
  <2> HIDE DEF p3, hclen
  <2>7. hclen * ClenBits \in Nat
    BY <2>2, <2>6
  <2>8. end \in Nat /\ at < end
    BY SMTT(30), <2>2, <2>5, <2>7
  <2> HIDE DEF end
  <2>9. at < at'
    BY <2>1, <2>8, ReaderMoves
  <2> QED
    BY <1>1, <2>9, FuelReads
<1> QED
  BY <1>2, <1>3

LEMMA FuelLengths ==
  ASSUME InfTypeOK, InfTypeOK', TablesInv, Lengths
  PROVE  Fuel' < Fuel
<1>1. phase # "idle" /\ src' = src /\ cap' = cap
  BY ZenonT(40) DEF Lengths
<1>2. CASE phase' = "idle"
  BY <1>1, <1>2, FuelEnds
<1>3. CASE phase' # "idle"
  <2> DEFINE d   == Decode(clen, Window(at))
             p   == at + d.used
             run == RunCode[d.sym - MaxBits]
  <2>1. /\ at \in Nat /\ src \in Seq({0, 1}) /\ MaxBits \in Nat \ {0}
        /\ CodeTable(clen, 0 .. MaxBits + 3)
    BY FuelType, InflateAssumption DEF TablesInv
  <2>2. d.used \in 1 .. MaxBits /\ (d.sym = NoSymbol \/ d.sym \in 0 .. MaxBits + 3)
    <3>1. Window(at) \in Bitstring
      BY SMTT(30), <2>1, WindowType
    <3> QED
      BY <2>1, <3>1, TableDecodes
  <2>3. /\ ~Past(p)
        /\ Advance(p) \/ (d.sym > MaxBits /\ Advance(p + run.extra))
    BY ZenonT(40), <1>3 DEF Lengths, Return
  <2> HIDE DEF d
  <2>4. p \in Nat /\ at < p
    BY <2>1, <2>2
  <2>5. d.sym > MaxBits => run.extra \in Nat
    <3>1. d.sym > MaxBits => d.sym - MaxBits \in 1 .. 3
      BY <2>1, <2>2 DEF NoSymbol
    <3>2. \A i \in 1 .. 3 : RunCode[i].extra \in Nat
      BY AlphabetAssumption DEF Coded
    <3> QED
      BY <3>1, <3>2
  <2> HIDE DEF p, run
  <2>6. \E q \in Nat : p <= q /\ Advance(q)
    <3>1. CASE Advance(p)
      BY <2>4, <3>1
    <3>2. CASE d.sym > MaxBits /\ Advance(p + run.extra)
      <4>1. p + run.extra \in Nat /\ p <= p + run.extra
        BY <2>4, <2>5, <3>2
      <4> QED
        BY <3>2, <4>1
    <3> QED
      BY <2>3, <3>1, <3>2
  <2>7. at < at'
    BY <2>3, <2>4, <2>6, ReaderMoves
  <2> QED
    BY <1>1, <2>7, FuelReads
<1> QED
  BY <1>2, <1>3

LEMMA FuelTables ==
  ASSUME InfTypeOK, Tables
  PROVE  Fuel' < Fuel
<1>1. /\ phase = "lengths"
      /\ src' = src /\ at' = at /\ cap' = cap /\ dst' = dst
      /\ phase' \in {"idle", "symbols"}
  BY DEF Tables, Return, Goto
<1>2. CASE phase' = "idle"
  BY <1>1, <1>2, FuelEnds
<1>3. CASE phase' = "symbols"
  <2> DEFINE turns == (Len(src) - at) * (cap + 2)
             room  == cap - Len(dst)
  <2>1. Fuel = 1 + turns + room + 1 /\ Fuel' = 1 + turns + room + 0
    BY <1>1, <1>3 DEF Fuel
  <2>2. room \in Nat /\ Len(src) - at \in Nat /\ cap + 2 \in Nat
    BY FuelType
  <2>3. turns \in Nat
    BY <2>2
  <2> HIDE DEF turns, room
  <2> QED
    BY <2>1, <2>2, <2>3
<1> QED
  BY <1>1, <1>2, <1>3

LEMMA FuelCopy ==
  ASSUME InfTypeOK, Copy
  PROVE  Fuel' < Fuel
<1>1. /\ phase = "copy" /\ src' = src /\ at' = at /\ cap' = cap
      /\ phase' \in {"idle", "copy", "symbols"}
  BY DEF Copy, Return, Goto
<1>2. CASE phase' = "idle"
  BY <1>1, <1>2, FuelEnds
<1>3. CASE phase' # "idle"
  <2> DEFINE turns == (Len(src) - at) * (cap + 2)
  <2>1. dst' = Append(dst, dst[CopyFrom])
    BY <1>3 DEF Copy, Return
  <2>2. /\ Len(dst) \in Nat /\ cap \in Nat
        /\ Len(src) - at \in Nat /\ cap + 2 \in Nat
    BY FuelType
  <2>3. Len(dst') = Len(dst) + 1
    <3>1. dst \in Seq(Byte)
      BY DEF InfTypeOK
    <3>2. PICK T : dst \in Seq(T) /\ dst[CopyFrom] \in T
      <4> DEFINE T == Byte \cup {dst[CopyFrom]}
      <4>1. dst \in Seq(T) /\ dst[CopyFrom] \in T
        BY <3>1
      <4> QED
        BY <4>1
    <3> QED
      BY <2>1, <3>2, AppendProperties
  <2>4. Fuel = 1 + turns + (cap - Len(dst)) + 0 /\ Fuel' = 1 + turns + (cap - Len(dst')) + 0
    BY <1>1, <1>3 DEF Fuel
  <2>5. turns \in Nat
    BY <2>2
  <2> HIDE DEF turns
  <2> QED
    BY <2>2, <2>3, <2>4, <2>5
<1> QED
  BY <1>2, <1>3

LEMMA FuelReference ==
  ASSUME InfTypeOK, TablesInv, NEW sym \in Nat, sym > EndOfBlock,
         NEW p \in Nat, at < p, Reference(sym, p), phase' # "idle"
  PROVE  at < at'
<1> DEFINE l    == LenCode[sym - EndOfBlock]
           d    == Decode(dist, Window(p + l.extra))
           q    == p + l.extra + d.used
           far  == DistCode[d.sym + 1]
<1>1. /\ sym - EndOfBlock <= Len(LenCode) /\ ~Past(q)
      /\ d.sym \in 0 .. Len(DistCode) - 1 /\ Advance(q + far.extra)
  BY DEF Reference, Return
<1>2. /\ src \in Seq({0, 1}) /\ CodeTable(dist, Nat) /\ at \in Nat
      /\ MaxBits \in Nat \ {0}
  BY FuelType, InflateAssumption DEF TablesInv
<1>3. EndOfBlock \in Nat
  BY PowerStep, InflateAssumption DEF EndOfBlock
<1>4. l.extra \in Nat
  <2>1. LenCode \in Seq(Coded) /\ Len(LenCode) \in Nat
    BY AlphabetAssumption, LenProperties
  <2>2. sym - EndOfBlock \in 1 .. Len(LenCode)
    BY <1>1, <1>3, <2>1
  <2>3. l \in Coded
    BY <2>1, <2>2, ElementOfSeq
  <2> QED
    BY <2>3 DEF Coded
<1>5. far.extra \in Nat
  <2>1. DistCode \in Seq(Coded) /\ Len(DistCode) \in Nat
    BY AlphabetAssumption, LenProperties
  <2>2. d.sym + 1 \in 1 .. Len(DistCode)
    BY <1>1, <2>1
  <2>3. far \in Coded
    BY <2>1, <2>2, ElementOfSeq
  <2> QED
    BY <2>3 DEF Coded
<1> HIDE DEF l, far
<1>6. d.used \in 1 .. MaxBits
  <2>1. p + l.extra \in Nat
    BY <1>4
  <2>2. Window(p + l.extra) \in Bitstring
    BY <1>2, <2>1, WindowType
  <2> QED
    BY <1>2, <2>2, TableDecodes
<1> HIDE DEF d
<1>7. q \in Nat /\ at < q
  BY SMTT(30), <1>2, <1>4, <1>6
<1> HIDE DEF q
<1>8. q + far.extra \in Nat /\ q <= q + far.extra
  BY <1>5, <1>7
<1> DEFINE end == q + far.extra
<1> HIDE DEF end
<1> QED
  BY <1>1, <1>7, <1>8, ReaderMoves DEF end

LEMMA FuelSymbol ==
  ASSUME InfTypeOK, InfTypeOK', TablesInv, Symbol
  PROVE  Fuel' < Fuel
<1>1. phase # "idle" /\ src' = src /\ cap' = cap
  BY DEF Symbol
<1>2. CASE phase' = "idle"
  BY <1>1, <1>2, FuelEnds
<1>3. CASE phase' # "idle"
  <2> DEFINE d == Decode(lit, Window(at))
             p == at + d.used
  <2>1. /\ at \in Nat /\ src \in Seq({0, 1}) /\ MaxBits \in Nat \ {0}
        /\ CodeTable(lit, Nat)
    BY FuelType, InflateAssumption DEF TablesInv
  <2>2. d.used \in 1 .. MaxBits /\ (d.sym = NoSymbol \/ d.sym \in Nat)
    <3>1. Window(at) \in Bitstring
      BY <2>1, WindowType
    <3> QED
      BY <2>1, <3>1, TableDecodes
  <2>3. /\ ~Past(p)
        /\ Advance(p) \/ (d.sym > EndOfBlock /\ Reference(d.sym, p))
    BY <1>3 DEF Symbol, Return
  <2> HIDE DEF d
  <2>4. p \in Nat /\ at < p
    BY <2>1, <2>2
  <2> HIDE DEF p
  <2>5. at < at'
    <3>1. CASE Advance(p)
      BY <2>3, <2>4, <3>1, ReaderMoves
    <3>2. CASE d.sym > EndOfBlock /\ Reference(d.sym, p)
      <4>1. EndOfBlock \in Nat
        BY PowerStep, InflateAssumption DEF EndOfBlock
      <4>2. d.sym \in Nat
        BY <2>2, <3>2, <4>1 DEF NoSymbol
      <4> QED
        BY <1>3, <2>4, <3>2, <4>2, FuelReference
    <3> QED
      BY <2>3, <3>1, <3>2
  <2> QED
    BY <1>1, <2>5, FuelReads
<1> QED
  BY <1>2, <1>3

LEMMA FuelStep ==
  ASSUME InfTypeOK, InfTypeOK', TablesInv, Step
  PROVE  Fuel' < Fuel
  BY FuelBlock, FuelStored, FuelDynamic, FuelLengths, FuelTables, FuelSymbol, FuelCopy
     DEF Step

LEMMA TurnCounts ==
  ASSUME InfTypeOK, InfTypeOK', TablesInv, Step \/ UNCHANGED infVars \/ phase = "idle"
  PROVE  [phase # "idle" => Fuel' < Fuel]_infVars
  BY FuelStep

(* The sums of the canonical code as areas: what each symbol owns of the   *)
(* windows, and what each bit of a window is worth.                        *)
Shares(L) == [t \in DOMAIN L |-> Share(L, t)]

ShareFolds(g, L, S) ==
  g = [s \in SUBSET S |->
         IF s = {} THEN 0
         ELSE LET x == CHOOSE x \in s : TRUE IN Share(L, x) + g[s \ {x}]]

ShareFold(L, S) == CHOOSE g : ShareFolds(g, L, S)

Worths(w) == [n \in 1 .. MaxBits |-> w[n] * 2 ^ (MaxBits - n)]

WorthFolds(g, w, S) ==
  g = [s \in SUBSET S |->
         IF s = {} THEN 0
         ELSE LET x == CHOOSE x \in s : TRUE IN w[x] * 2 ^ (MaxBits - x) + g[s \ {x}]]

WorthFold(w, S) == CHOOSE g : WorthFolds(g, w, S)

LEMMA SharesIs ==
  ASSUME NEW L, NEW S
  PROVE  Sum(LAMBDA t : Share(L, t), S) = ShareFold(L, S)[S]
  BY Zenon DEF Sum, FoldSet, MapThenFoldSet, ShareFold, ShareFolds

LEMMA WorthsIs ==
  ASSUME NEW w
  PROVE  WindowValue(w) = WorthFold(w, 1 .. MaxBits)[1 .. MaxBits]
  BY Zenon DEF WindowValue, Sum, FoldSet, MapThenFoldSet, WorthFold, WorthFolds

LEMMA ShareType ==
  ASSUME NEW L, Alphabet(L), NEW t \in DOMAIN L
  PROVE  Share(L, t) \in Nat \ {0} /\ Shares(L)[t] = Share(L, t)
<1>1. MaxBits - L[t] \in Nat
  BY InflateAssumption DEF Alphabet
<1> QED
  BY <1>1, PowerStep DEF Share, Shares

LEMMA WorthType ==
  ASSUME NEW w \in Bitstring, NEW n \in 1 .. MaxBits
  PROVE  w[n] * 2 ^ (MaxBits - n) \in Nat /\ Worths(w)[n] = w[n] * 2 ^ (MaxBits - n)
<1>1. MaxBits - n \in Nat
  BY InflateAssumption
<1>2. 2 ^ (MaxBits - n) \in Nat
  BY <1>1, PowerStep
<1>3. w[n] \in {0, 1}
  BY DEF Bitstring
<1> DEFINE x == 2 ^ (MaxBits - n)
<1>4. w[n] * x \in Nat
  <2> HIDE DEF x
  <2> QED
    BY <1>2, <1>3 DEF x
<1> QED
  BY <1>4 DEF Worths

LEMMA SumOfShares ==
  ASSUME NEW L, Alphabet(L), NEW S, S \subseteq DOMAIN L
  PROVE  Sum(LAMBDA t : Share(L, t), S) = Area(Shares(L), S)
<1> DEFINE f == Shares(L)
<1>1. IsFiniteSet(S)
  BY SetTypes
<1>2. \A x \in S : f[x] \in Nat /\ f[x] = Share(L, x)
  BY ShareType
<1>3. \A s \in SUBSET S : s # {} => Share(L, Pick(s)) = f[Pick(s)]
  <2>1. \A s \in SUBSET S : s # {} => Pick(s) \in S
    BY DEF Pick
  <2> QED
    BY <1>2, <2>1
<1>4. \A g : ShareFolds(g, L, S) <=>
             g = [s \in SUBSET S |-> IF s = {} THEN 0 ELSE Share(L, Pick(s)) + g[s \ {Pick(s)}]]
  BY Zenon DEF ShareFolds, Pick
<1>5. \A g : ShareFolds(g, L, S) <=> Folds(g, f, S)
  <2> TAKE g
  <2> DEFINE A == [s \in SUBSET S |-> IF s = {} THEN 0 ELSE Share(L, Pick(s)) + g[s \ {Pick(s)}]]
             B == [s \in SUBSET S |-> IF s = {} THEN 0 ELSE f[Pick(s)] + g[s \ {Pick(s)}]]
  <2> HIDE DEF f
  <2>1. A = B
    BY <1>3
  <2>2. Folds(g, f, S) <=> g = B
    BY Zenon DEF Folds
  <2>3. ShareFolds(g, L, S) <=> g = A
    BY <1>4, Zenon
  <2> HIDE DEF A, B
  <2> QED
    BY <2>1, <2>2, <2>3
<1>6. \E g : Folds(g, f, S)
  BY <1>1, <1>2, FoldExists
<1>7. ShareFolds(ShareFold(L, S), L, S)
  BY <1>5, <1>6, Zenon DEF ShareFold
<1>8. Folds(ShareFold(L, S), f, S)
  BY <1>5, <1>7
<1>9. ShareFold(L, S)[S] = Area(f, S)
  BY <1>1, <1>2, <1>8, FoldIsArea
<1> QED
  BY <1>9, SharesIs, Zenon

LEMMA SumOfWorths ==
  ASSUME NEW w \in Bitstring
  PROVE  WindowValue(w) = Area(Worths(w), 1 .. MaxBits)
<1> DEFINE f == Worths(w)
           S == 1 .. MaxBits
<1>1. IsFiniteSet(S)
  BY FS_Interval, InflateAssumption
<1>2. \A x \in S : f[x] \in Nat /\ f[x] = w[x] * 2 ^ (MaxBits - x)
  BY WorthType
<1>3. \A s \in SUBSET S : s # {} => w[Pick(s)] * 2 ^ (MaxBits - Pick(s)) = f[Pick(s)]
  <2>1. \A s \in SUBSET S : s # {} => Pick(s) \in S
    BY DEF Pick
  <2> QED
    BY <1>2, <2>1
<1>4. \A g : WorthFolds(g, w, S) <=>
             g = [s \in SUBSET S |-> IF s = {} THEN 0
                    ELSE w[Pick(s)] * 2 ^ (MaxBits - Pick(s)) + g[s \ {Pick(s)}]]
  BY Zenon DEF WorthFolds, Pick
<1>5. \A g : WorthFolds(g, w, S) <=> Folds(g, f, S)
  <2> TAKE g
  <2> DEFINE A == [s \in SUBSET S |-> IF s = {} THEN 0
                                       ELSE w[Pick(s)] * 2 ^ (MaxBits - Pick(s)) + g[s \ {Pick(s)}]]
             B == [s \in SUBSET S |-> IF s = {} THEN 0 ELSE f[Pick(s)] + g[s \ {Pick(s)}]]
  <2> HIDE DEF f, S
  <2>1. A = B
    BY <1>3
  <2>2. Folds(g, f, S) <=> g = B
    BY Zenon DEF Folds
  <2>3. WorthFolds(g, w, S) <=> g = A
    BY <1>4, Zenon
  <2> HIDE DEF A, B
  <2> QED
    BY <2>1, <2>2, <2>3
<1>6. \E g : Folds(g, f, S)
  BY <1>1, <1>2, FoldExists
<1>7. WorthFolds(WorthFold(w, S), w, S)
  BY <1>5, <1>6, Zenon DEF WorthFold
<1>8. Folds(WorthFold(w, S), f, S)
  BY <1>5, <1>7
<1>9. WorthFold(w, S)[S] = Area(f, S)
  BY <1>1, <1>2, <1>8, FoldIsArea
<1> QED
  BY <1>9, WorthsIs, Zenon

LEMMA Doubled ==
  ASSUME NEW x \in Nat, NEW y \in Nat, NEW p \in Nat
  PROVE  x * (2 * p) + y * p = (2 * x + y) * p /\ x * (2 * p) + y * (2 * p) = (2 * (x + y)) * p
  OBVIOUS

(* The symbols with shorter codes own as many windows as the code walk     *)
(* counts codes, each as long as the rest of the window.                   *)
LEMMA ShorterOwn ==
  ASSUME NEW L, Alphabet(L), NEW n \in 1 .. MaxBits
  PROVE  Area(Shares(L), Shorter(L, n)) = FirstOf(L)[n] * 2 ^ (MaxBits - n)
<1> DEFINE first == FirstOf(L)
           c == Counts(L)
           f == Shares(L)
<1>1. MaxBits \in Nat \ {0}
  BY InflateAssumption
<1>2. /\ first \in [1 .. MaxBits -> Nat] /\ first[1] = 0
      /\ \A u \in 1 .. MaxBits - 1 : first[u + 1] = 2 * (first[u] + c[u])
  BY FirstType
<1>3. c \in [1 .. MaxBits -> Nat]
  BY CountsType
<1>4. ASSUME NEW u \in 1 .. MaxBits - 1
      PROVE  Area(f, Shorter(L, u + 1)) = Area(f, Shorter(L, u)) + c[u] * 2 ^ (MaxBits - u)
  <2>1. Shorter(L, u + 1) = Shorter(L, u) \cup With(L, u)
    <3>1. \A x : x \in 1 .. (u + 1) - 1 <=> x \in 1 .. u - 1 \/ x = u
      BY <1>1
    <3> QED
      BY <3>1 DEF Shorter, With
  <2>2. Shorter(L, u) \cap With(L, u) = {}
    BY <1>1 DEF Shorter, With
  <2>3. /\ Shorter(L, u) \subseteq DOMAIN L /\ With(L, u) \subseteq DOMAIN L
        /\ IsFiniteSet(Shorter(L, u)) /\ IsFiniteSet(With(L, u))
    BY SetTypes DEF Shorter, With
  <2>4. \A x \in DOMAIN L : f[x] \in Nat /\ f[x] = Share(L, x)
    BY ShareType
  <2>5. \A x \in With(L, u) : f[x] = 2 ^ (MaxBits - u)
    BY <2>3, <2>4 DEF With, Share
  <2>6. 2 ^ (MaxBits - u) \in Nat
    BY <1>1, PowerStep
  <2>7. c[u] = Cardinality(With(L, u))
    BY <1>1 DEF Counts, With
  <2> HIDE DEF f, c
  <2>8. Area(f, With(L, u)) = c[u] * 2 ^ (MaxBits - u)
    BY <2>3, <2>5, <2>6, <2>7, AreaConstant
  <2>9. Area(f, Shorter(L, u) \cup With(L, u)) = Area(f, Shorter(L, u)) + Area(f, With(L, u))
    BY <2>2, <2>3, <2>4, AreaUnion
  <2> QED
    BY <2>1, <2>8, <2>9
<1> DEFINE T == { u \in Nat : u + 1 <= MaxBits =>
                    Area(f, Shorter(L, u + 1)) = first[u + 1] * 2 ^ (MaxBits - (u + 1)) }
<1> HIDE DEF f, first, c
<1>5. Nat \subseteq T
  <2>1. 0 \in T
    <3>1. Shorter(L, 1) = {}
      BY DEF Shorter
    <3>2. Area(f, Shorter(L, 1)) = 0
      BY <3>1, AreaEmpty, Zenon
    <3>3. 2 ^ (MaxBits - 1) \in Nat
      BY <1>1, PowerStep
    <3> QED
      BY <1>2, <3>2, <3>3
  <2>2. ASSUME NEW u \in Nat, u \in T
        PROVE  u + 1 \in T
    <3> SUFFICES ASSUME u + 1 + 1 <= MaxBits
                 PROVE  Area(f, Shorter(L, u + 1 + 1))
                          = first[u + 1 + 1] * 2 ^ (MaxBits - (u + 1 + 1))
      OBVIOUS
    <3> DEFINE j == u + 1
               p == 2 ^ (MaxBits - (j + 1))
    <3>1. j \in 1 .. MaxBits - 1 /\ j \in 1 .. MaxBits
      BY <1>1
    <3>2. Area(f, Shorter(L, j)) = first[j] * 2 ^ (MaxBits - j)
      <4>1. u + 1 <= MaxBits
        BY <3>1
      <4> QED
        BY <2>2, <4>1
    <3>3. p \in Nat /\ 2 ^ (MaxBits - j) = 2 * p
      <4>1. MaxBits - (j + 1) \in Nat /\ (MaxBits - (j + 1)) + 1 = MaxBits - j
        BY <1>1
      <4> QED
        BY <4>1, PowerStep
    <3> HIDE DEF p, j
    <3>4. Area(f, Shorter(L, j + 1)) = first[j] * (2 * p) + c[j] * (2 * p)
      BY <1>4, <3>1, <3>2, <3>3
    <3>5. first[j] \in Nat /\ c[j] \in Nat /\ first[j + 1] = 2 * (first[j] + c[j])
      BY <1>2, <1>3, <3>1
    <3>6. Area(f, Shorter(L, j + 1)) = first[j + 1] * p
      BY <3>3, <3>4, <3>5, Doubled
    <3> QED
      BY <3>6 DEF j, p
  <2> HIDE DEF T
  <2> QED
    BY <2>1, <2>2, SetInduction
<1>6. n - 1 \in T /\ (n - 1) + 1 = n /\ n <= MaxBits
  BY <1>1, <1>5
<1>7. Area(f, Shorter(L, n)) = first[n] * 2 ^ (MaxBits - n)
  BY <1>6
<1> QED
  BY <1>7 DEF f, first

LEMMA EarlierOwn ==
  ASSUME NEW L, Alphabet(L), NEW s \in CodedIn(L)
  PROVE  Area(Shares(L), Earlier(L, s))
           = (FirstOf(L)[L[s]] + Cardinality(Before(L, s))) * 2 ^ (MaxBits - L[s])
<1> DEFINE n == L[s]
           f == Shares(L)
           p == 2 ^ (MaxBits - n)
           r == Cardinality(Before(L, s))
<1>1. s \in DOMAIN L /\ s \in Nat /\ n \in 1 .. MaxBits /\ MaxBits \in Nat
  BY PlaceIs, InflateAssumption DEF Alphabet
<1>2. Earlier(L, s) = Shorter(L, n) \cup Before(L, s)
  <2>1. \A t \in DOMAIN L : L[t] \in Nat
    BY InflateAssumption DEF Alphabet
  <2>2. \A t \in DOMAIN L : L[t] # 0 /\ L[t] < n <=> L[t] \in 1 .. n - 1
    BY <1>1, <2>1
  <2> HIDE DEF n
  <2>3. \A t \in DOMAIN L : L[t] = n => L[t] # 0
    BY <1>1
  <2>4. L[s] = n
    BY DEF n
  <2> QED
    BY <2>2, <2>3, <2>4 DEF Earlier, Shorter, Before
<1>3. Shorter(L, n) \cap Before(L, s) = {}
  BY <1>1 DEF Shorter, Before
<1>4. /\ Shorter(L, n) \subseteq DOMAIN L /\ Before(L, s) \subseteq DOMAIN L
      /\ IsFiniteSet(Shorter(L, n)) /\ IsFiniteSet(Before(L, s)) /\ r \in Nat
  BY SetTypes DEF Shorter, Before
<1>5. \A x \in DOMAIN L : f[x] \in Nat /\ f[x] = Share(L, x)
  BY ShareType
<1>6. \A x \in Before(L, s) : f[x] = p
  BY <1>4, <1>5 DEF Before, Share
<1>7. p \in Nat
  BY <1>1, PowerStep
<1>8. Area(f, Shorter(L, n)) = FirstOf(L)[n] * p /\ FirstOf(L)[n] \in Nat
  BY <1>1, ShorterOwn, FirstType
<1> HIDE DEF f, p
<1>9. Area(f, Before(L, s)) = r * p
  BY <1>4, <1>6, <1>7, AreaConstant
<1> HIDE DEF n, r
<1>10. Area(f, Shorter(L, n) \cup Before(L, s)) = Area(f, Shorter(L, n)) + Area(f, Before(L, s))
  BY <1>3, <1>4, <1>5, AreaUnion
<1> DEFINE a == FirstOf(L)[n]
<1>11. a * p + r * p = (a + r) * p
  <2>1. a \in Nat
    BY <1>8
  <2> HIDE DEF a
  <2> QED
    BY <1>4, <1>7, <2>1
<1>12. Area(f, Earlier(L, s)) = (a + r) * p
  BY <1>2, <1>8, <1>9, <1>10, <1>11
<1> QED
  BY <1>12 DEF f, p, n, r

(* What the walk has read of a window, as a number of the window's bits.   *)
ReadOf(w, n) == CodeOf(w)[n] * 2 ^ (MaxBits - n)

LEMMA ReadStep ==
  ASSUME NEW w \in Bitstring, NEW n \in Nat, n + 1 <= MaxBits
  PROVE  /\ ReadOf(w, n) \in Nat /\ ReadOf(w, n + 1) \in Nat
         /\ ReadOf(w, n + 1) = ReadOf(w, n) + Worths(w)[n + 1]
         /\ ReadOf(w, n) <= ReadOf(w, n + 1)
         /\ ReadOf(w, n + 1) + 2 ^ (MaxBits - (n + 1)) <= ReadOf(w, n) + 2 ^ (MaxBits - n)
<1> DEFINE p == 2 ^ (MaxBits - (n + 1))
           x == CodeOf(w)[n]
           b == w[n + 1]
<1>1. n + 1 \in 1 .. MaxBits /\ (n + 1) - 1 = n /\ n \in 0 .. MaxBits /\ MaxBits \in Nat
  BY InflateAssumption
<1>2. x \in Nat /\ b \in {0, 1}
  BY <1>1, CodeType DEF Bitstring
<1>3. CodeOf(w)[n + 1] = 2 * x + b
  <2>1. CodeOf(w)[n + 1] = 2 * CodeOf(w)[(n + 1) - 1] + w[n + 1]
    BY <1>1, CodeType
  <2> QED
    BY <1>1, <2>1
<1>4. p \in Nat /\ 2 ^ (MaxBits - n) = 2 * p
  <2>1. MaxBits - (n + 1) \in Nat /\ (MaxBits - (n + 1)) + 1 = MaxBits - n
    BY <1>1
  <2> QED
    BY <2>1, PowerStep
<1>5. Worths(w)[n + 1] = b * p
  BY <1>1, WorthType
<1>6. ReadOf(w, n + 1) = (2 * x + b) * p
  BY <1>3 DEF ReadOf
<1>7. ReadOf(w, n) = x * (2 * p)
  BY <1>4 DEF ReadOf
<1> HIDE DEF p, x, b
<1>8. x * (2 * p) + b * p = (2 * x + b) * p
  BY <1>2, <1>4, Doubled
<1>9. x * (2 * p) \in Nat
  BY <1>2, <1>4
<1>10. b * p \in Nat /\ b * p <= p
  BY <1>2, <1>4
<1> DEFINE y == x * (2 * p)
           z == b * p
<1>11. y \in Nat /\ z \in Nat /\ z <= p /\ ReadOf(w, n) = y /\ ReadOf(w, n + 1) = y + z
       /\ Worths(w)[n + 1] = z
  BY <1>5, <1>6, <1>7, <1>8, <1>9, <1>10
<1> HIDE DEF y, z
<1> QED
  BY <1>4, <1>11 DEF p

LEMMA WindowRead ==
  ASSUME NEW w \in Bitstring
  PROVE  WindowValue(w) = ReadOf(w, MaxBits)
<1> DEFINE f == Worths(w)
           T == { n \in Nat : n <= MaxBits => Area(f, 1 .. n) = ReadOf(w, n) }
<1>1. MaxBits \in Nat \ {0}
  BY InflateAssumption
<1>2. \A n \in 1 .. MaxBits : f[n] \in Nat
  BY WorthType
<1> HIDE DEF f
<1>3. Nat \subseteq T
  <2>1. 0 \in T
    <3>1. 1 .. 0 = {}
      OBVIOUS
    <3>2. Area(f, 1 .. 0) = 0
      BY <3>1, AreaEmpty, Zenon
    <3>3. CodeOf(w)[0] = 0 /\ 2 ^ (MaxBits - 0) \in Nat
      BY <1>1, CodeType, PowerStep
    <3>4. ReadOf(w, 0) = 0
      BY <3>3 DEF ReadOf
    <3> QED
      BY <3>2, <3>4
  <2>2. ASSUME NEW n \in Nat, n \in T
        PROVE  n + 1 \in T
    <3> SUFFICES ASSUME n + 1 <= MaxBits
                 PROVE  Area(f, 1 .. n + 1) = ReadOf(w, n + 1)
      OBVIOUS
    <3>1. Area(f, 1 .. n) = ReadOf(w, n)
      BY <1>1, <2>2
    <3>2. 1 .. n + 1 = (1 .. n) \cup {n + 1} /\ n + 1 \notin 1 .. n
      OBVIOUS
    <3>3. IsFiniteSet(1 .. n) /\ \A i \in 1 .. n : f[i] \in Nat
      BY <1>1, <1>2, FS_Interval
    <3>4. IsFiniteSet(Cells(f, 1 .. n)) /\ f[n + 1] \in Nat
      BY <1>1, <1>2, <3>3, CellsFinite
    <3>5. Area(f, (1 .. n) \cup {n + 1}) = Area(f, 1 .. n) + f[n + 1]
      <4> DEFINE S == 1 .. n
                 x == n + 1
      <4>1. x \notin S /\ IsFiniteSet(Cells(f, S)) /\ f[x] \in Nat
        BY <3>2, <3>4
      <4> HIDE DEF S, x
      <4>2. Area(f, S \cup {x}) = Area(f, S) + f[x]
        BY <4>1, AreaAdd
      <4> QED
        BY <4>2 DEF S, x
    <3>6. ReadOf(w, n + 1) = ReadOf(w, n) + f[n + 1]
      BY ReadStep DEF f
    <3> QED
      BY <3>1, <3>2, <3>5, <3>6
  <2> HIDE DEF T
  <2> QED
    BY <2>1, <2>2, SetInduction
<1>4. Area(f, 1 .. MaxBits) = ReadOf(w, MaxBits)
  BY <1>1, <1>3
<1> QED
  BY <1>4, SumOfWorths DEF f

(* The bits after the first n add less than one of them is worth. *)
LEMMA WindowBetween ==
  ASSUME NEW w \in Bitstring, NEW n \in 0 .. MaxBits
  PROVE  /\ ReadOf(w, n) <= WindowValue(w)
         /\ WindowValue(w) < ReadOf(w, n) + 2 ^ (MaxBits - n)
         /\ WindowValue(w) \in Nat
<1>1. MaxBits \in Nat \ {0} /\ n \in Nat
  BY InflateAssumption
<1>2. ASSUME NEW u \in 0 .. MaxBits
      PROVE  ReadOf(w, u) \in Nat /\ 2 ^ (MaxBits - u) \in Nat \ {0}
  <2>1. CodeOf(w)[u] \in Nat
    BY CodeType
  <2>2. 2 ^ (MaxBits - u) \in Nat \ {0}
    BY <1>1, PowerStep
  <2> DEFINE x == CodeOf(w)[u]
             p == 2 ^ (MaxBits - u)
  <2>3. x * p \in Nat
    <3> HIDE DEF x, p
    <3> QED
      BY <2>1, <2>2 DEF x, p
  <2> QED
    BY <2>2, <2>3 DEF ReadOf
<1> DEFINE T == { u \in Nat : n + u <= MaxBits =>
                    /\ ReadOf(w, n) <= ReadOf(w, n + u)
                    /\ ReadOf(w, n + u) + 2 ^ (MaxBits - (n + u))
                         <= ReadOf(w, n) + 2 ^ (MaxBits - n) }
<1>3. Nat \subseteq T
  <2>1. 0 \in T
    <3>1. n + 0 = n
      BY <1>1
    <3>2. ReadOf(w, n) \in Nat /\ 2 ^ (MaxBits - n) \in Nat
      BY <1>2
    <3> QED
      BY <3>1, <3>2
  <2>2. ASSUME NEW u \in Nat, u \in T
        PROVE  u + 1 \in T
    <3> SUFFICES ASSUME n + (u + 1) <= MaxBits
                 PROVE  /\ ReadOf(w, n) <= ReadOf(w, n + (u + 1))
                        /\ ReadOf(w, n + (u + 1)) + 2 ^ (MaxBits - (n + (u + 1)))
                             <= ReadOf(w, n) + 2 ^ (MaxBits - n)
      OBVIOUS
    <3> DEFINE j == n + u
    <3>1. j \in Nat /\ j + 1 <= MaxBits /\ j <= MaxBits /\ n + (u + 1) = j + 1
          /\ j \in 0 .. MaxBits /\ j + 1 \in 0 .. MaxBits
      BY <1>1
    <3>2. /\ ReadOf(w, n) <= ReadOf(w, j)
          /\ ReadOf(w, j) + 2 ^ (MaxBits - j) <= ReadOf(w, n) + 2 ^ (MaxBits - n)
      BY <2>2, <3>1
    <3> HIDE DEF j
    <3>3. /\ ReadOf(w, j) <= ReadOf(w, j + 1)
          /\ ReadOf(w, j + 1) + 2 ^ (MaxBits - (j + 1)) <= ReadOf(w, j) + 2 ^ (MaxBits - j)
      BY <3>1, ReadStep
    <3> DEFINE a == ReadOf(w, n)
               b == ReadOf(w, j)
               c == ReadOf(w, j + 1)
               x == 2 ^ (MaxBits - n)
               y == 2 ^ (MaxBits - j)
               z == 2 ^ (MaxBits - (j + 1))
    <3>4. /\ a \in Nat /\ b \in Nat /\ c \in Nat /\ x \in Nat /\ y \in Nat /\ z \in Nat
          /\ a <= b /\ b + y <= a + x /\ b <= c /\ c + z <= b + y
      BY <1>2, <3>1, <3>2, <3>3
    <3>5. a <= c /\ c + z <= a + x
      <4> HIDE DEF a, b, c, x, y, z
      <4> QED
        BY <3>4
    <3> QED
      BY <3>1, <3>5
  <2> HIDE DEF T
  <2> QED
    BY <2>1, <2>2, SetInduction
<1> DEFINE e == MaxBits - n
<1>4. e \in T /\ n + e = MaxBits
  <2>1. e \in Nat /\ n + e = MaxBits
    BY <1>1
  <2> HIDE DEF T
  <2> QED
    BY <1>3, <2>1
<1>5. /\ ReadOf(w, n) <= ReadOf(w, MaxBits)
      /\ ReadOf(w, MaxBits) + 2 ^ (MaxBits - MaxBits) <= ReadOf(w, n) + 2 ^ (MaxBits - n)
  BY <1>1, <1>4
<1>6. MaxBits \in 0 .. MaxBits
  BY <1>1
<1> DEFINE a == ReadOf(w, n)
           b == ReadOf(w, MaxBits)
           x == 2 ^ (MaxBits - n)
           y == 2 ^ (MaxBits - MaxBits)
<1>7. a \in Nat /\ b \in Nat /\ x \in Nat /\ y \in Nat \ {0} /\ a <= b /\ b + y <= a + x
  BY <1>2, <1>5, <1>6
<1>8. b \in Nat /\ a <= b /\ b < a + x
  <2> HIDE DEF a, b, x, y
  <2> QED
    BY <1>7
<1> QED
  BY <1>8, WindowRead

(* A symbol owns the window whose first bits are its code: as far from the *)
(* first of its length as there are symbols before it.                     *)
LEMMA OwnsIs ==
  ASSUME NEW L, Alphabet(L), NEW w \in Bitstring, NEW s \in DOMAIN L
  PROVE  Owns(L, s, w) <=>
           /\ s \in CodedIn(L)
           /\ CodeOf(w)[L[s]] = FirstOf(L)[L[s]] + Cardinality(Before(L, s))
<1>1. CASE s \notin CodedIn(L)
  <2>1. L[s] = 0
    BY <1>1 DEF CodedIn
  <2> QED
    BY <1>1, <2>1, Zenon DEF Owns
<1>2. CASE s \in CodedIn(L)
  <2> DEFINE n == L[s]
             a == FirstOf(L)[n] + Cardinality(Before(L, s))
             b == CodeOf(w)[n]
             p == 2 ^ (MaxBits - n)
             v == WindowValue(w)
  <2>1. n \in 1 .. MaxBits /\ MaxBits \in Nat /\ n # 0
    BY <1>2, PlaceIs, InflateAssumption DEF CodedIn
  <2>2. a \in Nat /\ b \in Nat /\ p \in Nat \ {0}
    <3>1. FirstOf(L)[n] \in Nat
      BY <2>1, FirstType
    <3>2. Cardinality(Before(L, s)) \in Nat
      BY SetTypes DEF Before
    <3>3. b \in Nat
      BY <2>1, CodeType
    <3>4. p \in Nat \ {0}
      BY <2>1, PowerStep
    <3> QED
      BY <3>1, <3>2, <3>3, <3>4
  <2>3. Sum(LAMBDA t : Share(L, t), Earlier(L, s)) = a * p
    <3>1. Earlier(L, s) \subseteq DOMAIN L
      BY DEF Earlier
    <3>2. Area(Shares(L), Earlier(L, s)) = a * p
      BY <1>2, EarlierOwn
    <3> QED
      BY <3>1, <3>2, SumOfShares, Zenon
  <2>4. b * p <= v /\ v < b * p + p /\ v \in Nat
    <3>1. n \in 0 .. MaxBits
      BY <2>1
    <3> QED
      BY <3>1, WindowBetween DEF ReadOf
  <2>5. Owns(L, s, w) <=> v \in a * p .. a * p + p - 1
    <3>1. Owns(L, s, w) <=> L[s] # 0 /\ v \in a * p .. a * p + Share(L, s) - 1
      BY <2>3, Zenon DEF Owns
    <3> QED
      BY <2>1, <3>1 DEF Share
  <2> HIDE DEF a, b, p, v, n
  <2>6. v \in a * p .. a * p + p - 1 <=> b = a
    <3> DEFINE x == a * p
               y == b * p
    <3>1. x \in Nat /\ y \in Nat
      BY <2>2
    <3>2. CASE b = a
      <4>1. x = y
        BY <3>2
      <4> HIDE DEF x, y
      <4>2. v \in x .. x + p - 1
        BY <2>2, <2>4, <3>1, <4>1 DEF y
      <4> QED
        BY <3>2, <4>2 DEF x
    <3>3. CASE b < a
      <4>1. y + p <= x
        BY <2>2, <3>3, Turns
      <4> HIDE DEF x
      <4>2. v < x
        BY <2>2, <2>4, <3>1, <4>1
      <4>3. ~(v \in x .. x + p - 1)
        BY <2>2, <2>4, <3>1, <4>2
      <4> QED
        BY <2>2, <3>3, <4>3 DEF x
    <3>4. CASE a < b
      <4>1. x + p <= y
        BY <2>2, <3>4, Turns
      <4> HIDE DEF x
      <4>2. ~(v \in x .. x + p - 1)
        BY <2>2, <2>4, <3>1, <4>1
      <4> QED
        BY <2>2, <3>4, <4>2 DEF x
    <3> QED
      BY <2>2, <3>2, <3>3, <3>4
  <2> QED
    BY <1>2, <2>5, <2>6 DEF a, b, n
<1> QED
  BY <1>1, <1>2

LEMMA DecodedOwns ==
  ASSUME NEW L, Alphabet(L), NEW w \in Bitstring
  PROVE  Agrees(Huff(L), w)
<1> DEFINE h == Huff(L)
           d == Decode(h, w)
<1>1. Found(L, w, d)
  BY DecodeFinds
<1>2. h.of = L
  BY HuffIs
<1>3. MaxBits \in Nat
  BY InflateAssumption
<1>4. Agrees(h, w) <=> IF d.sym = NoSymbol THEN \A s \in DOMAIN L : ~Owns(L, s, w)
                       ELSE Owns(L, d.sym, w) /\ d.used = L[d.sym]
  BY <1>2, Zenon DEF Agrees
<1> HIDE DEF d
<1>5. CASE d.sym = NoSymbol
  <2>1. Ends(h, w) = {}
    BY <1>1, <1>5 DEF Found
  <2>2. ASSUME NEW s \in DOMAIN L, Owns(L, s, w)
        PROVE  FALSE
    <3> DEFINE n == L[s]
               r == Cardinality(Before(L, s))
    <3>1. s \in CodedIn(L) /\ CodeOf(w)[n] = FirstOf(L)[n] + r
      BY <2>2, OwnsIs
    <3>2. n \in 1 .. MaxBits /\ r \in 0 .. Counts(L)[n] - 1
      BY <3>1, PlaceIs
    <3>3. FirstOf(L)[n] \in Nat /\ Counts(L)[n] \in Nat
      BY <3>2, FirstType, CountsType
    <3>4. CodeOf(w)[n] - FirstOf(L)[n] < Counts(L)[n]
      <4> HIDE DEF n, r
      <4> QED
        BY <3>1, <3>2, <3>3
    <3>5. n \in Ends(h, w)
      BY <3>2, <3>4, HuffIs DEF Ends
    <3> QED
      BY <2>1, <3>5
  <2> QED
    BY <1>4, <1>5, <2>2
<1>6. CASE d.sym # NoSymbol
  <2>1. /\ d.used \in 1 .. MaxBits /\ d.sym \in DOMAIN L /\ L[d.sym] = d.used
        /\ CodeOf(w)[d.used] = FirstOf(L)[d.used] + Cardinality(Before(L, d.sym))
    BY <1>1, <1>6 DEF Found
  <2>2. d.sym \in CodedIn(L)
    BY <1>3, <2>1 DEF CodedIn
  <2>3. Owns(L, d.sym, w)
    BY <2>1, <2>2, OwnsIs
  <2> QED
    BY <1>4, <1>6, <2>1, <2>3
<1> QED
  BY <1>5, <1>6

LEMMA TablesDecode ==
  ASSUME InfTypeOK, TablesInv
  PROVE  DecodesCanonically
<1>1. Window(at) \in Bitstring
  BY FuelType, WindowType
<1>2. ASSUME NEW D, NEW h, CodeTable(h, D)
      PROVE  Agrees(h, Window(at))
  <2>1. PICK L : Alphabet(L) /\ h = Huff(L)
    BY <1>2 DEF CodeTable
  <2>2. Agrees(Huff(L), Window(at))
    BY <1>1, <2>1, DecodedOwns
  <2> QED
    BY <2>1, <2>2, Zenon
<1> QED
  BY <1>2 DEF DecodesCanonically, TablesInv

--------------------------------------------------------------------------------
(* inflate.c by itself, called any number of times: a back-reference reads *)
(* only what was written and repeats at its distance, overlap included.    *)
THEOREM InflateRepeats == InfSpec => []MatchRepeats
<1>1. InfInit => MatchInv
  BY MatchInit
<1>2. MatchInv /\ [InfNext]_infVars => MatchInv'
  BY MatchStep, MatchStart, MatchStutter DEF InfNext
<1>3. MatchInv => MatchRepeats
  BY DEF MatchInv
<1> QED
  BY <1>1, <1>2, <1>3, PTL DEF InfSpec

InfInv == MatchInv /\ InfTypeOK /\ TablesInv

LEMMA InfInvInit == InfInit => InfInv
<1>1. InfInit => TablesInv
  BY NoTableType DEF InfInit, TablesInv
<1> QED
  BY <1>1, MatchInit, TypeInit DEF InfInv

LEMMA InfInvStep ==
  ASSUME InfInv, Step \/ UNCHANGED infVars
  PROVE  InfInv'
<1>1. CASE UNCHANGED infVars
  <2>1. InfTypeOK' /\ TablesInv'
    BY <1>1 DEF InfInv, InfTypeOK, TablesInv, CodeTable, infVars, tables
  <2> QED
    BY <1>1, <2>1, MatchStutter DEF InfInv
<1>2. CASE Step
  <2>1. MatchRepeats
    BY DEF InfInv, MatchInv
  <2> QED
    BY <1>2, <2>1, MatchStep, TypeStep, TablesStep DEF InfInv
<1> QED
  BY <1>1, <1>2

LEMMA InfInvStart ==
  ASSUME NEW f, NEW c, f.bits \in Seq({0, 1}), c \in Nat, Inflate(f, c)
  PROVE  InfInv'
  BY MatchStart, TypeStart, TablesStart DEF InfInv

LEMMA InfInvNext ==
  ASSUME InfInv, [InfNext]_infVars
  PROVE  InfInv'
<1>1. CASE \E f \in Frames, c \in Caps : Inflate(f, c)
  BY <1>1, InfInvStart, InflateAssumption
<1> QED
  BY <1>1, InfInvStep DEF InfNext

(* The state of a call has its types for every input, the reader never     *)
(* beyond its stream and the code lengths never more than the header said. *)
THEOREM InflateTyped == InfSpec => []InfTypeOK
<1>1. InfInv => InfTypeOK
  BY DEF InfInv
<1> QED
  BY <1>1, InfInvInit, InfInvNext, PTL DEF InfSpec

(* Every loop of inflate.c ends on every input, sound or not: each turn    *)
(* consumes input, writes output, builds the tables or gives up, also at   *)
(* the end of the input, where the reader yields zeroes (huff_decode takes *)
(* at least a bit, block_stored and block_dynamic more).                   *)
THEOREM InflateTurns == InfSpec => EveryTurnCounts
<1>1. ASSUME InfInv, InfInv', [InfNext]_infVars
      PROVE  [phase # "idle" => Fuel' < Fuel]_infVars
  <2>1. Step \/ UNCHANGED infVars \/ phase = "idle"
    BY <1>1 DEF InfNext, Inflate
  <2> QED
    BY <1>1, <2>1, TurnCounts DEF InfInv
<1> QED
  BY <1>1, InfInvInit, InfInvNext, PTL DEF InfSpec, EveryTurnCounts

(* huff_build and huff_decode are the canonical code of the lengths they   *)
(* are given, complete, incomplete or over-subscribed: what is decoded at  *)
(* any point is the symbol that owns the bits there, and nothing is when   *)
(* none does.                                                              *)
THEOREM InflateDecodes == InfSpec => []DecodesCanonically
<1>1. InfInv => DecodesCanonically
  BY TablesDecode DEF InfInv
<1> QED
  BY <1>1, InfInvInit, InfInvNext, PTL DEF InfSpec

(* And it writes no more than the room it was given: emit, and the tests   *)
(* of block_stored.                                                        *)
THEOREM InflateBounded == InfSpec => [](Len(dst) <= cap)
<1>1. InfInit => MatchInv /\ RoomInv
  <2>1. InfInit => RoomInv
    BY DEF InfInit, RoomInv
  <2> QED
    BY <2>1, MatchInit
<1>2. ASSUME MatchInv, RoomInv, [InfNext]_infVars
      PROVE  (MatchInv /\ RoomInv)'
  <2>1. CASE UNCHANGED infVars
    BY <1>2, <2>1, MatchStutter DEF RoomInv, infVars
  <2>2. CASE Step
    BY <1>2, <2>2, MatchStep, RoomStep
  <2>3. CASE \E f \in Frames, c \in Caps : Inflate(f, c)
    BY <2>3, MatchStart, RoomStart, InflateAssumption
  <2> QED
    BY <1>2, <2>1, <2>2, <2>3 DEF InfNext
<1>3. RoomInv => Len(dst) <= cap
  BY DEF RoomInv
<1> QED
  BY <1>1, <1>2, <1>3, PTL DEF InfSpec

--------------------------------------------------------------------------------
(* The module's file, and the ELF made of it.                              *)

USE ExtractAssumption, LoaderAssumption

(* A file as its parser may find it. *)
LEMMA FileType ==
  ASSUME file \in Files
  PROVE  /\ file.phoff \in Nat /\ file.phentsize \in {0, 1} /\ file.elfSize \in Nat
         /\ Phnum \in Nat /\ file.front \in Front
         /\ \A i \in 1 .. Phnum :
              /\ file.ph[i] \in Phdr
              /\ file.ph[i].tag = "phdr" /\ file.ph[i].load \in BOOLEAN
              /\ file.ph[i].offset \in Nat /\ file.ph[i].vaddr \in Nat
              /\ file.ph[i].filesz \in Nat /\ file.ph[i].memsz \in Nat
<1>1. file \in File
  OBVIOUS
<1>2. /\ file.phoff \in Nat /\ file.phentsize \in {0, 1} /\ file.elfSize \in Nat
      /\ file.ph \in Seq(Phdr) /\ file.front \in Front
  BY <1>1 DEF File
<1>3. Phnum \in Nat /\ DOMAIN file.ph = 1 .. Phnum
  BY <1>2, LenProperties DEF Phnum
<1>4. ASSUME NEW i \in 1 .. Phnum
      PROVE  file.ph[i] \in Phdr
  BY <1>2, <1>3, <1>4, ElementOfSeq DEF Phnum
<1>5. ASSUME NEW i \in 1 .. Phnum
      PROVE  /\ file.ph[i].tag = "phdr" /\ file.ph[i].load \in BOOLEAN
             /\ file.ph[i].offset \in Nat /\ file.ph[i].vaddr \in Nat
             /\ file.ph[i].filesz \in Nat /\ file.ph[i].memsz \in Nat
  BY <1>4 DEF Phdr, Addr
<1> QED
  BY <1>2, <1>3, <1>4, <1>5

LEMMA LastOverProperty ==
  ASSUME NEW S, NEW n, n \in S, \A j \in S : j <= n /\ j \in Nat
  PROVE  LastOver(S) = n
<1>1. \A j \in S : j <= n
  OBVIOUS
<1>2. LastOver(S) \in S /\ \A j \in S : j <= LastOver(S)
  BY <1>1 DEF LastOver
<1>3. LastOver(S) <= n /\ n <= LastOver(S) /\ n \in Nat /\ LastOver(S) \in Nat
  BY <1>2
<1> QED
  BY <1>3

--------------------------------------------------------------------------------
(* The file being put together.                                            *)

Busy == pc \in {"segments", "inflate"}

(* The file, also one a tool that is astray leaves. *)
ImageDone ==
  disk # NoFile =>
    /\ disk.size = file.elfSize /\ Image(disk.cell, m.segs)
    /\ disk.head.tag = "ehdr" /\ disk.head \in {Ehdr, file.front}

OutInv ==
  /\ file \in Files
  /\ \E S : dst \in Seq(S)
  /\ k \in Nat \ {0} /\ (pc = "parse" => k = 1)
  /\ pc # "exit" => disk = NoFile /\ stage = "none"
  /\ Busy =>
       /\ m.segs \in Nat /\ m.segs <= Phnum /\ k <= m.segs + 1
       /\ DOMAIN out = 0 .. file.elfSize - 1
       /\ Image(out, k - 1)
       /\ file.phoff + Phnum <= file.elfSize
  /\ pc = "inflate" => k <= m.segs
  /\ disk # NoFile =>
       /\ m.segs \in Nat /\ m.segs <= Phnum
       /\ file.phoff + Phnum <= file.elfSize
  /\ ImageDone

Covers(i, c) == c \in file.ph[i].offset .. file.ph[i].offset + file.ph[i].filesz - 1

LEMMA PlacedNext ==
  ASSUME NEW n \in Nat \ {0}, NEW c
  PROVE  Placed(n, c) = Placed(n - 1, c) \cup (IF Covers(n, c) THEN {n} ELSE {})
<1>1. 1 .. n = (1 .. n - 1) \cup {n}
  OBVIOUS
<1> QED
  BY <1>1 DEF Placed, Covers

LEMMA PlacedLast ==
  ASSUME NEW n \in Nat \ {0}, NEW c, Covers(n, c)
  PROVE  Placed(n, c) # {} /\ LastOver(Placed(n, c)) = n
<1>1. n \in Placed(n, c) /\ \A j \in Placed(n, c) : j <= n /\ j \in Nat
  BY DEF Placed, Covers
<1> QED
  BY <1>1, LastOverProperty

(* Putting a segment in place brings the image one segment further. *)
LEMMA ImageNext ==
  ASSUME NEW n \in Nat \ {0}, NEW cells, NEW new, Image(cells, n - 1),
         \A c \in 0 .. file.elfSize - 1 :
           IF Covers(n, c)
             THEN new[c].tag = "data" /\ new[c].segment = n
                  /\ new[c].byte = c - file.ph[n].offset
             ELSE new[c] = cells[c]
  PROVE  Image(new, n)
<1> SUFFICES ASSUME NEW c \in 0 .. file.elfSize - 1
             PROVE  IF Placed(n, c) # {}
                      THEN LET i == LastOver(Placed(n, c))
                           IN  new[c].tag = "data" /\ new[c].segment = i
                               /\ new[c].byte = c - file.ph[i].offset
                      ELSE new[c] = HeaderCell(c)
  BY DEF Image
<1>1. CASE Covers(n, c)
  BY <1>1, PlacedLast
<1>2. CASE ~Covers(n, c)
  <2>1. Placed(n, c) = Placed(n - 1, c)
    BY <1>2, PlacedNext
  <2>2. new[c] = cells[c]
    BY <1>2
  <2> QED
    BY <2>1, <2>2 DEF Image
<1> QED
  BY <1>1, <1>2

(* What memcpy of a segment's bytes does to the image. *)
LEMMA PutSegment ==
  ASSUME NEW n \in Nat \ {0}, NEW o, NEW cells, NEW new,
         file \in Files, n <= Phnum,
         DOMAIN o = 0 .. file.elfSize - 1, Image(o, n - 1),
         new = Put(o, file.ph[n].offset, cells),
         Len(cells) = file.ph[n].filesz,
         \A b \in 1 .. file.ph[n].filesz :
           cells[b].tag = "data" /\ cells[b].segment = n /\ cells[b].byte = b - 1
  PROVE  DOMAIN new = 0 .. file.elfSize - 1 /\ Image(new, n)
<1> DEFINE off == file.ph[n].offset
           len == file.ph[n].filesz
<1>1. off \in Nat /\ len \in Nat /\ file.elfSize \in Nat
  BY FileType
<1>2. DOMAIN new = 0 .. file.elfSize - 1
  BY DEF Put
<1>3. ASSUME NEW c \in 0 .. file.elfSize - 1
      PROVE  IF Covers(n, c)
               THEN new[c].tag = "data" /\ new[c].segment = n /\ new[c].byte = c - off
               ELSE new[c] = o[c]
  <2>1. new[c] = IF c - off + 1 \in 1 .. len THEN cells[c - off + 1] ELSE o[c]
    BY DEF Put
  <2>2. Covers(n, c) <=> c - off + 1 \in 1 .. len
    <3>1. Covers(n, c) <=> c \in off .. off + len - 1
      BY DEF Covers
    <3> HIDE DEF off, len
    <3> QED
      BY <3>1, <1>1, <1>3
  <2>3. (c - off + 1) - 1 = c - off
    BY <1>1, <1>3
  <2> QED
    BY <2>1, <2>2, <2>3
<1> QED
  BY <1>2, <1>3, ImageNext

--------------------------------------------------------------------------------
LEMMA OutInit ==
  ASSUME Init
  PROVE  OutInv
<1>1. dst \in Seq({})
  BY DEF Init, InfInit
<1>2. pc = "parse" /\ k = 1 /\ disk = NoFile /\ stage = "none" /\ file \in Files
  BY DEF Init, LoadInit
<1> QED
  BY <1>1, <1>2 DEF OutInv, Busy, ImageDone

LEMMA LeastType ==
  ASSUME NEW a \in Nat, NEW b \in Nat
  PROVE  Least(a, b) \in Nat /\ Least(a, b) <= a
  BY DEF Least

LEMMA OutParse ==
  ASSUME OutInv, Parse
  PROVE  OutInv'
<1>1. file' = file /\ k' = k /\ dst' = dst /\ disk' = disk /\ stage' = stage
  BY DEF Parse, infVars, loadVars
<1>2. file \in Files /\ k \in Nat \ {0} /\ (\E S : dst \in Seq(S)) /\ disk = NoFile /\ stage = "none"
  BY DEF OutInv, Parse
<1>3. CASE pc' \in {"exit", "killed"}
  BY <1>1, <1>2, <1>3 DEF OutInv, Busy, ImageDone
<1>4. CASE pc' \notin {"exit", "killed"}
  <2> DEFINE r == ParseFile
             blank == [c \in 0 .. file.elfSize - 1 |-> Zero]
  <2>1. /\ pc' = "segments" /\ m' = r /\ r.ok /\ file.magic = "sce"
        /\ out' = Put(Put(blank, 0, << Ehdr >>), file.phoff, file.ph)
        /\ file.phoff + Phnum <= file.elfSize
    BY <1>4 DEF Parse, Exit, Killed
  <2>2. r.segs \in Nat /\ r.segs <= Phnum
    <3>1. r = ParseSelf /\ r.ok
      BY <2>1 DEF ParseFile
    <3> DEFINE q == ParseElf(file.elfOffset, file.phdrOffset, NoModule)
    <3>2. q.ok /\ r.segs = q.phdrs
      BY <3>1 DEF ParseSelf, ParseElf, NoModule
    <3>3. q.phdrs = 0 + Least(Phnum, MaxSegments)
      BY <3>2 DEF ParseElf, NoModule
    <3>4. Least(Phnum, MaxSegments) \in Nat /\ Least(Phnum, MaxSegments) <= Phnum
      BY <1>2, FileType, LeastType
    <3> HIDE DEF q, r
    <3> QED
      BY <3>2, <3>3, <3>4
  <2>3. k = 1
    BY DEF OutInv, Parse
  <2> DEFINE P == file.phoff .. file.phoff + Phnum - 1
  <2>4. file.phoff \in Nat /\ Phnum \in Nat /\ file.elfSize \in Nat
    BY <1>2, FileType
  <2>5. DOMAIN out' = 0 .. file.elfSize - 1
    BY <2>1 DEF Put
  <2>6. ASSUME NEW c \in 0 .. file.elfSize - 1
        PROVE  out'[c] = HeaderCell(c)
    <3> DEFINE first == Put(blank, 0, << Ehdr >>)
    <3>1. first[c] = IF c = 0 THEN Ehdr ELSE Zero
      <4>1. Len(<< Ehdr >>) = 1 /\ << Ehdr >>[1] = Ehdr
        OBVIOUS
      <4>2. c - 0 + 1 \in 1 .. 1 <=> c = 0
        BY <2>4
      <4> QED
        BY <4>1, <4>2 DEF Put
    <3>2. DOMAIN first = 0 .. file.elfSize - 1
      BY DEF Put
    <3> HIDE DEF first
    <3>3. out' = Put(first, file.phoff, file.ph)
      BY <2>1 DEF first
    <3>4. out'[c] = IF c - file.phoff + 1 \in 1 .. Phnum THEN file.ph[c - file.phoff + 1] ELSE first[c]
      BY <3>2, <3>3 DEF Put, Phnum
    <3>5. c - file.phoff + 1 \in 1 .. Phnum <=> c \in P
      BY <2>4
    <3> QED
      BY <3>1, <3>4, <3>5 DEF HeaderCell
  <2>7. \A c : Placed(0, c) = {}
    BY DEF Placed
  <2>8. Image(out', 0)
    BY <2>6, <2>7 DEF Image
  <2>9. Image(out, k - 1)'
    <3>1. Image(out, k - 1)' <=> Image(out', k - 1)
      BY <1>1 DEF Image, Placed, LastOver, HeaderCell, Ehdr, Phnum
    <3> QED
      BY <2>3, <2>8, <3>1
  <2>10. Phnum' = Phnum
    BY <1>1 DEF Phnum
  <2> HIDE DEF r
  <2> QED
    BY <1>1, <1>2, <2>1, <2>2, <2>3, <2>5, <2>9, <2>10 DEF OutInv, Busy, ImageDone
<1> QED
  BY <1>3, <1>4

(* A step after parsing: the file and what was read of it stay.            *)
LEMMA ImageKept ==
  ASSUME file' = file
  PROVE  /\ Image(out, k - 1)' <=> Image(out', k' - 1)
         /\ Image(disk.cell, m.segs)' <=> Image(disk.cell', m.segs')
         /\ Phnum' = Phnum /\ Ehdr' = Ehdr
  BY DEF Image, Placed, LastOver, HeaderCell, Ehdr, Phnum

LEMMA OutKept ==
  ASSUME OutInv, file' = file, m' = m, out' = out, k' = k, disk' = disk,
         \/ pc' = "exit"
         \/ pc' = "killed" /\ pc # "exit" /\ stage' = stage
         \/ pc' = pc /\ (pc # "exit" => stage' = stage)
         \/ pc = "segments" /\ pc' = "inflate" /\ k <= m.segs /\ stage' = stage,
         (\E S : dst \in Seq(S))'
  PROVE  OutInv'
<1>1. Phnum' = Phnum /\ (Image(out, k - 1)' <=> Image(out, k - 1)) /\ (ImageDone' <=> ImageDone)
  BY ImageKept DEF ImageDone
<1> QED
  BY <1>1 DEF OutInv, Busy

(* The loop goes on with the next segment in place. *)
LEMMA OutAdvance ==
  ASSUME OutInv, Busy, k <= m.segs, pc' = "segments", k' = k + 1,
         file' = file, m' = m, disk' = disk, stage' = stage,
         DOMAIN out' = 0 .. file.elfSize - 1, Image(out', k),
         (\E S : dst \in Seq(S))'
  PROVE  OutInv'
<1>1. k \in Nat \ {0} /\ k' - 1 = k
  BY DEF OutInv
<1>2. Image(out, k - 1)' <=> Image(out', k)
  BY <1>1, ImageKept
<1>3. disk = NoFile /\ stage = "none"
  BY DEF OutInv, Busy
<1>4. m.segs \in Nat /\ k + 1 <= m.segs + 1
  BY <1>1 DEF OutInv
<1> QED
  BY <1>1, <1>2, <1>3, <1>4, ImageKept DEF OutInv, Busy, ImageDone

LEMMA OutPlace ==
  ASSUME OutInv, PlaceSegment
  PROVE  OutInv'
<1> DEFINE s == file.seg[k]
           h == file.ph[k]
<1>1. /\ pc = "segments" /\ k <= m.segs /\ k \in Nat \ {0} /\ m.segs \in Nat /\ m.segs <= Phnum
      /\ file \in Files /\ DOMAIN out = 0 .. file.elfSize - 1 /\ Image(out, k - 1)
      /\ file' = file /\ m' = m /\ disk' = disk /\ stage' = stage
  BY DEF PlaceSegment, OutInv, Busy, loadVars
<1>2. Phnum \in Nat /\ h.filesz \in Nat /\ k <= Phnum
  BY <1>1, FileType
<1>3. CASE h.filesz = 0 /\ k' = k + 1 /\ UNCHANGED << pc, rc, out, infVars >>
  <2>1. \A c \in 0 .. file.elfSize - 1 : ~Covers(k, c)
    <3>1. h.offset \in Nat
      BY <1>1, <1>2, FileType
    <3>2. \A c : Covers(k, c) <=> c \in h.offset .. h.offset + h.filesz - 1
      BY DEF Covers
    <3> HIDE DEF h
    <3> QED
      BY <1>3, <3>1, <3>2
  <2>2. Image(out, k)
    BY <1>1, <2>1, ImageNext
  <2>3. (\E S : dst \in Seq(S))'
    BY <1>3 DEF OutInv, infVars
  <2> QED
    BY <1>1, <1>3, <2>2, <2>3, OutAdvance DEF Busy
<1>4. CASE (Exit(1) \/ Killed) /\ UNCHANGED << k, out, infVars >>
  <2>1. (\E S : dst \in Seq(S))'
    BY <1>4 DEF OutInv, infVars
  <2> QED
    BY <1>1, <1>4, <2>1, OutKept DEF Exit, Killed
<1>5. CASE /\ out' = Put(out, h.offset, [b \in 1 .. h.filesz |-> Data(k, b - 1, 0)])
           /\ k' = k + 1 /\ UNCHANGED << pc, rc, infVars >>
  <2> DEFINE cells == [b \in 1 .. h.filesz |-> Data(k, b - 1, 0)]
  <2>1. /\ Len(cells) = h.filesz
        /\ \A b \in 1 .. h.filesz :
             cells[b].tag = "data" /\ cells[b].segment = k /\ cells[b].byte = b - 1
    BY <1>2 DEF Data
  <2>2. out' = Put(out, file.ph[k].offset, cells)
    BY <1>5
  <2> HIDE DEF cells
  <2>3. DOMAIN out' = 0 .. file.elfSize - 1 /\ Image(out', k)
    BY <1>1, <1>2, <2>1, <2>2, PutSegment
  <2>4. (\E S : dst \in Seq(S))'
    BY <1>5 DEF OutInv, infVars
  <2> QED
    BY <1>1, <1>5, <2>3, <2>4, OutAdvance DEF Busy
<1>6. CASE /\ Inflate(s.frame, h.filesz) /\ pc' = "inflate" /\ UNCHANGED << k, rc, out >>
  <2>1. (\E S : dst \in Seq(S))'
    BY <1>6, MatchStart DEF MatchInv
  <2> QED
    BY <1>1, <1>6, <2>1, OutKept
<1> HIDE DEF s, h
<1>7. QED
  BY <1>3, <1>4, <1>5, <1>6 DEF PlaceSegment, s, h

LEMMA OutInflated ==
  ASSUME OutInv, Inflated
  PROVE  OutInv'
<1> DEFINE h == file.ph[k]
           cells == [b \in 1 .. Len(dst) |-> Data(k, b - 1, dst[b])]
<1>1. /\ pc = "inflate" /\ k <= m.segs /\ k \in Nat \ {0} /\ m.segs \in Nat /\ m.segs <= Phnum
      /\ file \in Files /\ DOMAIN out = 0 .. file.elfSize - 1 /\ Image(out, k - 1)
      /\ file' = file /\ m' = m /\ disk' = disk /\ stage' = stage /\ disk = NoFile
      /\ out' = Put(out, h.offset, cells)
  BY DEF Inflated, OutInv, Busy, loadVars
<1>2. (\E S : dst \in Seq(S))'
  BY DEF Inflated, OutInv, infVars
<1>3. Phnum \in Nat /\ h.filesz \in Nat /\ k <= Phnum
  BY <1>1, FileType
<1>4. CASE Len(dst) = h.filesz /\ pc' = "segments" /\ k' = k + 1
  <2>1. /\ Len(cells) = h.filesz
        /\ \A b \in 1 .. h.filesz :
             cells[b].tag = "data" /\ cells[b].segment = k /\ cells[b].byte = b - 1
    BY <1>3, <1>4 DEF Data
  <2>2. out' = Put(out, file.ph[k].offset, cells)
    BY <1>1
  <2> HIDE DEF cells
  <2>3. DOMAIN out' = 0 .. file.elfSize - 1 /\ Image(out', k)
    BY <1>1, <1>3, <2>1, <2>2, PutSegment
  <2> QED
    BY <1>1, <1>2, <1>4, <2>3, OutAdvance DEF Busy
<1>5. CASE pc' = "exit" /\ k' = k
  <2>1. Phnum' = Phnum
    BY <1>1, ImageKept
  <2> QED
    BY <1>1, <1>2, <1>5, <2>1 DEF OutInv, Busy, ImageDone
<1> QED
  BY <1>4, <1>5 DEF Inflated, Exit

LEMMA OutFinish ==
  ASSUME OutInv, Finish
  PROVE  OutInv'
<1>1. /\ pc = "segments" /\ k > m.segs /\ k <= m.segs + 1 /\ k \in Nat \ {0}
      /\ m.segs \in Nat /\ m.segs <= Phnum
      /\ file \in Files /\ DOMAIN out = 0 .. file.elfSize - 1 /\ Image(out, k - 1)
      /\ file' = file /\ m' = m /\ k' = k /\ out' = out /\ dst' = dst /\ disk = NoFile
  BY DEF Finish, OutInv, Busy, infVars
<1>2. pc' = "exit" /\ Phnum' = Phnum
  BY <1>1, ImageKept DEF Finish, Exit
<1>3. k - 1 = m.segs
  BY <1>1
<1>4. CASE disk' = disk
  BY <1>1, <1>2, <1>4 DEF OutInv, Busy, ImageDone
<1>5. CASE disk' # disk
  <2>1. /\ disk' = [size |-> file.elfSize, head |-> FrontOf, cell |-> out]
        /\ FrontOf.tag = "ehdr" /\ FrontOf \in {Ehdr, file.front}
    BY <1>5 DEF Finish, FrontOf
  <2> HIDE DEF FrontOf
  <2>2. disk.cell' = out /\ disk.size' = file.elfSize /\ disk.head' = FrontOf
    BY <2>1
  <2>3. Image(disk.cell, m.segs)'
    BY <1>1, <1>3, <2>2, ImageKept
  <2>4. ImageDone'
    BY <1>1, <2>1, <2>2, <2>3, ImageKept DEF ImageDone
  <2> QED
    BY <1>1, <1>2, <2>1, <2>2, <2>4 DEF OutInv, Busy
<1> QED
  BY <1>4, <1>5

LEMMA OutNext ==
  ASSUME OutInv, MatchInv, [Next]_vars
  PROVE  OutInv'
<1>1. ASSUME UNCHANGED vars
      PROVE  OutInv'
  <2>1. (\E S : dst \in Seq(S))'
    BY <1>1 DEF vars, infVars, OutInv
  <2> QED
    BY <1>1, <2>1, OutKept DEF vars, toolVars, loadVars
<1>2. ASSUME InflateStep
      PROVE  OutInv'
  <2>1. (\E S : dst \in Seq(S))'
    BY <1>2, MatchStep DEF InflateStep, MatchInv
  <2> QED
    BY <1>2, <2>1, OutKept DEF InflateStep, toolVars, loadVars
<1>3. ASSUME Load
      PROVE  OutInv'
  <2>1. disk' = disk /\ stage # "none"
    BY <1>3 DEF Load, LoadNext, Probe, MemInit, LoadStart, LoadEntry, LoadEnd
  <2>2. pc = "exit"
    BY <2>1 DEF OutInv
  <2>3. (\E S : dst \in Seq(S))'
    BY <1>3 DEF Load, infVars, OutInv
  <2> QED
    BY <1>3, <2>1, <2>2, <2>3, OutKept DEF Load, toolVars
<1> QED
  BY <1>1, <1>2, <1>3, OutParse, OutPlace, OutInflated, OutFinish DEF Next, Done

LEMMA MatchNext ==
  ASSUME MatchInv, [Next]_vars
  PROVE  MatchInv'
<1>1. UNCHANGED infVars \/ Step \/ \E f, c : Inflate(f, c)
  BY DEF Next, Done, vars, Parse, PlaceSegment, InflateStep, Inflated, Finish, Load
<1> QED
  BY <1>1, MatchStep, MatchStart, MatchStutter

(* In the whole tool too, every back-reference reads only what the segment *)
(* it is in has written, and repeats at its distance: inflate.c as         *)
(* cmd_extract calls it.                                                   *)
THEOREM ExtractRepeats == Spec => []MatchRepeats
<1>1. Init => MatchInv
  BY MatchInit DEF Init
<1>2. MatchInv /\ [Next]_vars => MatchInv'
  BY MatchNext
<1>3. MatchInv => MatchRepeats
  BY DEF MatchInv
<1> QED
  BY <1>1, <1>2, <1>3, PTL DEF Spec

LEMMA OutAlways == Spec => [](OutInv /\ MatchInv)
<1>1. Init => OutInv /\ MatchInv
  BY OutInit, MatchInit DEF Init
<1>2. OutInv /\ MatchInv /\ [Next]_vars => (OutInv /\ MatchInv)'
  BY OutNext, MatchNext
<1> QED
  BY <1>1, <1>2, PTL DEF Spec

(* What the tool is astray for. *)
StrayInv ==
  stray => /\ pc # "parse"
           /\ file.elfSize = 0 \/ \E i \in 1 .. m.segs : Around(file.seg[i])

LEMMA StrayNext ==
  ASSUME OutInv, StrayInv, [Next]_vars
  PROVE  StrayInv'
<1>1. CASE Parse
  <2>1. file' = file /\ pc' # "parse"
    BY <1>1 DEF Parse, Exit, Killed
  <2>2. ~stray
    BY <1>1 DEF Parse, StrayInv
  <2>3. stray' = stray \/ file.elfSize = 0 \/ stray' = (file.elfSize = 0)
    BY <1>1, Zenon DEF Parse, Killed
  <2>4. stray' => file.elfSize = 0
    BY <2>2, <2>3, Zenon
  <2> QED
    BY <2>1, <2>4 DEF StrayInv
<1>2. CASE PlaceSegment
  <2>1. file' = file /\ m' = m /\ k \in 1 .. m.segs /\ pc' # "parse" /\ pc # "parse"
    BY <1>2 DEF PlaceSegment, Exit, Killed, OutInv, Busy
  <2>2. \A i : Around(file.seg[i])' <=> Around(file.seg[i])
    BY <2>1 DEF Around
  <2>3. stray' = stray \/ Around(file.seg[k]) \/ stray' = (stray \/ Around(file.seg[k]))
    BY <1>2, Zenon DEF PlaceSegment, Killed
  <2>4. stray' => stray \/ Around(file.seg[k])
    BY <2>3, Zenon
  <2> QED
    BY <2>1, <2>2, <2>4 DEF StrayInv
<1>3. CASE ~Parse /\ ~PlaceSegment
  <2>1. file' = file /\ m' = m /\ stray' = stray /\ (pc' = pc \/ pc' # "parse")
    BY <1>3 DEF Next, Done, vars, toolVars, InflateStep, Inflated, Finish, Load, Exit
  <2>2. \A i : Around(file.seg[i])' <=> Around(file.seg[i])
    BY <2>1 DEF Around
  <2> QED
    BY <2>1, <2>2 DEF StrayInv
<1> QED
  BY <1>1, <1>2, <1>3

(* The file that is written is the module: every cell is that of the last  *)
(* segment over it, at its place, or of the headers; and only an ELF with  *)
(* no room for its header, or a segment whose place in the file wraps, can *)
(* lead the tool outside its buffers (cmd_extract).                        *)
THEOREM ImageWritten == Spec => []ImagePlaced
<1>1. Init => StrayInv
  BY DEF Init, StrayInv
<1>2. OutInv /\ StrayInv /\ [Next]_vars => StrayInv'
  BY StrayNext
<1>3. OutInv /\ StrayInv => ImagePlaced
  BY DEF OutInv, ImageDone, StrayInv, ImagePlaced
<1> QED
  BY <1>1, <1>2, <1>3, OutAlways, PTL DEF Spec

LEMMA RoomNext ==
  ASSUME OutInv, MatchInv, RoomInv, [Next]_vars
  PROVE  RoomInv'
<1>1. CASE UNCHANGED infVars
  BY <1>1 DEF RoomInv, infVars
<1>2. CASE Step
  BY <1>2, RoomStep
<1>3. CASE PlaceSegment
  <2>1. CASE UNCHANGED infVars
    BY <2>1 DEF RoomInv, infVars
  <2>2. CASE Inflate(file.seg[k].frame, file.ph[k].filesz)
    <3>1. file \in Files /\ k \in 1 .. Phnum
      BY <1>3, FileType DEF PlaceSegment, OutInv, Busy
    <3>2. file.ph[k].filesz \in Nat
      BY <3>1, FileType
    <3> QED
      BY <2>2, <3>2, RoomStart
  <2> QED
    BY <1>3, <2>1, <2>2 DEF PlaceSegment
<1> QED
  BY <1>1, <1>2, <1>3 DEF Next, Done, vars, Parse, InflateStep, Inflated, Finish, Load

(* The room is that of the segment at hand. *)
CapInv == pc = "inflate" => cap = file.ph[k].filesz

LEMMA CapNext ==
  ASSUME CapInv, [Next]_vars
  PROVE  CapInv'
<1>1. CASE pc' # "inflate"
  BY <1>1 DEF CapInv
<1>2. CASE pc' = "inflate" /\ PlaceSegment
  <2>1. cap' = file.ph[k].filesz /\ file' = file /\ k' = k
    BY <1>2 DEF PlaceSegment, Exit, Killed, Inflate
  <2> QED
    BY <2>1 DEF CapInv
<1>3. CASE pc' = "inflate" /\ ~PlaceSegment
  <2>1. pc = "inflate" /\ file' = file /\ k' = k /\ cap' = cap
    BY ZenonT(40), <1>3 DEF Next, Done, vars, Parse, InflateStep, Inflated, Finish, Load, Exit, Killed, toolVars,
                infVars, Step, Block, Stored, Dynamic, Lengths, Tables, Symbol, Copy
  <2> QED
    BY SMTT(30), <2>1 DEF CapInv
<1> QED
  BY <1>1, <1>2, <1>3

(* A segment never grows past what its program header says it has in the   *)
(* file, whatever the stream: nothing is written beside it.                *)
THEOREM SegmentBounded == Spec => [](pc = "inflate" => Len(dst) <= file.ph[k].filesz)
<1>1. Init => RoomInv /\ CapInv
  BY DEF Init, InfInit, RoomInv, CapInv
<1>2. OutInv /\ MatchInv /\ RoomInv /\ CapInv /\ [Next]_vars => (RoomInv /\ CapInv)'
  BY RoomNext, CapNext
<1>3. RoomInv /\ CapInv => (pc = "inflate" => Len(dst) <= file.ph[k].filesz)
  BY DEF RoomInv, CapInv
<1> QED
  BY <1>1, <1>2, <1>3, OutAlways, PTL DEF Spec

--------------------------------------------------------------------------------
(* The types.                                                              *)

(* The two tables of vc_module. *)
ModuleTables == [ok : BOOLEAN, phdrs : Nat, segs : Nat]

LEMMA ParseElfAdds ==
  ASSUME file \in Files, NEW e, NEW p, NEW r \in ModuleTables
  PROVE  LET q == ParseElf(e, p, r)
         IN  /\ q \in ModuleTables /\ q.segs = r.segs
             /\ IF q.ok THEN q.phdrs = r.phdrs + Least(Phnum, MaxSegments)
                        ELSE q.phdrs = r.phdrs
<1> DEFINE n == Least(Phnum, MaxSegments)
           q == ParseElf(e, p, r)
<1>1. n \in Nat
  BY FileType, LeastType
<1>2. (q = [r EXCEPT !.phdrs = r.phdrs + n] /\ r.ok) \/ q = [r EXCEPT !.ok = FALSE]
  BY DEF ParseElf
<1> HIDE DEF n, q
<1>3. CASE q = [r EXCEPT !.phdrs = r.phdrs + n] /\ r.ok
  <2>1. r.phdrs + n \in Nat
    BY <1>1 DEF ModuleTables
  <2>2. q \in ModuleTables /\ q.segs = r.segs /\ q.ok = r.ok /\ q.phdrs = r.phdrs + n
    BY <1>3, <2>1 DEF ModuleTables
  <2>3. q.ok
    BY <1>3, <2>2, Zenon
  <2> QED
    BY <2>2, <2>3 DEF n, q
<1>4. CASE q = [r EXCEPT !.ok = FALSE]
  <2>1. q \in ModuleTables /\ q.segs = r.segs /\ q.phdrs = r.phdrs /\ q.ok = FALSE
    BY <1>4 DEF ModuleTables
  <2>2. ~q.ok
    BY <2>1, Zenon
  <2> QED
    BY <2>1, <2>2 DEF n, q
<1> QED
  BY <1>2, <1>3, <1>4

TableOK(r) ==
  /\ r.phdrs \in 0 .. MaxSegments /\ r.segs \in {0, r.phdrs}
  /\ r.ok => r.phdrs = Least(Phnum, MaxSegments)

LEMMA ParseTables ==
  ASSUME file \in Files
  PROVE  TableOK(ParseFile)
<1> DEFINE n == Least(Phnum, MaxSegments)
           first == ParseElf(0, 0, NoModule)
           self == ParseElf(file.elfOffset, file.phdrOffset, NoModule)
           plain == ParseElf(0, file.phoff, [first EXCEPT !.phdrs = 0])
           r == ParseFile
<1>1. n \in 0 .. MaxSegments
  <2>1. Phnum \in Nat /\ MaxSegments \in Nat
    BY FileType
  <2> QED
    BY <2>1 DEF Least
<1>2. NoModule \in ModuleTables /\ NoModule.phdrs = 0 /\ NoModule.segs = 0
  BY DEF NoModule, ModuleTables
<1>3. /\ self \in ModuleTables /\ self.segs = 0
      /\ IF self.ok THEN self.phdrs = 0 + n ELSE self.phdrs = 0
  BY <1>2, ParseElfAdds
<1>4. /\ plain \in ModuleTables /\ plain.segs = 0
      /\ IF plain.ok THEN plain.phdrs = 0 + n ELSE plain.phdrs = 0
  <2>1. first \in ModuleTables /\ first.segs = 0
    BY <1>2, ParseElfAdds
  <2> DEFINE second == [first EXCEPT !.phdrs = 0]
  <2>2. second \in ModuleTables /\ second.segs = 0 /\ second.phdrs = 0
    BY <2>1 DEF ModuleTables
  <2>3. plain = ParseElf(0, file.phoff, second)
    OBVIOUS
  <2> HIDE DEF first, second, plain, n
  <2>4. /\ plain \in ModuleTables /\ plain.segs = second.segs
        /\ IF plain.ok THEN plain.phdrs = second.phdrs + n ELSE plain.phdrs = second.phdrs
    BY <2>2, <2>3, ParseElfAdds DEF n
  <2> QED
    BY <2>2, <2>4
<1>5. \/ r = [self EXCEPT !.segs = self.phdrs] /\ self.ok
      \/ r = [self EXCEPT !.ok = FALSE]
      \/ r = plain
      \/ r = [NoModule EXCEPT !.ok = FALSE]
  BY DEF ParseFile, ParseSelf, ParsePlain
<1> HIDE DEF n, self, plain, r
<1>6. CASE r = [self EXCEPT !.segs = self.phdrs] /\ self.ok
  <2>1. r.phdrs = n /\ r.segs = r.phdrs
    BY <1>1, <1>3, <1>6 DEF ModuleTables
  <2> QED
    BY <1>1, <2>1 DEF TableOK, n, r
<1>7. CASE r = [self EXCEPT !.ok = FALSE]
  <2>1. r.phdrs \in {0, n} /\ r.segs = 0 /\ r.ok = FALSE
    BY <1>1, <1>3, <1>7 DEF ModuleTables
  <2>2. ~r.ok
    BY <2>1, Zenon
  <2> QED
    BY <1>1, <2>1, <2>2 DEF TableOK, n, r
<1>8. CASE r = plain
  <2>1. r.phdrs \in {0, n} /\ r.segs = 0 /\ (r.ok => r.phdrs = n)
    BY <1>1, <1>4, <1>8
  <2> QED
    BY <1>1, <2>1 DEF TableOK, n, r
<1>9. CASE r = [NoModule EXCEPT !.ok = FALSE]
  <2>1. r.phdrs = 0 /\ r.segs = 0 /\ r.ok = FALSE
    BY <1>2, <1>9 DEF ModuleTables
  <2>2. ~r.ok
    BY <2>1, Zenon
  <2> QED
    BY <1>1, <2>1, <2>2 DEF TableOK, n, r
<1> QED
  BY <1>5, <1>6, <1>7, <1>8, <1>9

(* The part of TypeOK that is the tool's and the host's. *)
Stages == {"none", "file", "probed", "unusable", "memory", "loading", "loaded", "failed", "killed"}

TablesOK ==
  /\ m.phdrs \in 0 .. MaxSegments /\ m.segs \in {0, m.phdrs}
  /\ m.ok /\ pc # "parse" => m.phdrs = Least(Phnum, MaxSegments)

TurnOK ==
  /\ pc \in {"parse", "segments", "inflate", "exit", "killed"}
  /\ k \in 1 .. m.segs + 1
  /\ rc \in {-1, 0, 1} /\ (rc = -1 <=> pc # "exit")

OutOK == out # << >> => DOMAIN out = 0 .. file.elfSize - 1

ToolOK == TablesOK /\ TurnOK /\ OutOK /\ stage \in Stages

FlagsOK == stray \in BOOLEAN /\ overrun \in BOOLEAN

LEMMA ToolInit ==
  ASSUME Init
  PROVE  ToolOK
<1>1. /\ m = NoModule /\ pc = "parse" /\ k = 1 /\ out = << >> /\ rc = -1 /\ stage = "none"
  BY DEF Init, LoadInit
<1>2. m.phdrs = 0 /\ m.segs = 0
  BY <1>1 DEF NoModule
<1>3. TablesOK
  BY <1>1, <1>2 DEF TablesOK
<1>4. TurnOK
  BY <1>1, <1>2 DEF TurnOK
<1> QED
  BY <1>1, <1>3, <1>4 DEF ToolOK, OutOK, Stages

(* What a step after parsing leaves to check. *)
LEMMA ToolKept ==
  ASSUME ToolOK, pc # "parse", file' = file, m' = m,
         \/ pc' = pc /\ rc' = rc /\ k' = k
         \/ pc' = "exit" /\ rc' \in {0, 1} /\ k' = k
         \/ pc' = "killed" /\ pc # "exit" /\ rc' = rc /\ k' = k
         \/ pc' \in {"segments", "inflate"} /\ pc # "exit" /\ rc' = rc
            /\ k' \in {k, k + 1} /\ k' <= m.segs + 1,
         \/ out' = out
         \/ DOMAIN out' = DOMAIN out /\ DOMAIN out = 0 .. file.elfSize - 1,
         stage' \in Stages
  PROVE  ToolOK'
<1>1. TablesOK' /\ TurnOK' /\ OutOK'
  <2>1. m.segs \in Nat /\ k \in Nat
    BY DEF ToolOK, TablesOK, TurnOK
  <2>2. pc' # "parse" /\ Phnum' = Phnum
    BY DEF ToolOK, TurnOK, Phnum
  <2>3. TablesOK'
    BY <2>2 DEF ToolOK, TablesOK
  <2>4. TurnOK'
    BY <2>1 DEF ToolOK, TurnOK
  <2>5. OutOK'
    BY DEF ToolOK, OutOK
  <2> QED
    BY <2>3, <2>4, <2>5
<1> QED
  BY <1>1 DEF ToolOK

LEMMA ToolParse ==
  ASSUME OutInv, ToolOK, Parse
  PROVE  ToolOK'
<1>1. file \in Files /\ k = 1 /\ pc = "parse"
  BY DEF OutInv, Parse
<1>2. file' = file /\ m' = ParseFile /\ k' = k /\ stage' = stage
  BY DEF Parse, loadVars
<1>3. Phnum' = Phnum /\ TableOK(m')
  BY <1>1, <1>2, ParseTables DEF Phnum
<1>4. TablesOK'
  BY <1>3 DEF TablesOK, TableOK
<1>5. m'.segs \in Nat
  BY <1>3 DEF TableOK
<1>6. (pc' \in {"segments", "killed"} /\ rc' = rc) \/ (pc' = "exit" /\ rc' = 1)
  BY DEF Parse, Exit, Killed
<1>7. TurnOK'
  BY <1>1, <1>2, <1>5, <1>6 DEF ToolOK, TurnOK
<1>8. out' = out \/ DOMAIN out' = 0 .. file.elfSize - 1
  BY DEF Parse, Put
<1>9. OutOK'
  BY <1>2, <1>8 DEF ToolOK, OutOK
<1> QED
  BY <1>2, <1>4, <1>7, <1>9 DEF ToolOK

LEMMA ToolNext ==
  ASSUME OutInv, ToolOK, [Next]_vars
  PROVE  ToolOK'
<1>1. CASE UNCHANGED vars
  BY <1>1 DEF vars, toolVars, loadVars, ToolOK, TablesOK, TurnOK, OutOK, Phnum
<1>2. CASE Parse
  BY <1>2, ToolParse
<1> DEFINE Turned == \/ pc' = pc /\ rc' = rc /\ k' = k
                     \/ pc' = "exit" /\ rc' \in {0, 1} /\ k' = k
                     \/ pc' = "killed" /\ pc # "exit" /\ rc' = rc /\ k' = k
                     \/ pc' \in {"segments", "inflate"} /\ pc # "exit" /\ rc' = rc
                        /\ k' \in {k, k + 1} /\ k' <= m.segs + 1
           Written == \/ out' = out
                      \/ DOMAIN out' = DOMAIN out /\ DOMAIN out = 0 .. file.elfSize - 1
<1>3. CASE PlaceSegment
  <2>1. /\ pc = "segments" /\ k <= m.segs /\ file' = file /\ m' = m /\ stage' = stage
        /\ k \in Nat /\ m.segs \in Nat /\ DOMAIN out = 0 .. file.elfSize - 1
    BY <1>3 DEF PlaceSegment, loadVars, OutInv, Busy
  <2>2. \/ k' = k + 1 /\ UNCHANGED << pc, rc >>
        \/ (Exit(1) \/ Killed) /\ k' = k
        \/ pc' = "inflate" /\ UNCHANGED << k, rc >>
    BY <1>3 DEF PlaceSegment
  <2>3. Turned
    BY <2>1, <2>2 DEF Exit, Killed
  <2>4. Written
    BY <1>3, <2>1 DEF PlaceSegment, Put
  <2>5. stage' \in Stages
    BY <2>1 DEF ToolOK
  <2> QED
    BY <2>1, <2>3, <2>4, <2>5, ToolKept
<1>4. CASE Inflated
  <2>1. /\ pc = "inflate" /\ k <= m.segs /\ file' = file /\ m' = m /\ stage' = stage
        /\ k \in Nat /\ m.segs \in Nat /\ DOMAIN out = 0 .. file.elfSize - 1
    BY <1>4 DEF Inflated, loadVars, OutInv, Busy
  <2>2. (pc' = "segments" /\ k' = k + 1 /\ rc' = rc) \/ (Exit(1) /\ k' = k)
    BY <1>4 DEF Inflated
  <2>3. Turned
    BY <2>1, <2>2 DEF Exit
  <2>4. Written
    BY <1>4, <2>1 DEF Inflated, Put
  <2>5. stage' \in Stages
    BY <2>1 DEF ToolOK
  <2> QED
    BY <2>1, <2>3, <2>4, <2>5, ToolKept
<1>5. CASE Finish
  <2>1. pc = "segments" /\ UNCHANGED << file, m, k, out >> /\ (Exit(0) \/ Exit(1))
    BY <1>5 DEF Finish
  <2>2. Turned /\ Written
    BY <2>1 DEF Exit
  <2>3. stage' \in Stages
    BY <1>5 DEF Finish, ToolOK, Stages
  <2> QED
    BY <2>1, <2>2, <2>3, ToolKept
<1>6. CASE InflateStep
  <2>1. pc = "inflate" /\ UNCHANGED toolVars /\ stage' = stage
    BY <1>6 DEF InflateStep, loadVars
  <2>2. Turned /\ Written /\ file' = file /\ m' = m
    BY <2>1 DEF toolVars
  <2>3. stage' \in Stages
    BY <2>1 DEF ToolOK
  <2> QED
    BY <2>1, <2>2, <2>3, ToolKept
<1>7. CASE Load
  <2>1. UNCHANGED toolVars
    BY <1>7 DEF Load
  <2>2. Turned /\ Written /\ file' = file /\ m' = m
    BY <2>1 DEF toolVars
  <2>3. stage' \in Stages
    BY <1>7 DEF Load, LoadNext, Probe, MemInit, LoadStart, LoadEntry, LoadEnd, ToolOK, Stages
  <2>4. pc # "parse"
    <3>1. stage # "none"
      BY <1>7 DEF Load, LoadNext, Probe, MemInit, LoadStart, LoadEntry, LoadEnd
    <3> QED
      BY <3>1 DEF OutInv
  <2> QED
    BY <2>2, <2>3, <2>4, ToolKept
<1> QED
  BY <1>1, <1>2, <1>3, <1>4, <1>5, <1>6, <1>7 DEF Next, Done

LEMMA FlagsNext ==
  ASSUME FlagsOK, [Next]_vars
  PROVE  FlagsOK'
<1>1. stray' = stray \/ stray' \in BOOLEAN
  BY Zenon DEF Next, Done, vars, toolVars, Parse, PlaceSegment, InflateStep, Inflated, Finish, Load, Killed
<1>2. overrun' = overrun \/ overrun' \in BOOLEAN
  BY Zenon DEF Next, Done, vars, loadVars, Parse, PlaceSegment, InflateStep, Inflated, Finish, Load,
         LoadNext, Probe, MemInit, LoadStart, LoadEntry, LoadEnd
<1> QED
  BY <1>1, <1>2, Zenon DEF FlagsOK

(* What inflate.c is called with: a segment's stream and its size.         *)
LEMMA CallTypes ==
  ASSUME OutInv, PlaceSegment, Inflate(file.seg[k].frame, file.ph[k].filesz)
  PROVE  file.seg[k].frame.bits \in Seq({0, 1}) /\ file.ph[k].filesz \in Nat
<1>1. /\ file \in File /\ k \in Nat \ {0} /\ k <= m.segs /\ m.segs \in Nat /\ m.segs <= Phnum
      /\ file \in Files
  BY DEF PlaceSegment, OutInv, Busy
<1>2. file.seg \in Seq(Segment) /\ file.ph \in Seq(Phdr)
  BY <1>1 DEF File
<1>3. Len(file.ph) <= Len(file.seg) /\ Len(file.ph) \in Nat /\ Len(file.seg) \in Nat
  BY <1>1, <1>2, LenProperties, SegmentAssumption
<1>4. k \in 1 .. Len(file.seg) /\ k \in 1 .. Phnum
  BY <1>1, <1>3 DEF Phnum
<1>5. file.seg[k] \in Segment
  BY <1>2, <1>4, ElementOfSeq
<1>6. file.seg[k].frame \in Frame
  BY <1>5 DEF Segment
<1> QED
  BY <1>1, <1>4, <1>6, FileType DEF Frame

LEMMA CallsNext ==
  ASSUME OutInv, InfInv, [Next]_vars
  PROVE  InfInv'
<1>1. CASE UNCHANGED infVars \/ Step
  BY <1>1, InfInvStep
<1>2. CASE PlaceSegment /\ Inflate(file.seg[k].frame, file.ph[k].filesz)
  BY <1>2, CallTypes, InfInvStart
<1> QED
  BY <1>1, <1>2
     DEF Next, Done, vars, Parse, PlaceSegment, InflateStep, Inflated, Finish, Load

LEMMA CallsAlways == Spec => [](OutInv /\ InfInv)
<1>1. Init => InfInv
  BY InfInvInit DEF Init
<1>2. OutInv /\ InfInv /\ [Next]_vars => InfInv'
  BY CallsNext
<1> QED
  BY <1>1, <1>2, OutAlways, PTL DEF Spec

(* Every stage keeps its types, on every file: the tables of vc_module     *)
(* stay within their 32 entries and hold the same number, also after the   *)
(* second pass over a plain ELF; a call of inflate.c stays within its      *)
(* stream, its room and the lengths the header announced.                  *)
THEOREM ExtractTyped == Spec => []TypeOK
<1>1. Init => ToolOK /\ FlagsOK
  BY ToolInit DEF Init, LoadInit, FlagsOK
<1>2. OutInv /\ ToolOK /\ FlagsOK /\ [Next]_vars => (ToolOK /\ FlagsOK)'
  BY ToolNext, FlagsNext
<1>3. ToolOK /\ FlagsOK /\ InfInv => TypeOK
  BY DEF ToolOK, FlagsOK, TypeOK, TablesOK, TurnOK, OutOK, Stages, InfInv
<1> QED
  BY <1>1, <1>2, <1>3, CallsAlways, PTL DEF Spec

(* In the whole tool, a call of inflate.c gets on with every one of its    *)
(* steps, whatever the file: none of its loops can turn for ever.          *)
THEOREM ExtractTurns == Spec => EveryTurnCounts
<1>1. ASSUME InfInv, InfInv', [Next]_vars
      PROVE  [phase # "idle" => Fuel' < Fuel]_infVars
  <2>1. Step \/ UNCHANGED infVars \/ phase = "idle"
    BY <1>1 DEF Next, Done, vars, Parse, PlaceSegment, InflateStep, Inflated, Finish, Load,
                Inflate
  <2> QED
    BY <1>1, <2>1, TurnCounts DEF InfInv
<1> QED
  BY <1>1, CallsAlways, PTL DEF Spec, EveryTurnCounts

(* And what it decodes, in every stream of every file, is the canonical    *)
(* code of the lengths that are in force there.                            *)
THEOREM ExtractDecodes == Spec => []DecodesCanonically
<1>1. InfInv => DecodesCanonically
  BY TablesDecode DEF InfInv
<1> QED
  BY <1>1, CallsAlways, PTL

--------------------------------------------------------------------------------
(* The host: what is loaded from the file.                                 *)

(* An address holds what the entries below n left there.                   *)
Holds(n, a) ==
  IF Over(n, a) = {} THEN mem[a] = Zero
  ELSE LET c == disk.cell[Offset(LastOver(Over(n, a)))]
       IN  mem[a] = IF a - c.vaddr < c.filesz THEN disk.cell[c.offset + (a - c.vaddr)] ELSE Zero

(* What was written for an entry is guest memory, unless a copy left it.   *)
Room(c) == overrun \/ InGuest(c.vaddr, Reach(c))

HostInv ==
  /\ stage # "none" => disk # NoFile
  /\ stage \in {"probed", "memory", "loading", "loaded", "failed"} => IsElf
  /\ stage \in {"memory", "loading", "loaded", "failed"} =>
       /\ memBase \in Nat /\ memSize \in Nat
       /\ DOMAIN mem = memBase .. memBase + memSize - 1
  /\ stage = "memory" => \A a \in DOMAIN mem : mem[a] = Zero
  /\ stage \in {"loading", "loaded", "failed"} =>
       /\ entry \in Nat /\ entry <= Header.phnum
       /\ \A a \in DOMAIN mem : Holds(entry, a)
       /\ \A i \in 0 .. entry - 1 :
            ~AtEnd(i) /\ Counted(disk.cell[Offset(i)]) => Room(disk.cell[Offset(i)])
  /\ stage = "loaded" => AtEnd(entry)
  /\ overrun => disk # NoFile
  /\ OverrunMeant

(* What the file has in its header.                                        *)
LEMMA HeaderIs ==
  ASSUME OutInv, disk # NoFile
  PROVE  /\ Size = file.elfSize /\ Size \in Nat /\ Header.tag = "ehdr"
         /\ Header.phoff \in Nat /\ Header.phnum \in Nat /\ Header.phentsize \in {0, 1}
<1>1. file \in Files /\ disk.size = file.elfSize /\ Header.tag = "ehdr" /\ Header \in {Ehdr, file.front}
  BY DEF OutInv, ImageDone, Header
<1>2. /\ file.phoff \in Nat /\ Phnum \in Nat /\ file.elfSize \in Nat /\ file.phentsize \in {0, 1}
      /\ file.front \in Front
  BY <1>1, FileType
<1>3. CASE Header = Ehdr
  BY <1>1, <1>2, <1>3 DEF Size, Ehdr
<1>4. CASE Header = file.front
  <2>1. Zero.tag # "ehdr"
    BY DEF Zero
  <2>2. Header \in [tag : {"ehdr"}, phoff : Nat, phentsize : {0, 1}, phnum : Nat]
    BY <1>1, <1>2, <1>4, <2>1 DEF Front
  <2> QED
    BY <1>1, <1>2, <2>2 DEF Size
<1> QED
  BY <1>1, <1>3, <1>4

(* Where the loop of walk looks. *)
LEMMA OffsetIs ==
  ASSUME OutInv, disk # NoFile, IsElf, NEW i \in Nat
  PROVE  Offset(i) = Header.phoff + i /\ Offset(i) \in Nat
<1>1. Header.phentsize = 1
  BY HeaderIs DEF IsElf
<1> QED
  BY <1>1, HeaderIs DEF Offset

(* A program header the loader finds is one of the module's.               *)
LEMMA PhdrIs ==
  ASSUME OutInv, disk # NoFile, IsElf, NEW i \in Nat, ~AtEnd(i), Counted(disk.cell[Offset(i)])
  PROVE  LET j == Offset(i) - file.phoff + 1
         IN  j \in 1 .. Phnum /\ disk.cell[Offset(i)] = file.ph[j]
<1> DEFINE c == Offset(i)
           j == Offset(i) - file.phoff + 1
<1>1. file \in Files /\ Image(disk.cell, m.segs)
  BY DEF OutInv, ImageDone
<1>2. file.phoff \in Nat /\ Phnum \in Nat /\ file.elfSize \in Nat
  BY <1>1, FileType
<1>3. c \in 0 .. file.elfSize - 1
  BY <1>2, OffsetIs, HeaderIs DEF AtEnd
<1>4. disk.cell[c].tag = "phdr"
  BY DEF Counted
<1>5. disk.cell[c] = HeaderCell(c)
  BY <1>1, <1>3, <1>4 DEF Image
<1> HIDE DEF c
<1>6. c \in file.phoff .. file.phoff + Phnum - 1
  BY <1>4, <1>5 DEF HeaderCell, Ehdr, Zero
<1>7. c - file.phoff + 1 \in 1 .. Phnum /\ disk.cell[c] = file.ph[c - file.phoff + 1]
  BY <1>2, <1>5, <1>6 DEF HeaderCell
<1> QED
  BY <1>7 DEF c

(* The loop of walk stops once. *)
LEMMA EndStays ==
  ASSUME OutInv, disk # NoFile, IsElf, NEW i \in Nat, NEW j \in Nat, i <= j, AtEnd(i)
  PROVE  AtEnd(j)
<1>1. Offset(i) = Header.phoff + i /\ Offset(j) = Header.phoff + j
  BY OffsetIs
<1> QED
  BY <1>1, HeaderIs DEF AtEnd

LEMMA OverNext ==
  ASSUME NEW n \in Nat, NEW a
  PROVE  Over(n + 1, a) =
           Over(n, a) \cup
           (IF ~AtEnd(n) /\ Counted(disk.cell[Offset(n)])
               /\ a \in disk.cell[Offset(n)].vaddr
                       .. disk.cell[Offset(n)].vaddr + Reach(disk.cell[Offset(n)]) - 1
              THEN {n} ELSE {})
<1>1. 0 .. (n + 1) - 1 = (0 .. n - 1) \cup {n}
  OBVIOUS
<1> QED
  BY <1>1 DEF Over

LEMMA OverSame ==
  ASSUME NEW n \in Nat, NEW a, NEW c, c = disk.cell[Offset(n)],
         ~Counted(c) \/ a \notin c.vaddr .. c.vaddr + Reach(c) - 1
  PROVE  Over(n + 1, a) = Over(n, a)
<1>1. 0 .. (n + 1) - 1 = (0 .. n - 1) \cup {n}
  OBVIOUS
<1> QED
  BY <1>1 DEF Over

LEMMA OverLast ==
  ASSUME NEW n \in Nat, NEW a, n \in Over(n + 1, a)
  PROVE  LastOver(Over(n + 1, a)) = n
<1>1. \A j \in Over(n + 1, a) : j <= n /\ j \in Nat
  BY DEF Over
<1> QED
  BY <1>1, LastOverProperty

--------------------------------------------------------------------------------
(* What depends on the file alone is as it was. *)
LEMMA DiskKept ==
  ASSUME disk' = disk
  PROVE  /\ IsElf' <=> IsElf
         /\ Header' = Header
         /\ \A i : Offset(i)' = Offset(i) /\ (AtEnd(i)' <=> AtEnd(i))
         /\ \A c : Counted(c)' <=> Counted(c)
         /\ \A n, a : Over(n, a)' = Over(n, a)
         /\ \A c : Reach(c)' = Reach(c)
  BY DEF IsElf, Size, Header, Offset, AtEnd, Counted, Over, Reach

LEMMA MeantKept ==
  ASSUME disk' = disk, overrun' = overrun, HostInv
  PROVE  OverrunMeant' /\ (overrun' => disk' # NoFile)
BY DiskKept DEF OverrunMeant, HostInv

LEMMA HostProbe ==
  ASSUME HostInv, Probe
  PROVE  HostInv'
<1>1. disk' = disk /\ stage = "file" /\ stage' \in {"probed", "unusable"}
  BY DEF Probe
<1>2. stage' = "probed" => IsElf
  BY DEF Probe, NoInfo
<1>3. IsElf' <=> IsElf
  BY <1>1 DEF IsElf, Size, Header
<1> QED
  BY <1>1, <1>2, <1>3, MeantKept DEF HostInv, Probe

LEMMA HostMemInit ==
  ASSUME HostInv, MemInit
  PROVE  HostInv'
<1>1. disk' = disk /\ stage = "probed" /\ stage' = "memory"
  BY DEF MemInit
<1>2. PICK r \in Region : /\ memBase' = r.base /\ memSize' = r.size
                          /\ mem' = [a \in r.base .. r.base + r.size - 1 |-> Zero]
  BY DEF MemInit
<1>3. r.base \in Nat /\ r.size \in Nat
  BY DEF Region, Addr
<1>4. IsElf'
  BY <1>1 DEF HostInv, IsElf, Size, Header
<1>5. OverrunMeant' /\ (overrun' => disk' # NoFile)
  BY MeantKept DEF MemInit
<1> QED
  BY <1>1, <1>2, <1>3, <1>4, <1>5 DEF HostInv

LEMMA HostLoadStart ==
  ASSUME OutInv, HostInv, LoadStart
  PROVE  HostInv'
<1>1. /\ disk' = disk /\ stage = "memory" /\ stage' = "loading" /\ entry' = 0
      /\ mem' = mem /\ memBase' = memBase /\ memSize' = memSize
  BY DEF LoadStart
<1>2. disk # NoFile /\ file \in Files
  BY <1>1 DEF OutInv, HostInv
<1>3. Header.phnum \in Nat
  BY <1>2, HeaderIs
<1>4. \A a : Over(0, a) = {}
  BY DEF Over
<1>5. \A a \in DOMAIN mem : Holds(0, a)'
  BY <1>1, <1>4, DiskKept DEF HostInv, Holds
<1>6. OverrunMeant' /\ (overrun' => disk' # NoFile)
  BY MeantKept DEF LoadStart
<1> QED
  BY <1>1, <1>3, <1>5, <1>6, DiskKept DEF HostInv, Holds

(* A copy that leaves memory is of more bytes than there was room asked for. *)
LEMMA LongCopy ==
  ASSUME OutInv, HostInv, stage = "loading", ~AtEnd(entry), disk' = disk,
         Counted(disk.cell[Offset(entry)]),
         InGuest(disk.cell[Offset(entry)].vaddr, disk.cell[Offset(entry)].memsz),
         \/ ~InGuest(disk.cell[Offset(entry)].vaddr, disk.cell[Offset(entry)].filesz)
         \/ overrun' => overrun
  PROVE  OverrunMeant'
<1> DEFINE c == disk.cell[Offset(entry)]
<1>1. /\ disk # NoFile /\ file \in Files /\ IsElf /\ entry \in Nat /\ OverrunMeant
      /\ memBase \in Nat /\ memSize \in Nat
  BY DEF OutInv, HostInv
<1>2. CASE overrun' => overrun
  BY <1>1, <1>2, DiskKept DEF OverrunMeant
<1>3. CASE ~InGuest(c.vaddr, c.filesz)
  <2>1. c.vaddr \in Nat /\ c.memsz \in Nat /\ c.filesz \in Nat
    BY <1>1, PhdrIs, FileType
  <2>2. c.filesz > c.memsz
    <3> HIDE DEF c
    <3>1. c.vaddr >= memBase /\ (c.vaddr - memBase) + c.memsz <= memSize
          /\ ~(c.vaddr >= memBase /\ (c.vaddr - memBase) + c.filesz <= memSize)
      BY <1>3 DEF InGuest, c
    <3> QED
      BY <1>1, <2>1, <3>1
  <2>3. entry \in 0 .. Header.phnum - 1
    BY <1>1, HeaderIs DEF AtEnd
  <2> QED
    BY <2>2, <2>3, DiskKept DEF OverrunMeant
<1> QED
  BY <1>2, <1>3

(* The next entry holds by itself, or none of what was there changes. *)
LEMMA EntryFilled ==
  ASSUME OutInv, HostInv, stage = "loading", ~AtEnd(entry), disk' = disk, entry' = entry + 1,
         Counted(disk.cell[Offset(entry)]), mem' = Filled(disk.cell[Offset(entry)])
  PROVE  DOMAIN mem' = DOMAIN mem /\ \A a \in DOMAIN mem : Holds(entry, a)'
<1> DEFINE c == disk.cell[Offset(entry)]
<1>1. /\ disk # NoFile /\ file \in Files /\ IsElf /\ entry \in Nat
      /\ DOMAIN mem = memBase .. memBase + memSize - 1 /\ memBase \in Nat /\ memSize \in Nat
      /\ \A a \in DOMAIN mem : Holds(entry, a)
  BY DEF OutInv, HostInv
<1>2. c.vaddr \in Nat /\ c.memsz \in Nat /\ c.filesz \in Nat
  BY <1>1, PhdrIs, FileType
<1>3. DOMAIN mem' = DOMAIN mem
  BY DEF Filled
<1>4. ASSUME NEW a \in DOMAIN mem
      PROVE  Holds(entry, a)'
  <2>1. mem'[a] = CASE a \in c.vaddr .. c.vaddr + c.filesz - 1 -> disk.cell[c.offset + (a - c.vaddr)]
                    [] a \in c.vaddr + c.filesz .. c.vaddr + c.memsz - 1 -> Zero
                    [] OTHER -> mem[a]
    BY DEF Filled
  <2>2. a \in Int
    BY <1>1
  <2>3. Over(entry, a)' = Over(entry + 1, a)
    BY DiskKept DEF Over, Reach
  <2>4. CASE a \in c.vaddr .. c.vaddr + Reach(c) - 1
    <3>1. entry \in Over(entry + 1, a)
      BY <1>1, <2>4, OverNext
    <3>2. LastOver(Over(entry + 1, a)) = entry /\ Over(entry + 1, a) # {}
      BY <1>1, <3>1, OverLast
    <3> HIDE DEF c
    <3>3. mem'[a] = IF a - c.vaddr < c.filesz THEN disk.cell[c.offset + (a - c.vaddr)] ELSE Zero
      BY <1>2, <2>1, <2>2, <2>4 DEF Reach
    <3> QED
      BY <2>3, <3>2, <3>3, DiskKept DEF Holds, LastOver, c
  <2>5. CASE a \notin c.vaddr .. c.vaddr + Reach(c) - 1
    <3>1. Over(entry + 1, a) = Over(entry, a)
      BY <1>1, <2>5, OverSame
    <3> HIDE DEF c
    <3>2. mem'[a] = mem[a]
      BY <1>2, <2>1, <2>2, <2>5 DEF Reach
    <3>3. Holds(entry, a)
      BY <1>1
    <3> QED
      BY SMTT(30), <2>3, <3>1, <3>2, <3>3, DiskKept DEF Holds
  <2> QED
    BY <2>4, <2>5
<1> QED
  BY <1>3, <1>4

LEMMA HostLoadEntry ==
  ASSUME OutInv, HostInv, LoadEntry
  PROVE  HostInv'
<1> DEFINE c == disk.cell[Offset(entry)]
<1>1. /\ disk' = disk /\ stage = "loading" /\ ~AtEnd(entry)
      /\ memBase' = memBase /\ memSize' = memSize
  BY DEF LoadEntry
<1>2. disk # NoFile /\ file \in Files /\ IsElf /\ IsElf'
  BY <1>1, DiskKept DEF OutInv, HostInv
<1>3. /\ memBase \in Nat /\ memSize \in Nat
      /\ DOMAIN mem = memBase .. memBase + memSize - 1
      /\ entry \in Nat
      /\ \A a \in DOMAIN mem : Holds(entry, a)
      /\ \A i \in 0 .. entry - 1 :
           ~AtEnd(i) /\ Counted(disk.cell[Offset(i)]) => Room(disk.cell[Offset(i)])
      /\ OverrunMeant
  BY <1>1 DEF HostInv
<1>4. Header.phnum \in Nat /\ entry + 1 <= Header.phnum
  BY <1>1, <1>2, <1>3, HeaderIs DEF AtEnd
<1>5. ASSUME NEW x, Room(x), overrun => overrun'
      PROVE  Room(x)'
  BY <1>1, <1>5 DEF Room, InGuest, Reach
(* The loop goes on. *)
<1>6. ASSUME entry' = entry + 1, stage' = stage, DOMAIN mem' = DOMAIN mem,
             \A a \in DOMAIN mem : Holds(entry, a)',
             overrun => overrun',
             Counted(c) => overrun' \/ InGuest(c.vaddr, Reach(c)), OverrunMeant'
      PROVE  HostInv'
  <2>1. \A i \in 0 .. entry : i \in 0 .. entry - 1 \/ i = entry
    BY <1>3
  <2>2. entry' \in Nat /\ 0 .. entry' - 1 = 0 .. entry
    BY <1>3, <1>6
  <2>3. ASSUME NEW i \in 0 .. entry, ~AtEnd(i), Counted(disk.cell[Offset(i)])
        PROVE  Room(disk.cell[Offset(i)])'
    <3>1. CASE i = entry
      <4> DEFINE x == disk.cell[Offset(i)]
      <4>1. overrun' \/ InGuest(x.vaddr, Reach(x))
        BY <1>6, <2>3, <3>1
      <4>2. x' = x
        BY <1>1, DiskKept
      <4> HIDE DEF x
      <4>3. Room(x)'
        BY <1>1, <4>1, <4>2 DEF Room, InGuest, Reach
      <4> QED
        BY <4>3 DEF x
    <3>2. CASE i \in 0 .. entry - 1
      <4> DEFINE x == disk.cell[Offset(i)]
      <4>1. Room(x)
        BY <1>3, <2>3, <3>2
      <4>2. x' = x
        BY <1>1, DiskKept
      <4> HIDE DEF x
      <4>3. Room(x)'
        BY <1>1, <1>6, <4>1, <4>2 DEF Room, InGuest, Reach
      <4> QED
        BY <4>3 DEF x
    <3> QED
      BY <2>1, <3>1, <3>2
  <2>4. \A i \in 0 .. entry' - 1 : (~AtEnd(i) /\ Counted(disk.cell[Offset(i)]) => Room(disk.cell[Offset(i)]))'
    BY <1>1, <2>2, <2>3, DiskKept
  <2> HIDE DEF c
  <2> QED
    BY <1>1, <1>2, <1>3, <1>4, <1>6, <2>2, <2>4, DiskKept DEF HostInv
<1>7. CASE ~Counted(c) /\ entry' = entry + 1 /\ UNCHANGED << stage, info, mem, overrun >>
  <2>1. ASSUME NEW a
        PROVE  Over(entry + 1, a) = Over(entry, a)
    BY <1>3, <1>7, OverSame
  <2>2. \A a \in DOMAIN mem : Holds(entry, a)'
    BY <1>1, <1>3, <1>7, <2>1, DiskKept DEF Holds
  <2>3. OverrunMeant'
    BY <1>1, <1>7, MeantKept
  <2> HIDE DEF c
  <2> QED
    BY <1>6, <1>7, <2>2, <2>3
<1>8. CASE /\ Counted(c) /\ InGuest(c.vaddr, c.memsz)
           /\ mem' = Filled(c) /\ entry' = entry + 1 /\ stage' = stage
           /\ overrun' = (overrun \/ ~InGuest(c.vaddr, c.filesz))
  <2>1. DOMAIN mem' = DOMAIN mem /\ \A a \in DOMAIN mem : Holds(entry, a)'
    BY <1>1, <1>8, EntryFilled
  <2>2. overrun => overrun'
    BY <1>8
  <2>3. overrun' \/ InGuest(c.vaddr, Reach(c))
    BY <1>8, Zenon DEF Reach
  <2>4. OverrunMeant'
    <3>1. (overrun' => overrun) \/ ~InGuest(c.vaddr, c.filesz)
      BY <1>8, Zenon
    <3> HIDE DEF c
    <3>2. Counted(c) /\ InGuest(c.vaddr, c.memsz)
      BY <1>8
    <3> QED
      BY <1>1, <3>1, <3>2, LongCopy DEF c
  <2> HIDE DEF c
  <2> QED
    BY <1>6, <1>8, <2>1, <2>2, <2>3, <2>4
<1>9. CASE stage' = "failed" /\ UNCHANGED << mem, entry, overrun >>
  <2>1. \A a \in DOMAIN mem : Holds(entry, a)'
    BY <1>1, <1>3, <1>9, DiskKept DEF Holds
  <2>2. \A i \in 0 .. entry - 1 : (~AtEnd(i) /\ Counted(disk.cell[Offset(i)]) => Room(disk.cell[Offset(i)]))'
    BY <1>1, <1>3, <1>9, DiskKept DEF Room, InGuest
  <2>3. entry' <= Header'.phnum
    BY <1>1, <1>3, <1>4, <1>9, DiskKept
  <2> HIDE DEF c
  <2> QED
    BY <1>1, <1>2, <1>3, <1>9, <2>1, <2>2, <2>3, DiskKept, MeantKept DEF HostInv
<1>10. CASE /\ Counted(c) /\ InGuest(c.vaddr, c.memsz) /\ ~InGuest(c.vaddr, c.filesz)
            /\ stage' = "killed"
  <2>1. OverrunMeant'
    BY <1>1, <1>2, <1>3, <1>10, LongCopy
  <2> QED
    BY <1>1, <1>2, <1>10, <2>1 DEF HostInv
<1> HIDE DEF c
<1> QED
  BY <1>7, <1>8, <1>9, <1>10 DEF LoadEntry, c

LEMMA HostLoadEnd ==
  ASSUME HostInv, LoadEnd
  PROVE  HostInv'
<1>1. /\ disk' = disk /\ stage = "loading" /\ AtEnd(entry) /\ stage' \in {"loaded", "failed"}
      /\ UNCHANGED << probed, info, entry, memBase, memSize, mem, overrun >>
  BY DEF LoadEnd
<1>2. \A a \in DOMAIN mem : Holds(entry, a)'
  BY <1>1, DiskKept DEF HostInv, Holds
<1>3. \A i \in 0 .. entry - 1 : (~AtEnd(i) /\ Counted(disk.cell[Offset(i)]) => Room(disk.cell[Offset(i)]))'
  BY <1>1, DiskKept DEF HostInv, Room, InGuest
<1> QED
  BY <1>1, <1>2, <1>3, DiskKept, MeantKept DEF HostInv

LEMMA HostFinish ==
  ASSUME OutInv, HostInv, Finish
  PROVE  HostInv'
<1> DEFINE others == << file, m, k, out, stray, infVars, probed, info, entry,
                        memBase, memSize, mem, overrun >>
<1>1. pc = "segments" /\ UNCHANGED others
  BY Zenon DEF Finish
<1>2. pc # "exit" /\ overrun' = overrun
  BY <1>1
<1>3. disk = NoFile /\ stage = "none"
  BY <1>2, Zenon DEF OutInv
<1>4. ~overrun
  BY <1>3, Zenon DEF HostInv
<1>5. ~overrun'
  BY <1>2, <1>4, Zenon
<1>6. CASE stage' = stage
  BY <1>3, <1>5, <1>6 DEF HostInv, OverrunMeant
<1>7. CASE disk' = [size |-> file.elfSize, head |-> FrontOf, cell |-> out] /\ stage' = "file"
  <2>1. DOMAIN disk' # DOMAIN NoFile
    BY <1>7 DEF NoFile
  <2> QED
    BY <1>5, <1>7, <2>1 DEF HostInv, OverrunMeant
<1> HIDE DEF others
<1> QED
  BY <1>6, <1>7 DEF Finish

LEMMA HostStutter ==
  ASSUME HostInv, UNCHANGED loadVars
  PROVE  HostInv'
<1>1. /\ disk' = disk /\ stage' = stage /\ entry' = entry /\ mem' = mem
      /\ memBase' = memBase /\ memSize' = memSize /\ overrun' = overrun
  BY DEF loadVars
<1>2. \A a : Holds(entry, a)' <=> Holds(entry, a)
  BY <1>1, DiskKept DEF Holds
<1>3. \A i : (~AtEnd(i) /\ Counted(disk.cell[Offset(i)]) => Room(disk.cell[Offset(i)]))'
             <=> (~AtEnd(i) /\ Counted(disk.cell[Offset(i)]) => Room(disk.cell[Offset(i)]))
  BY <1>1, DiskKept DEF Room, InGuest
<1> QED
  BY <1>1, <1>2, <1>3, DiskKept, MeantKept DEF HostInv

LEMMA HostNext ==
  ASSUME OutInv, HostInv, [Next]_vars
  PROVE  HostInv'
<1>1. UNCHANGED loadVars \/ Finish \/ LoadNext
  BY DEF Next, Done, vars, Parse, PlaceSegment, InflateStep, Inflated, Load
<1> QED
  BY <1>1, HostStutter, HostFinish, HostProbe, HostMemInit, HostLoadStart, HostLoadEntry,
     HostLoadEnd DEF LoadNext

LEMMA Always == Spec => [](OutInv /\ HostInv)
<1>1. Init => HostInv
  BY DEF Init, LoadInit, HostInv, OverrunMeant
<1>2. OutInv /\ HostInv /\ [Next]_vars => HostInv'
  BY HostNext
<1> QED
  BY <1>1, <1>2, OutAlways, PTL DEF Spec

--------------------------------------------------------------------------------
(* What a loaded memory holds.                                             *)

LEMMA LoadedImage ==
  ASSUME HostInv, stage \in {"loading", "loaded", "failed"}
  PROVE  ImageLoaded
BY DEF HostInv, Holds, ImageLoaded

LEMMA SegmentLoaded ==
  ASSUME OutInv, HostInv, stage = "loaded", ~overrun, NEW i \in 1 .. m.segs,
         file.ph[i].load, file.ph[i].offset + file.ph[i].filesz <= file.elfSize, HeaderKept(i),
         \A j \in 1 .. Phnum \ {i} : Apart(i, j),
         NEW b \in 0 .. Reach(file.ph[i]) - 1
  PROVE  LET c == mem[file.ph[i].vaddr + b]
         IN  IF b < file.ph[i].filesz
               THEN c.tag = "data" /\ c.segment = i /\ c.byte = b
               ELSE c = Zero
<1> DEFINE h == file.ph[i]
           e == i - 1
           a == h.vaddr + b
<1>1. /\ disk # NoFile /\ IsElf /\ file \in Files /\ m.segs \in Nat /\ m.segs <= Phnum
      /\ disk.size = file.elfSize /\ Image(disk.cell, m.segs)
      /\ entry \in Nat /\ entry <= Header.phnum /\ AtEnd(entry)
  BY DEF HostInv, OutInv, ImageDone
<1>2. /\ file.phoff \in Nat /\ Phnum \in Nat /\ file.elfSize \in Nat
      /\ Header.phnum = Phnum /\ Size = file.elfSize
      /\ \A j \in Nat : Offset(j) = file.phoff + j
  <2>1. Header.phoff = file.phoff /\ Header.phnum = Phnum
    BY DEF HeaderKept, Header, Ehdr
  <2> QED
    BY <1>1, <2>1, OffsetIs, HeaderIs, FileType
<1>3. i \in 1 .. Phnum /\ e \in Nat /\ e + 1 = i
  BY <1>1, <1>2
<1>4. /\ h.tag = "phdr" /\ h.offset \in Nat /\ h.vaddr \in Nat /\ h.filesz \in Nat
      /\ h.memsz \in Nat /\ Reach(h) \in Nat /\ h.filesz <= Reach(h)
      /\ b \in Nat /\ b < Reach(h)
  <2>1. /\ h.tag = "phdr" /\ h.offset \in Nat /\ h.vaddr \in Nat /\ h.filesz \in Nat
        /\ h.memsz \in Nat
    BY <1>1, <1>3, FileType
  <2>2. Reach(h) \in Nat /\ h.filesz <= Reach(h)
    <3> HIDE DEF h
    <3> QED
      BY <2>1 DEF Reach
  <2> QED
    BY <2>1, <2>2
(* Its entry is in the file, is counted, and was loaded. *)
<1>5. ~AtEnd(e) /\ Offset(e) = file.phoff + e /\ file.phoff + e \in 0 .. file.elfSize - 1
  <2>1. file.phoff + Phnum <= file.elfSize
    BY <1>1 DEF OutInv
  <2>2. Offset(e) = file.phoff + e
    BY <1>2, <1>3
  <2> HIDE DEF e
  <2> QED
    BY <1>2, <1>3, <2>1, <2>2 DEF AtEnd
<1>6. disk.cell[Offset(e)] = h
  <2> DEFINE p == file.phoff + e
  <2>1. p = file.phoff + i - 1 /\ p \in file.phoff .. file.phoff + Phnum - 1 /\ p - file.phoff + 1 = i
    BY <1>2, <1>3
  <2>2. Placed(m.segs, p) = {}
    BY <2>1 DEF HeaderKept
  <2> HIDE DEF p
  <2>3. p \in 0 .. file.elfSize - 1
    BY <1>5 DEF p
  <2>4. disk.cell[p] = HeaderCell(p)
    BY <1>1, <2>2, <2>3 DEF Image
  <2> QED
    BY <1>5, <2>1, <2>4 DEF HeaderCell, p
<1>7. Counted(disk.cell[Offset(e)])
  BY <1>2, <1>4, <1>6 DEF Counted
<1>8. e \in 0 .. entry - 1
  <2> HIDE DEF e
  <2>1. SUFFICES ASSUME ~(e < entry) PROVE FALSE
    BY <1>1, <1>3
  <2>2. entry <= e
    BY <1>1, <1>3, <2>1
  <2> QED
    BY <1>1, <1>3, <1>5, <2>2, EndStays
<1>9. a \in DOMAIN mem
  <2>1. /\ memBase \in Nat /\ memSize \in Nat /\ DOMAIN mem = memBase .. memBase + memSize - 1
        /\ InGuest(h.vaddr, Reach(h))
    BY <1>5, <1>6, <1>7, <1>8 DEF HostInv, Room
  <2>2. h.vaddr >= memBase /\ (h.vaddr - memBase) + Reach(h) <= memSize
    BY <2>1 DEF InGuest
  <2> DEFINE v == h.vaddr
             w == Reach(h)
  <2>3. v \in Nat /\ w \in Nat /\ b \in Nat /\ b < w /\ v >= memBase
        /\ (v - memBase) + w <= memSize /\ memBase \in Nat /\ memSize \in Nat
    BY <1>4, <2>1, <2>2
  <2>4. a = v + b
    OBVIOUS
  <2> HIDE DEF h, v, w, a
  <2>5. a \in memBase .. memBase + memSize - 1
    BY <2>3, <2>4
  <2> QED
    BY <2>1, <2>5
(* No other entry reaches it. *)
<1>10. e \in Over(entry, a)
  <2>1. a \in h.vaddr .. h.vaddr + Reach(h) - 1
    <3> HIDE DEF h
    <3> QED
      BY <1>4
  <2> HIDE DEF h, e, a
  <2> QED
    BY <1>5, <1>6, <1>7, <1>8, <2>1 DEF Over
<1>11. ASSUME NEW j \in Over(entry, a)
       PROVE  j = e
  <2>1. j \in Nat /\ ~AtEnd(j) /\ Counted(disk.cell[Offset(j)])
    BY <1>1 DEF Over
  <2>2. j + 1 \in 1 .. Phnum /\ disk.cell[Offset(j)] = file.ph[j + 1]
    <3>1. Offset(j) - file.phoff + 1 = j + 1
      BY <1>2, <2>1
    <3> QED
      BY <1>1, <2>1, <3>1, PhdrIs
  <2> DEFINE g == file.ph[j + 1]
  <2>3. a \in g.vaddr .. g.vaddr + Reach(g) - 1
    BY <2>2 DEF Over
  <2>4. g.vaddr \in Nat /\ Reach(g) \in Nat
    <3>1. g.vaddr \in Nat /\ g.filesz \in Nat /\ g.memsz \in Nat
      BY <1>1, <2>2, FileType
    <3> HIDE DEF g
    <3> QED
      BY <3>1 DEF Reach
  <2>5. SUFFICES ASSUME j # e PROVE FALSE
    OBVIOUS
  <2>6. j + 1 # i
    BY <1>3, <2>1, <2>5
  <2>7. h.vaddr + Reach(h) <= g.vaddr \/ g.vaddr + Reach(g) <= h.vaddr
    BY <2>2, <2>6 DEF Apart
  <2> HIDE DEF g, h
  <2> QED
    BY <1>4, <2>3, <2>4, <2>7
<1>12. Over(entry, a) = {e} /\ LastOver(Over(entry, a)) = e
  <2>1. Over(entry, a) = {e}
    BY <1>10, <1>11
  <2> HIDE DEF e, a
  <2>2. LastOver(Over(entry, a)) = e
    BY <1>3, <2>1, LastOverProperty
  <2> QED
    BY <2>1, <2>2
<1>13. mem[a] = IF b < h.filesz THEN disk.cell[h.offset + b] ELSE Zero
  <2>1. Holds(entry, a)
    BY <1>9 DEF HostInv
  <2>2. a - h.vaddr = b
    <3> HIDE DEF h
    <3> QED
      BY <1>4
  <2> HIDE DEF h, e, a
  <2> QED
    BY <1>6, <1>12, <2>1, <2>2 DEF Holds
<1>14. CASE b < h.filesz
  <2> DEFINE p == h.offset + b
  <2>1. p \in 0 .. file.elfSize - 1 /\ p - h.offset = b /\ p \in h.offset .. h.offset + h.filesz - 1
    <3>1. h.offset + h.filesz <= file.elfSize
      OBVIOUS
    <3> HIDE DEF h
    <3> QED
      BY <1>2, <1>4, <1>14, <3>1
  <2>2. ASSUME NEW j \in Placed(m.segs, p)
        PROVE  j = i
    <3> DEFINE g == file.ph[j]
    <3>1. j \in 1 .. Phnum /\ p \in g.offset .. g.offset + g.filesz - 1
      BY <1>1, <1>2 DEF Placed
    <3>2. g.offset \in Nat /\ g.filesz \in Nat
      BY <1>1, <3>1, FileType
    <3>3. SUFFICES ASSUME j # i PROVE FALSE
      OBVIOUS
    <3>4. h.offset + h.filesz <= g.offset \/ g.offset + g.filesz <= h.offset
      BY <3>1, <3>3 DEF Apart
    <3> HIDE DEF g, h, p
    <3> QED
      BY <1>4, <2>1, <3>1, <3>2, <3>4
  <2>3. i \in Placed(m.segs, p)
    BY <2>1 DEF Placed
  <2>4. Placed(m.segs, p) = {i}
    BY <2>2, <2>3
  <2>5. LastOver(Placed(m.segs, p)) = i
    <3>1. \A j \in Placed(m.segs, p) : j <= i /\ j \in Nat
      BY <1>2, <1>3, <2>4
    <3> QED
      BY <2>3, <3>1, LastOverProperty
  <2> HIDE DEF p
  <2>6. disk.cell[p].tag = "data" /\ disk.cell[p].segment = i /\ disk.cell[p].byte = p - h.offset
    BY <1>1, <2>1, <2>4, <2>5 DEF Image
  <2>7. mem[a] = disk.cell[p]
    BY <1>13, <1>14 DEF p
  <2> HIDE DEF a
  <2>8. mem[a].tag = "data" /\ mem[a].segment = i /\ mem[a].byte = b
    BY <2>1, <2>6, <2>7
  <2> QED
    BY <1>14, <2>8 DEF a
<1>15. CASE ~(b < h.filesz)
  BY <1>13, <1>15
<1> QED
  BY <1>14, <1>15

(* Extraction and loading together, for every file, also one with more     *)
(* bytes in a segment than memory for it: while the load runs, when it     *)
(* fails and when it is done, guest memory holds the last entry done over  *)
(* each address and nothing else, and then a segment that shares no place  *)
(* its own bytes and zeroes; a copy leaves guest memory only for a segment *)
(* with filesz above memsz (cmd_extract, then vita_load_elf).              *)
THEOREM GuestLoaded == Spec => []GuestImage
<1>1. OutInv /\ HostInv => GuestImage
  <2> SUFFICES ASSUME OutInv, HostInv PROVE GuestImage
    OBVIOUS
  <2>1. stage \in {"loading", "loaded", "failed"} => ImageLoaded
    BY LoadedImage
  <2>2. OverrunMeant
    BY DEF HostInv
  <2> QED
    BY <2>1, <2>2, SegmentLoaded DEF GuestImage
<1> QED
  BY <1>1, Always, PTL

--------------------------------------------------------------------------------
(* The two uses of walk.  A walk of the program headers is a function of   *)
(* how many were passed: the probe goes to its end, and the load holds at  *)
(* every entry what the probe held there.                                  *)

Turn(i, x) ==
  IF AtEnd(i) \/ ~Counted(disk.cell[Offset(i)]) THEN x ELSE Count(x, disk.cell[Offset(i)])

Walks(w) ==
  /\ w[0] = NoInfo
  /\ \A i \in 1 .. Header.phnum : w[i] = Turn(i - 1, w[i - 1])

Measures == [lowest : Addr, highest : Addr, segments : Nat]

LEMMA PhdrType ==
  ASSUME OutInv, disk # NoFile, IsElf, NEW i \in Nat, ~AtEnd(i), Counted(disk.cell[Offset(i)])
  PROVE  disk.cell[Offset(i)].vaddr \in Addr /\ disk.cell[Offset(i)].memsz \in Nat
<1>1. file \in Files
  BY DEF OutInv
<1> DEFINE j == Offset(i) - file.phoff + 1
<1>2. j \in 1 .. Phnum /\ disk.cell[Offset(i)] = file.ph[j]
  BY PhdrIs
<1>3. file.ph[j] \in Phdr
  BY <1>1, <1>2, FileType
<1> QED
  BY <1>2, <1>3 DEF Phdr

(* One turn keeps the types, and measures the segment it counts. *)
LEMMA TurnMeasures ==
  ASSUME OutInv, disk # NoFile, IsElf, NEW i \in Nat, NEW x \in Measures
  PROVE  /\ Turn(i, x) \in Measures
         /\ Turn(i, x).lowest <= x.lowest /\ x.highest <= Turn(i, x).highest
         /\ ~AtEnd(i) /\ Counted(disk.cell[Offset(i)]) =>
              LET c == disk.cell[Offset(i)]
              IN  /\ Turn(i, x).lowest <= c.vaddr
                  /\ (c.vaddr + c.memsz) % AddrSpace <= Turn(i, x).highest
<1> DEFINE c == disk.cell[Offset(i)]
           y == Turn(i, x)
           v == c.vaddr
           top == (v + c.memsz) % AddrSpace
<1>1. x.lowest \in Addr /\ x.highest \in Addr /\ x.segments \in Nat /\ Addr \subseteq Nat
      /\ x.lowest \in Nat /\ x.highest \in Nat
  <2>1. x.lowest \in Addr /\ x.highest \in Addr /\ x.segments \in Nat
    BY DEF Measures
  <2>2. Addr \subseteq Nat
    BY DEF Addr
  <2> QED
    BY <2>1, <2>2
<1>2. CASE ~AtEnd(i) /\ Counted(c)
  <2>1. v \in Addr /\ c.memsz \in Nat
    BY <1>2, PhdrType
  <2>2. v \in Nat /\ v + c.memsz \in Nat
    <3>1. v \in Nat
      BY <1>1, <2>1
    <3> HIDE DEF v
    <3> QED
      BY <2>1, <3>1
  <2>3. top \in Addr /\ top \in Nat
    <3> DEFINE s == v + c.memsz
    <3>1. s \in Nat
      BY <2>2
    <3> HIDE DEF s
    <3>2. s % AddrSpace \in 0 .. AddrSpace - 1
      BY <3>1
    <3> QED
      BY <3>2 DEF Addr, s
  <2>4. y = [lowest   |-> IF v < x.lowest THEN v ELSE x.lowest,
             highest  |-> IF top > x.highest THEN top ELSE x.highest,
             segments |-> x.segments + 1]
    BY <1>2 DEF Turn, Count
  <2> HIDE DEF y, v, top, c
  <2>5. /\ y.lowest = IF v < x.lowest THEN v ELSE x.lowest
        /\ y.highest = IF top > x.highest THEN top ELSE x.highest
        /\ y.segments = x.segments + 1
    BY <2>4
  <2>6. y.lowest \in Addr /\ y.highest \in Addr /\ y.segments \in Nat
    BY <1>1, <2>1, <2>3, <2>5
  <2>7. y \in Measures
    BY <2>4, <2>5, <2>6 DEF Measures
  <2>8. y.lowest <= x.lowest /\ x.highest <= y.highest /\ y.lowest <= v /\ top <= y.highest
    BY <1>1, <2>2, <2>3, <2>5
  <2> QED
    BY <2>7, <2>8 DEF y, v, top, c
<1>3. CASE AtEnd(i) \/ ~Counted(c)
  <2>1. y = x
    BY <1>3 DEF Turn
  <2> HIDE DEF y
  <2>2. y \in Measures /\ y.lowest <= x.lowest /\ x.highest <= y.highest
    BY <1>1, <2>1
  <2> QED
    BY <1>3, <2>2 DEF y
<1> HIDE DEF c
<1> QED
  BY <1>2, <1>3 DEF c

LEMMA NoInfoType == NoInfo \in Measures
  BY DEF NoInfo, Measures, Addr

LEMMA WalkType ==
  ASSUME OutInv, disk # NoFile, IsElf, NEW w, Walks(w)
  PROVE  /\ Header.phnum \in Nat
         /\ \A i \in 0 .. Header.phnum : w[i] \in Measures
<1>1. Header.phnum \in Nat
  BY HeaderIs
<1> DEFINE n == Header.phnum
           T == { i \in Nat : i <= n => w[i] \in Measures }
<1>2. 0 \in T
  BY NoInfoType DEF Walks
<1>3. ASSUME NEW i \in Nat, i \in T
      PROVE  i + 1 \in T
  <2> SUFFICES ASSUME i + 1 <= n PROVE w[i + 1] \in Measures
    OBVIOUS
  <2>1. i + 1 \in 1 .. n /\ (i + 1) - 1 = i /\ i <= n
    BY <1>1
  <2>2. w[i] \in Measures
    BY <1>3, <2>1
  <2>3. w[i + 1] = Turn(i, w[i])
    BY <2>1 DEF Walks
  <2> QED
    BY <2>2, <2>3, TurnMeasures
<1>4. Nat \subseteq T
  <2> HIDE DEF T
  <2> QED
    BY <1>2, <1>3, SetInduction
<1> QED
  BY <1>1, <1>4

(* Where no segment wraps, a walk has measured what it has counted.        *)
Within(x, j) ==
  LET c == disk.cell[Offset(j)]
  IN  ~AtEnd(j) /\ Counted(c) => x.lowest <= c.vaddr /\ c.vaddr + c.memsz <= x.highest

LEMMA WalkMeasures ==
  ASSUME OutInv, disk # NoFile, IsElf, NEW w, Walks(w), ~Wraps
  PROVE  \A i \in 0 .. Header.phnum : \A j \in 0 .. i - 1 : Within(w[i], j)
<1> DEFINE n == Header.phnum
           T == { i \in Nat : i <= n => \A j \in 0 .. i - 1 : Within(w[i], j) }
<1>1. n \in Nat /\ \A i \in 0 .. n : w[i] \in Measures
  BY WalkType
<1>2. 0 \in T
  OBVIOUS
<1>3. ASSUME NEW i \in Nat, i \in T
      PROVE  i + 1 \in T
  <2> SUFFICES ASSUME i + 1 <= n, NEW j \in 0 .. i
               PROVE  Within(w[i + 1], j)
    BY <1>3
  <2>1. i + 1 \in 1 .. n /\ (i + 1) - 1 = i /\ i <= n /\ i \in 0 .. n /\ i + 1 \in 0 .. n
    BY <1>1
  <2> DEFINE x == w[i]
             y == w[i + 1]
             c == disk.cell[Offset(j)]
  <2>2. x \in Measures /\ y \in Measures
    BY <1>1, <2>1
  <2>3. y = Turn(i, x)
    BY <2>1 DEF Walks
  <2> SUFFICES ASSUME ~AtEnd(j), Counted(c)
               PROVE  y.lowest <= c.vaddr /\ c.vaddr + c.memsz <= y.highest
    BY DEF Within
  <2>4. c.vaddr \in Addr /\ c.memsz \in Nat
    BY PhdrType
  <2>5. x.lowest \in Nat /\ x.highest \in Nat /\ y.lowest \in Nat /\ y.highest \in Nat
    BY <2>2 DEF Measures, Addr
  <2>6. y.lowest <= x.lowest /\ x.highest <= y.highest
    BY <2>2, <2>3, TurnMeasures
  <2>7. CASE j = i
    <3>1. /\ y.lowest <= c.vaddr
          /\ (c.vaddr + c.memsz) % AddrSpace <= y.highest
      BY <2>2, <2>3, <2>7, TurnMeasures
    <3>2. ~(c.vaddr + c.memsz >= AddrSpace)
      <4>1. j \in 0 .. Header.phnum - 1
        BY <1>1
      <4> QED
        BY <4>1 DEF Wraps
    <3> DEFINE s == c.vaddr + c.memsz
    <3>3. s \in Nat /\ s < AddrSpace
      <4>1. c.vaddr \in Nat
        BY <2>4 DEF Addr
      <4> HIDE DEF c
      <4> QED
        BY <2>4, <3>2, <4>1
    <3>4. s % AddrSpace = s
      <4> HIDE DEF s
      <4> QED
        BY <3>3
    <3> QED
      BY <3>1, <3>4
  <2>8. CASE j # i
    <3>1. j \in 0 .. i - 1
      BY <2>8
    <3>2. Within(x, j)
      BY <1>3, <2>1, <3>1
    <3>3. x.lowest <= c.vaddr /\ c.vaddr + c.memsz <= x.highest
      BY <3>2 DEF Within
    <3>4. c.vaddr \in Nat
      BY <2>4 DEF Addr
    <3> HIDE DEF c, x, y
    <3> QED
      BY <2>4, <2>5, <2>6, <3>3, <3>4
  <2> QED
    BY <2>7, <2>8
<1>4. Nat \subseteq T
  <2> HIDE DEF T
  <2> QED
    BY <1>2, <1>3, SetInduction
<1> QED
  BY <1>1, <1>4

(* Nothing is measured after the loop has broken off. *)
LEMMA WalkEnds ==
  ASSUME OutInv, disk # NoFile, IsElf, NEW w, Walks(w),
         NEW e \in 0 .. Header.phnum, AtEnd(e)
  PROVE  w[Header.phnum] = w[e]
<1> DEFINE n == Header.phnum
           T == { i \in Nat : e + i <= n => w[e + i] = w[e] }
<1>1. n \in Nat
  BY WalkType
<1>2. 0 \in T
  OBVIOUS
<1>3. ASSUME NEW i \in Nat, i \in T
      PROVE  i + 1 \in T
  <2> SUFFICES ASSUME e + (i + 1) <= n PROVE w[e + (i + 1)] = w[e]
    OBVIOUS
  <2> DEFINE j == e + i
  <2>1. j \in Nat /\ e \in Nat /\ e <= j /\ e + (i + 1) = j + 1 /\ j + 1 \in 1 .. n
        /\ (j + 1) - 1 = j /\ j <= n
    BY <1>1
  <2>2. w[j] = w[e]
    BY <1>3, <2>1
  <2> HIDE DEF j
  <2>3. AtEnd(j)
    BY <2>1, EndStays
  <2>4. w[j + 1] = Turn(j, w[j])
    BY <2>1 DEF Walks
  <2>5. Turn(j, w[j]) = w[j]
    BY <2>3 DEF Turn
  <2> QED
    BY <2>1, <2>2, <2>4, <2>5
<1> DEFINE d == n - e
<1>4. d \in Nat /\ e + d = n
  BY <1>1
<1>5. d \in T
  <2>1. Nat \subseteq T
    <3> HIDE DEF T
    <3> QED
      BY <1>2, <1>3, SetInduction
  <2> HIDE DEF d, T
  <2> QED
    BY <1>4, <2>1
<1> QED
  BY <1>1, <1>4, <1>5

LEMMA WalkExists ==
  ASSUME OutInv, disk # NoFile, IsElf
  PROVE  \E w : w = [i \in 0 .. Header.phnum |-> IF i = 0 THEN NoInfo ELSE Turn(i - 1, w[i - 1])]
<1> DEFINE n == Header.phnum
           step == [i \in Nat |-> [x \in Measures |->
                      IF i \in 1 .. n THEN Turn(i - 1, x) ELSE x]]
<1>1. n \in Nat
  BY HeaderIs
<1>2. ASSUME NEW i \in 1 .. n, NEW x \in Measures
      PROVE  Turn(i - 1, x) \in Measures
  <2>1. i - 1 \in Nat
    BY <1>1
  <2> QED
    BY <2>1, TurnMeasures
<1>3. step \in [Nat -> [Measures -> Measures]]
  BY <1>2
<1>4. \A i \in 1 .. n, x \in Measures : step[i][x] = Turn(i - 1, x)
  BY <1>1
<1> HIDE DEF step
<1>5. PICK g : Recurses(g, Measures, NoInfo, step, n)
  <2> HIDE DEF n
  <2> QED
    BY <1>1, <1>3, NoInfoType, Recursion, Zenon
<1>6. /\ g \in [0 .. n -> Measures] /\ g[0] = NoInfo
      /\ \A i \in 1 .. n : g[i] = step[i][g[i - 1]]
  BY <1>5 DEF Recurses
<1>7. ASSUME NEW i \in 1 .. n
      PROVE  g[i] = Turn(i - 1, g[i - 1])
  <2>1. i - 1 \in 0 .. n
    BY <1>1
  <2>2. g[i - 1] \in Measures
    BY <1>6, <2>1
  <2> QED
    BY <1>4, <1>6, <2>2
<1>8. g = [i \in 0 .. n |-> IF i = 0 THEN NoInfo ELSE Turn(i - 1, g[i - 1])]
  <2>1. \A i \in 0 .. n : g[i] = IF i = 0 THEN NoInfo ELSE Turn(i - 1, g[i - 1])
    <3>1. \A i \in 0 .. n : i = 0 \/ i \in 1 .. n
      BY <1>1
    <3> QED
      BY <1>6, <1>7, <3>1
  <2>2. g = [i \in 0 .. n |-> g[i]]
    BY <1>6
  <2> QED
    BY <2>1, <2>2
<1> QED
  BY <1>8

LEMMA ProbeWalks ==
  ASSUME OutInv, disk # NoFile, IsElf, Probe
  PROVE  \E w : Walks(w) /\ probed' = w[Header.phnum]
<1> DEFINE w == CHOOSE walk : walk = [i \in 0 .. Header.phnum |->
                  IF i = 0 THEN NoInfo
                  ELSE IF AtEnd(i - 1) \/ ~Counted(disk.cell[Offset(i - 1)]) THEN walk[i - 1]
                  ELSE Count(walk[i - 1], disk.cell[Offset(i - 1)])]
<1>1. probed' = w[Header.phnum]
  BY Zenon DEF Probe
<1>2. \E g : g = [i \in 0 .. Header.phnum |->
                  IF i = 0 THEN NoInfo
                  ELSE IF AtEnd(i - 1) \/ ~Counted(disk.cell[Offset(i - 1)]) THEN g[i - 1]
                  ELSE Count(g[i - 1], disk.cell[Offset(i - 1)])]
  BY WalkExists, Zenon DEF Turn
<1>3. w = [i \in 0 .. Header.phnum |->
             IF i = 0 THEN NoInfo
             ELSE IF AtEnd(i - 1) \/ ~Counted(disk.cell[Offset(i - 1)]) THEN w[i - 1]
             ELSE Count(w[i - 1], disk.cell[Offset(i - 1)])]
  BY <1>2, Zenon
<1> HIDE DEF w
<1>4. w = [i \in 0 .. Header.phnum |-> IF i = 0 THEN NoInfo ELSE Turn(i - 1, w[i - 1])]
  BY <1>3, Zenon DEF Turn
<1>5. Header.phnum \in Nat
  BY HeaderIs
<1>6. Walks(w)
  BY <1>4, <1>5 DEF Walks
<1> QED
  BY <1>1, <1>6

(* The load is on the walk the probe made. *)
Underway == {"probed", "memory", "loading", "loaded", "failed"}

OnWalk(w) == Walks(w) /\ probed = w[Header.phnum] /\ (stage = "loading" => info = w[entry])

ProbeInv ==
  /\ stage \in Underway =>
       disk # NoFile /\ IsElf /\ probed.segments # 0 /\ \E w : OnWalk(w)
  /\ ProbeSuffices

LEMMA WalksKept ==
  ASSUME disk' = disk
  PROVE  /\ \A w : Walks(w)' <=> Walks(w)
         /\ Wraps' <=> Wraps
<1>1. \A i, x : Turn(i, x)' = Turn(i, x)
  BY DiskKept DEF Turn, Count
<1>2. Header' = Header
  BY DiskKept
<1>3. ASSUME NEW w
      PROVE  Walks(w)' <=> Walks(w)
  BY <1>1, <1>2 DEF Walks
<1>4. Wraps' <=> Wraps
  BY DiskKept DEF Wraps
<1> QED
  BY <1>3, <1>4

(* A step that leaves the file, the probe and the result as they are. *)
LEMMA ProbeKept ==
  ASSUME ProbeInv, disk' = disk, probed' = probed, stage \in Underway,
         stage' \in {"probed", "memory"}
  PROVE  ProbeInv'
<1>1. /\ disk # NoFile /\ IsElf /\ probed.segments # 0
      /\ \E w : Walks(w) /\ probed = w[Header.phnum]
  BY DEF ProbeInv, OnWalk
<1>2. PICK w : Walks(w) /\ probed = w[Header.phnum]
  BY <1>1
<1>3. OnWalk(w)'
  BY <1>2, DiskKept, WalksKept DEF OnWalk
<1> QED
  BY <1>1, <1>3, DiskKept DEF ProbeInv, ProbeSuffices

LEMMA ProbeLoadStart ==
  ASSUME ProbeInv, LoadStart
  PROVE  ProbeInv'
<1>1. /\ disk' = disk /\ probed' = probed /\ stage = "memory" /\ stage' = "loading"
      /\ info' = NoInfo /\ entry' = 0
  BY DEF LoadStart
<1>2. /\ disk # NoFile /\ IsElf /\ probed.segments # 0
      /\ \E w : Walks(w) /\ probed = w[Header.phnum]
  BY <1>1 DEF ProbeInv, OnWalk, Underway
<1>3. PICK w : Walks(w) /\ probed = w[Header.phnum]
  BY <1>2
<1>4. info' = w[entry']
  BY <1>1, <1>3 DEF Walks
<1>5. OnWalk(w)'
  BY <1>1, <1>3, <1>4, DiskKept, WalksKept DEF OnWalk
<1> QED
  BY <1>1, <1>2, <1>5, DiskKept DEF ProbeInv, ProbeSuffices

LEMMA ProbeProbe ==
  ASSUME OutInv, HostInv, ProbeInv, Probe
  PROVE  ProbeInv'
<1>1. disk' = disk /\ stage = "file" /\ stage' \in {"probed", "unusable"}
  BY DEF Probe
<1>2. CASE stage' = "probed"
  <2>1. IsElf /\ probed'.segments # 0
    BY <1>2 DEF Probe, NoInfo
  <2>2. disk # NoFile
    BY <1>1 DEF HostInv
  <2>3. PICK w : Walks(w) /\ probed' = w[Header.phnum]
    BY <2>1, <2>2, ProbeWalks
  <2>4. OnWalk(w)'
    BY <1>1, <1>2, <2>3, DiskKept, WalksKept DEF OnWalk
  <2> QED
    BY <1>1, <1>2, <2>1, <2>2, <2>4, DiskKept DEF ProbeInv, ProbeSuffices
<1>3. CASE stage' = "unusable"
  BY <1>3 DEF ProbeInv, ProbeSuffices, Underway
<1> QED
  BY <1>1, <1>2, <1>3

(* A segment memory sized from the probe does not take is one that wraps.  *)
LEMMA MeasuredTakes ==
  ASSUME OutInv, disk # NoFile, IsElf, NEW w, Walks(w), probed = w[Header.phnum],
         [base |-> memBase, size |-> memSize] = Measured,
         NEW i \in 0 .. Header.phnum - 1, ~AtEnd(i), Counted(disk.cell[Offset(i)]), ~Wraps
  PROVE  InGuest(disk.cell[Offset(i)].vaddr, disk.cell[Offset(i)].memsz)
<1> DEFINE c == disk.cell[Offset(i)]
           v == c.vaddr
           s == c.memsz
           lo == probed.lowest
           hi == probed.highest
<1>1. Header.phnum \in Nat /\ probed \in Measures
  BY WalkType
<1>2. lo \in 0 .. AddrSpace - 1 /\ hi \in 0 .. AddrSpace - 1
  BY <1>1 DEF Measures, Addr
<1>3. v \in Nat /\ s \in Nat
  BY <1>1, PhdrType DEF Addr
<1>4. lo <= v /\ v + s <= hi
  <2>1. Header.phnum \in 0 .. Header.phnum
    BY <1>1
  <2>2. Within(probed, i)
    BY <2>1, WalkMeasures
  <2> QED
    BY <2>2 DEF Within
<1>5. memBase = lo /\ memSize = (hi - lo) % AddrSpace
  <2>1. [base |-> memBase, size |-> memSize] = [base |-> lo, size |-> (hi - lo) % AddrSpace]
    BY DEF Measured
  <2> HIDE DEF lo, hi
  <2> QED
    BY <2>1
<1> HIDE DEF c, v, s, lo, hi
<1>6. (hi - lo) % AddrSpace = hi - lo
  <2>1. hi - lo \in 0 .. AddrSpace - 1
    BY <1>2, <1>3, <1>4
  <2> DEFINE d == hi - lo
  <2> HIDE DEF d
  <2>2. d % AddrSpace = d
    BY <2>1 DEF d
  <2> QED
    BY <2>2 DEF d
<1>7. v >= memBase /\ (v - memBase) + s <= memSize
  BY <1>2, <1>3, <1>4, <1>5, <1>6
<1> QED
  BY <1>7 DEF InGuest, c, v, s

LEMMA ProbeLoadEntry ==
  ASSUME OutInv, HostInv, ProbeInv, LoadEntry
  PROVE  ProbeInv'
<1> DEFINE c == disk.cell[Offset(entry)]
<1>1. /\ disk' = disk /\ probed' = probed /\ stage = "loading" /\ ~AtEnd(entry)
      /\ memBase' = memBase /\ memSize' = memSize
  BY DEF LoadEntry
<1>2. /\ disk # NoFile /\ IsElf /\ probed.segments # 0
      /\ \E w : Walks(w) /\ probed = w[Header.phnum] /\ info = w[entry]
  BY <1>1 DEF ProbeInv, OnWalk, Underway
<1>3. PICK w : Walks(w) /\ probed = w[Header.phnum] /\ info = w[entry]
  BY <1>2
<1>4. entry \in 0 .. Header.phnum - 1 /\ Header.phnum \in Nat
  <2>1. Header.phnum \in Nat
    BY <1>2, <1>3, WalkType
  <2> QED
    BY <1>1, <2>1 DEF AtEnd, HostInv
<1>5. w[entry + 1] = Turn(entry, info)
  <2>1. entry + 1 \in 1 .. Header.phnum /\ (entry + 1) - 1 = entry
    BY <1>4
  <2> QED
    BY <1>3, <2>1 DEF Walks
<1>6. CASE entry' = entry + 1 /\ stage' = stage /\ info' = Turn(entry, info)
  <2>1. OnWalk(w)'
    BY <1>1, <1>3, <1>5, <1>6, DiskKept, WalksKept DEF OnWalk
  <2> QED
    BY <1>1, <1>2, <1>6, <2>1, DiskKept DEF ProbeInv, ProbeSuffices
<1>7. CASE stage' = "failed" /\ Counted(c) /\ ~InGuest(c.vaddr, c.memsz)
  <2>1. OnWalk(w)'
    BY <1>1, <1>3, <1>7, DiskKept, WalksKept DEF OnWalk
  <2>2. [base |-> memBase, size |-> memSize] = Measured => Wraps
    BY <1>1, <1>2, <1>3, <1>4, <1>7, MeasuredTakes
  <2>3. Measured' = Measured
    BY <1>1 DEF Measured
  <2>4. ProbeSuffices'
    BY <1>1, <1>7, <2>2, <2>3, WalksKept DEF ProbeSuffices
  <2> HIDE DEF c
  <2> QED
    BY <1>1, <1>2, <2>1, <2>4, DiskKept DEF ProbeInv
<1>8. CASE ~Counted(c) /\ entry' = entry + 1 /\ UNCHANGED << stage, info >>
  BY <1>6, <1>8 DEF Turn
<1>9. CASE Counted(c) /\ info' = Count(info, c) /\ entry' = entry + 1 /\ stage' = stage
  BY <1>1, <1>6, <1>9 DEF Turn
<1>10. CASE Counted(c) /\ info' = Count(info, c) /\ ~InGuest(c.vaddr, c.memsz) /\ stage' = "failed"
  BY <1>7, <1>10
<1>11. CASE stage' = "killed"
  BY <1>11 DEF ProbeInv, ProbeSuffices, Underway
<1> HIDE DEF c
<1> QED
  BY <1>8, <1>9, <1>10, <1>11 DEF LoadEntry, c

LEMMA ProbeLoadEnd ==
  ASSUME OutInv, HostInv, ProbeInv, LoadEnd
  PROVE  ProbeInv'
<1>1. /\ disk' = disk /\ probed' = probed /\ stage = "loading" /\ AtEnd(entry)
      /\ info' = info /\ stage' = IF info.segments # 0 THEN "loaded" ELSE "failed"
  BY DEF LoadEnd
<1>2. /\ disk # NoFile /\ IsElf /\ probed.segments # 0
      /\ \E w : Walks(w) /\ probed = w[Header.phnum] /\ info = w[entry]
  BY <1>1 DEF ProbeInv, OnWalk, Underway
<1>3. PICK w : Walks(w) /\ probed = w[Header.phnum] /\ info = w[entry]
  BY <1>2
<1>4. entry \in 0 .. Header.phnum
  <2>1. Header.phnum \in Nat
    BY <1>2, <1>3, WalkType
  <2> QED
    BY <1>1, <2>1 DEF HostInv
<1>5. info = probed
  BY <1>1, <1>2, <1>3, <1>4, WalkEnds
<1>6. stage' = "loaded"
  BY <1>1, <1>2, <1>5
<1>7. OnWalk(w)'
  BY <1>1, <1>3, <1>6, DiskKept, WalksKept DEF OnWalk
<1> QED
  BY <1>1, <1>2, <1>5, <1>6, <1>7, DiskKept DEF ProbeInv, ProbeSuffices

LEMMA ProbeStutter ==
  ASSUME ProbeInv, UNCHANGED loadVars
  PROVE  ProbeInv'
<1>1. /\ disk' = disk /\ stage' = stage /\ probed' = probed /\ info' = info /\ entry' = entry
      /\ memBase' = memBase /\ memSize' = memSize /\ overrun' = overrun
  BY DEF loadVars
<1>2. Measured' = Measured
  BY <1>1 DEF Measured
<1>3. ProbeSuffices'
  BY <1>1, <1>2, WalksKept DEF ProbeInv, ProbeSuffices
<1>4. ASSUME NEW w, OnWalk(w)
      PROVE  OnWalk(w)'
  BY <1>1, <1>4, DiskKept, WalksKept DEF OnWalk
<1> QED
  BY <1>1, <1>3, <1>4, DiskKept DEF ProbeInv

LEMMA ProbeNext ==
  ASSUME OutInv, HostInv, ProbeInv, [Next]_vars
  PROVE  ProbeInv'
<1>1. UNCHANGED loadVars \/ Finish \/ LoadNext
  BY DEF Next, Done, vars, Parse, PlaceSegment, InflateStep, Inflated, Load
<1>2. CASE MemInit
  <2>1. /\ disk' = disk /\ probed' = probed /\ stage \in Underway
        /\ stage' \in {"probed", "memory"}
    BY <1>2 DEF MemInit, Underway
  <2> QED
    BY <2>1, ProbeKept
<1>3. CASE Finish
  <2>1. UNCHANGED loadVars \/ stage' = "file"
    BY <1>3 DEF Finish, loadVars
  <2>2. stage' = "file" => ProbeInv'
    BY DEF ProbeInv, ProbeSuffices, Underway
  <2> QED
    BY <2>1, <2>2, ProbeStutter
<1> QED
  BY <1>1, <1>2, <1>3, ProbeStutter, ProbeProbe, ProbeLoadStart, ProbeLoadEntry, ProbeLoadEnd
     DEF LoadNext

(* What vita_probe_elf measures is enough for vita_load_elf, for every     *)
(* file: both count the same, and memory sized from the probe takes every  *)
(* segment, unless one ends at the top of the address space, where the     *)
(* 32-bit vaddr + memsz is 0.                                              *)
THEOREM ProbeEnough == Spec => []ProbeSuffices
<1>1. Init => ProbeInv
  BY DEF Init, LoadInit, ProbeInv, ProbeSuffices, Underway
<1>2. OutInv /\ HostInv /\ ProbeInv /\ [Next]_vars => ProbeInv'
  BY ProbeNext
<1>3. ProbeInv => ProbeSuffices
  BY DEF ProbeInv
<1> QED
  BY <1>1, <1>2, <1>3, Always, PTL DEF Spec
================================================================================
