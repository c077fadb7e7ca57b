---------------------------- MODULE GuestHeapProofs ----------------------------
(***************************************************************************)
(* The heap's invariants for every word size, granule, region and request. *)
(***************************************************************************)
EXTENDS GuestHeap, TLAPS

USE WidthAssumption, MemAssumption

(* What the region and the cursor are, which the blocks are bounded by.    *)
RegionInv ==
  /\ g_heap_size # 0 =>
       /\ MemBase <= g_heap_base
       /\ g_heap_base + g_heap_size <= MemBase + MemSize
       /\ g_heap_base % Align = 0
  /\ g_heap_used <= g_heap_size
  /\ g_heap_size = 0 => DOMAIN live = {} /\ g_errno_slot = 0
  /\ g_errno_slot # 0 => g_errno_slot = g_heap_base /\ ErrnoBytes <= g_heap_used

(* Every block lies below the cursor and after the errno slot.             *)
BlocksInv ==
  \A a \in DOMAIN live :
    /\ g_heap_base <= a
    /\ a + live[a] <= g_heap_base + g_heap_used
    /\ g_errno_slot # 0 => g_errno_slot + ErrnoBytes <= a

HeapInv ==
  TypeOK /\ RegionInv /\ BlocksInv /\ BlocksDisjoint /\ BlocksAligned

--------------------------------------------------------------------------------
(* Arithmetic of the granule.                                              *)

LEMMA MultipleMod ==
  ASSUME NEW k \in Nat
  PROVE  (k * Align) % Align = 0
  OBVIOUS

(* A sum of multiples of the granule is one. *)
LEMMA SumAligned ==
  ASSUME NEW x \in Nat, NEW y \in Nat, x % Align = 0, y % Align = 0
  PROVE  (x + y) % Align = 0
<1> DEFINE i == x \div Align
           j == y \div Align
<1>1. x = i * Align /\ y = j * Align /\ i \in Nat /\ j \in Nat
  OBVIOUS
<1>2. x + y = (i + j) * Align
  BY <1>1
<1> HIDE DEF i, j
<1>3. QED
  BY <1>1, <1>2, MultipleMod

(* Rounding stays inside the word and lands on the granule. *)
LEMMA RoundUpType ==
  ASSUME NEW x \in Nat
  PROVE  RoundUp(x) \in 0 .. Word - 1 /\ RoundUp(x) % Align = 0
<1> DEFINE y == (x + (Align - 1)) % Word
           k == y \div Align
<1>1. Word > 0
  OBVIOUS
<1>2. y \in 0 .. Word - 1
  BY <1>1
<1> HIDE DEF y
<1>3. k \in Nat /\ k * Align <= y
  BY <1>2
<1>4. k * Align \in Nat /\ RoundUp(x) = k * Align
  BY <1>3 DEF RoundUp, y
<1> HIDE DEF k
<1>5. QED
  BY <1>2, <1>3, <1>4, MultipleMod

LEMMA SmallMod ==
  ASSUME NEW x \in 0 .. Word - 1
  PROVE  x % Word = x
  OBVIOUS

(* A block that fits starts at or after the cursor, on the granule, and    *)
(* ends at or before the cursor it leaves.                                 *)
LEMMA FittingBlock ==
  ASSUME TypeOK, RegionInv, NEW n \in 1 .. Word - 1, Fits(n)
  PROVE  /\ BlockAt = g_heap_base + AtOff
         /\ BlockAt \in 0 .. Word - 1
         /\ AtOff \in Nat /\ g_heap_used <= AtOff
         /\ BlockAt % Align = 0
         /\ (AtOff + RoundUp(n)) % Word = AtOff + RoundUp(n)
         /\ RoundUp(n) \in Nat /\ n <= RoundUp(n)
         /\ AtOff + RoundUp(n) <= g_heap_size
<1>1. /\ g_heap_used \in Nat /\ g_heap_base \in Nat /\ g_heap_size \in 0 .. Word - 1
      /\ n \in Nat
  BY DEF TypeOK
<1>2. AtOff \in 0 .. Word - 1 /\ AtOff % Align = 0
  BY <1>1, RoundUpType DEF AtOff
<1>3. RoundUp(n) \in 0 .. Word - 1
  BY <1>1, RoundUpType
<1>4. /\ g_heap_size # 0 /\ n <= RoundUp(n) /\ g_heap_used <= AtOff
      /\ AtOff + RoundUp(n) <= g_heap_size
  BY <1>1, <1>2, <1>3 DEF Fits, Wraps, Exhausted
<1>5. g_heap_base + g_heap_size <= Word /\ g_heap_base % Align = 0
  BY <1>1, <1>4 DEF RegionInv
<1>6. BlockAt = g_heap_base + AtOff /\ BlockAt \in 0 .. Word - 1
  <2>1. g_heap_base + AtOff \in 0 .. Word - 1
    BY <1>1, <1>2, <1>3, <1>4, <1>5
  <2>2. QED
    BY <2>1, SmallMod DEF BlockAt
<1>7. BlockAt % Align = 0
  <2>1. AtOff \in Nat
    BY <1>2
  <2>2. (g_heap_base + AtOff) % Align = 0
    BY <2>1, <1>1, <1>2, <1>5, SumAligned
  <2>3. QED
    BY <2>2, <1>6
<1>8. (AtOff + RoundUp(n)) % Word = AtOff + RoundUp(n)
  <2>1. AtOff + RoundUp(n) \in 0 .. Word - 1
    BY <1>1, <1>2, <1>3, <1>4
  <2>2. QED
    BY <2>1, SmallMod
<1>9. QED
  BY <1>2, <1>3, <1>4, <1>6, <1>7, <1>8

--------------------------------------------------------------------------------
(* Granting a fitting block keeps the invariant, whatever part of the      *)
(* blocks the program keeps; malloc and realloc are both of this form.     *)
LEMMA GrantKeepsBlocks ==
  ASSUME HeapInv, NEW n \in 1 .. Word - 1, Fits(n), Reserve(n),
         NEW owned \in SUBSET DOMAIN live, Granted(BlockAt, n, owned)
  PROVE  /\ (RegionInv /\ BlocksInv /\ BlocksDisjoint /\ BlocksAligned)'
         /\ DOMAIN live' \subseteq 0 .. Word - 1
         /\ live' \in [DOMAIN live' -> 1 .. Word - 1]
         /\ g_heap_used' \in 0 .. Word - 1
<1> DEFINE at == BlockAt
           top == AtOff + RoundUp(n)
<1>1. /\ at = g_heap_base + AtOff /\ at \in 0 .. Word - 1 /\ at % Align = 0
      /\ AtOff \in Nat /\ g_heap_used <= AtOff
      /\ RoundUp(n) \in Nat /\ n <= RoundUp(n) /\ top <= g_heap_size
      /\ g_heap_used' = top
  BY FittingBlock DEF HeapInv, Reserve
<1>2. /\ g_heap_base' = g_heap_base /\ g_heap_size' = g_heap_size
      /\ g_errno_slot' = g_errno_slot
  BY DEF Reserve
<1>3. /\ DOMAIN live' = owned \cup {at}
      /\ \A b \in DOMAIN live' : live'[b] = IF b = at THEN n ELSE live[b]
  BY DEF Granted
<1>4. /\ g_heap_base \in Nat /\ g_heap_used \in Nat /\ g_heap_size \in 0 .. Word - 1
      /\ g_errno_slot \in Nat /\ g_heap_size # 0
  BY DEF HeapInv, TypeOK, Fits
<1>5. \A b \in owned : /\ b \in 0 .. Word - 1 /\ live[b] \in 1 .. Word - 1
                       /\ b + live[b] <= at /\ g_heap_base <= b /\ b # at
  BY <1>1, <1>4 DEF HeapInv, TypeOK, BlocksInv
<1> HIDE DEF at, top
<1>6. RegionInv'
  BY <1>1, <1>2, <1>4 DEF HeapInv, RegionInv, top
<1>7. BlocksInv'
  <2> SUFFICES ASSUME NEW b \in DOMAIN live'
               PROVE  /\ g_heap_base <= b
                      /\ b + live'[b] <= g_heap_base + top
                      /\ g_errno_slot # 0 => g_errno_slot + ErrnoBytes <= b
    BY <1>1, <1>2 DEF BlocksInv
  <2>1. CASE b = at
    BY SMTT(30), <2>1, <1>1, <1>3, <1>4 DEF HeapInv, RegionInv, top
  <2>2. CASE b # at
    BY <2>2, <1>1, <1>3, <1>4, <1>5 DEF HeapInv, BlocksInv, TypeOK, top
  <2>3. QED
    BY <2>1, <2>2
<1>8. BlocksDisjoint'
  BY <1>1, <1>3, <1>4, <1>5 DEF HeapInv, BlocksDisjoint
<1>9. BlocksAligned'
  BY <1>1, <1>3 DEF HeapInv, BlocksAligned
<1>10. /\ DOMAIN live' \subseteq 0 .. Word - 1
       /\ live' \in [DOMAIN live' -> 1 .. Word - 1]
  BY <1>1, <1>3, <1>5 DEF Granted, at
<1>11. g_heap_used' \in 0 .. Word - 1
  BY <1>1, <1>4 DEF top
<1>12. QED
  BY <1>6, <1>7, <1>8, <1>9, <1>10, <1>11

(* Steps that leave the heap's variables alone keep all of it but the type *)
(* of what they do change.                                                 *)
LEMMA HeapUnchanged ==
  ASSUME HeapInv, UNCHANGED << heap, live >>,
         mem' \in [MemAddr -> Values], aborted' \in BOOLEAN, g_trace' \in BOOLEAN,
         r0' \in 0 .. Word - 1
  PROVE  HeapInv'
  BY DEF HeapInv, TypeOK, RegionInv, BlocksInv, BlocksDisjoint, BlocksAligned, heap

(* memmove inside guest memory yields a memory. *)
LEMMA CopiedType ==
  ASSUME HeapInv, NEW dst \in Nat, NEW src \in Nat, NEW len \in Nat,
         len # 0, Backed(dst, len), Backed(src, len)
  PROVE  Copied(dst, src, len) \in [MemAddr -> Values]
<1>1. \A a \in dst .. dst + len - 1 : src + (a - dst) \in MemAddr
  BY DEF Backed, MemAddr
<1>2. mem \in [MemAddr -> Values]
  BY DEF HeapInv, TypeOK
<1>3. \A a \in MemAddr : (IF a \in dst .. dst + len - 1 THEN mem[src + (a - dst)]
                                                        ELSE mem[a]) \in Values
  BY <1>1, <1>2
<1>4. QED
  BY <1>3 DEF Copied

LEMMA InitHeapInv == Init => HeapInv
<1> SUFFICES ASSUME Init PROVE HeapInv
  OBVIOUS
<1>1. 0 \in 0 .. Word - 1
  OBVIOUS
<1>2. TypeOK
  <2>1. live \in [DOMAIN live -> 1 .. Word - 1] /\ DOMAIN live \subseteq 0 .. Word - 1
    BY DEF Init
  <2>2. mem \in [MemAddr -> Values]
    BY DEF Init
  <2>3. QED
    BY <1>1, <2>1, <2>2 DEF Init, TypeOK
<1>3. DOMAIN live = {}
  BY DEF Init
<1>4. QED
  BY <1>2, <1>3 DEF Init, HeapInv, RegionInv, BlocksInv, BlocksDisjoint, BlocksAligned

LEMMA HeapInitStep ==
  ASSUME HeapInv, NEW r \in Regions, HeapInit(r[1], r[2])
  PROVE  HeapInv'
<1>1. /\ r[1] \in Nat /\ r[2] \in Nat /\ MemBase <= r[1]
      /\ r[1] + r[2] <= MemBase + MemSize /\ r[1] % Align = 0
  BY RegionAssumption
<1>2. /\ g_heap_size = 0 /\ DOMAIN live = {} /\ g_errno_slot = 0
  BY DEF HeapInv, RegionInv, HeapInit
<1>3. r[1] \in 0 .. Word - 1 /\ r[2] \in 0 .. Word - 1
  BY RegionAssumption
<1>4. TypeOK'
  <2>1. g_heap_used' \in {0, ErrnoBytes} /\ (g_heap_used' = ErrnoBytes => r[2] >= ErrnoBytes)
    BY <1>1 DEF HeapInit
  <2>2. g_heap_used' \in 0 .. Word - 1
    BY <1>3, <2>1
  <2>3. g_errno_slot' \in 0 .. Word - 1
    BY <1>2, <1>3 DEF HeapInit
  <2>4. /\ g_heap_base' = r[1] /\ g_heap_size' = r[2]
        /\ UNCHANGED << g_trace, aborted, mem, r0, live >>
    BY DEF HeapInit
  <2> QED
    BY <1>3, <2>2, <2>3, <2>4 DEF HeapInv, TypeOK
<1>5. RegionInv'
  BY <1>1, <1>2 DEF HeapInit, RegionInv
<1>6. (BlocksInv /\ BlocksDisjoint /\ BlocksAligned)'
  BY <1>2 DEF HeapInit, BlocksInv, BlocksDisjoint, BlocksAligned
<1>7. QED
  BY <1>4, <1>5, <1>6 DEF HeapInv

LEMMA FailedAllocStep ==
  ASSUME HeapInv, NEW n \in Requests, AllocFails(n), UNCHANGED g_trace
  PROVE  HeapInv'
<1>1. aborted' \in BOOLEAN
  BY DEF AllocFails, Trap, HeapInv, TypeOK
<1>2. mem' \in [MemAddr -> Values] /\ r0' \in 0 .. Word - 1
  BY DEF AllocFails, HeapInv, TypeOK
<1>3. QED
  BY <1>1, <1>2, HeapUnchanged DEF AllocFails, HeapInv, TypeOK

LEMMA MallocStep ==
  ASSUME HeapInv, NEW n \in Requests, Malloc(n)
  PROVE  HeapInv'
<1>1. CASE n = 0 /\ r0' = 0 /\ UNCHANGED << heap, aborted, mem, live >>
  BY <1>1, HeapUnchanged DEF Malloc, HeapInv, TypeOK
<1>2. CASE /\ n # 0 /\ Fits(n) /\ Reserve(n) /\ r0' = BlockAt
           /\ Granted(BlockAt, n, DOMAIN live) /\ UNCHANGED << aborted, mem >>
  <2>1. n \in 1 .. Word - 1
    BY <1>2, RequestAssumption
  <2>2. BlockAt \in 0 .. Word - 1
    BY <1>2, <2>1, FittingBlock DEF HeapInv
  <2>3. /\ (RegionInv /\ BlocksInv /\ BlocksDisjoint /\ BlocksAligned)'
        /\ DOMAIN live' \subseteq 0 .. Word - 1
        /\ live' \in [DOMAIN live' -> 1 .. Word - 1]
        /\ g_heap_used' \in 0 .. Word - 1
    BY <1>2, <2>1, GrantKeepsBlocks
  <2>4. TypeOK'
    BY <1>2, <2>2, <2>3 DEF Malloc, Reserve, HeapInv, TypeOK
  <2>5. QED
    BY <2>3, <2>4 DEF HeapInv
<1>3. CASE n # 0 /\ AllocFails(n)
  BY <1>3, FailedAllocStep DEF Malloc
<1>4. QED
  BY <1>1, <1>2, <1>3 DEF Malloc

LEMMA ReallocStep ==
  ASSUME HeapInv, NEW a \in DOMAIN live, NEW n \in Requests, Realloc(a, n)
  PROVE  HeapInv'
<1> DEFINE copy == MinOf(n, Avail(a))
           copies == copy # 0 /\ Backed(BlockAt, copy) /\ Backed(a, copy)
<1>1. CASE n = 0 /\ r0' = 0 /\ UNCHANGED << heap, aborted, mem, live >>
  BY <1>1, HeapUnchanged DEF Realloc, HeapInv, TypeOK
<1>2. CASE /\ n # 0 /\ Fits(n) /\ Reserve(n) /\ r0' = BlockAt
           /\ mem' = IF copies THEN Copied(BlockAt, a, copy) ELSE mem
           /\ IF copy = 0 \/ copies THEN UNCHANGED aborted ELSE Trap
           /\ Granted(BlockAt, n, DOMAIN live \ {a})
  <2>1. n \in 1 .. Word - 1
    BY <1>2, RequestAssumption
  <2>2. BlockAt \in 0 .. Word - 1 /\ a \in 0 .. Word - 1
    BY <1>2, <2>1, FittingBlock DEF HeapInv, TypeOK
  <2>3. /\ (RegionInv /\ BlocksInv /\ BlocksDisjoint /\ BlocksAligned)'
        /\ DOMAIN live' \subseteq 0 .. Word - 1
        /\ live' \in [DOMAIN live' -> 1 .. Word - 1]
        /\ g_heap_used' \in 0 .. Word - 1
    BY <1>2, <2>1, GrantKeepsBlocks
  <2>4. copy \in Nat
    BY <2>1, <2>2 DEF MinOf, Avail, MemAddr
  <2>5. mem' \in [MemAddr -> Values]
    <3>1. CASE copies
      BY <1>2, <2>2, <2>4, <3>1, CopiedType
    <3>2. CASE ~copies
      BY <1>2, <3>2 DEF HeapInv, TypeOK
    <3>3. QED
      BY <3>1, <3>2
  <2>6. aborted' \in BOOLEAN
    BY <1>2 DEF Trap, HeapInv, TypeOK
  <2>7. TypeOK'
    BY <1>2, <2>2, <2>3, <2>5, <2>6 DEF Realloc, Reserve, HeapInv, TypeOK
  <2>8. QED
    BY <2>3, <2>7 DEF HeapInv
<1>3. CASE n # 0 /\ AllocFails(n)
  BY <1>3, FailedAllocStep DEF Realloc
<1>4. QED
  BY <1>1, <1>2, <1>3 DEF Realloc

LEMMA FreeStep ==
  ASSUME HeapInv, NEW a \in DOMAIN live, Free(a)
  PROVE  HeapInv'
<1>1. /\ DOMAIN live' = DOMAIN live \ {a}
      /\ \A b \in DOMAIN live' : live'[b] = live[b]
      /\ UNCHANGED << heap, g_trace, aborted, mem, r0 >>
  BY DEF Free
<1>2. TypeOK'
  <2>1. live' = [b \in DOMAIN live \ {a} |-> live[b]]
    BY DEF Free
  <2>2. live' \in [DOMAIN live' -> 1 .. Word - 1]
    BY <2>1 DEF HeapInv, TypeOK
  <2>3. QED
    BY <1>1, <2>2 DEF HeapInv, TypeOK, heap
<1>3. (RegionInv /\ BlocksInv /\ BlocksDisjoint /\ BlocksAligned)'
  BY <1>1 DEF HeapInv, RegionInv, BlocksInv, BlocksDisjoint, BlocksAligned, heap
<1>4. QED
  BY <1>2, <1>3 DEF HeapInv

LEMMA StoreStep ==
  ASSUME HeapInv, NEW a \in DOMAIN live, NEW v \in Values,
         NEW i \in 0 .. live[a] - 1, Store(a, i, v)
  PROVE  HeapInv'
<1>1. mem' \in [MemAddr -> Values]
  BY DEF Store, HeapInv, TypeOK
<1>2. QED
  BY <1>1, HeapUnchanged DEF Store, HeapInv, TypeOK

LEMMA ErrnoStoreStep ==
  ASSUME HeapInv, NEW v \in Values, ErrnoStore(v)
  PROVE  HeapInv'
<1>1. mem' \in [MemAddr -> Values]
  BY DEF ErrnoStore, HeapInv, TypeOK
<1>2. QED
  BY <1>1, HeapUnchanged DEF ErrnoStore, HeapInv, TypeOK

LEMMA StepHeapInv == HeapInv /\ [Next]_vars => HeapInv'
<1> SUFFICES ASSUME HeapInv, [Next]_vars PROVE HeapInv'
  OBVIOUS
<1>1. ASSUME NEW r \in Regions, HeapInit(r[1], r[2]) PROVE HeapInv'
  BY <1>1, HeapInitStep
<1>2. ASSUME NEW n \in Requests, Malloc(n) PROVE HeapInv'
  BY <1>2, MallocStep
<1>3. ASSUME NEW a \in DOMAIN live, NEW n \in Requests, Realloc(a, n) PROVE HeapInv'
  BY <1>3, ReallocStep
<1>4. ASSUME NEW a \in DOMAIN live, Free(a) PROVE HeapInv'
  BY <1>4, FreeStep
<1>5. ASSUME NEW a \in DOMAIN live, NEW v \in Values,
             NEW i \in 0 .. live[a] - 1, Store(a, i, v)
      PROVE  HeapInv'
  BY <1>5, StoreStep
<1>6. ASSUME NEW v \in Values, ErrnoStore(v) PROVE HeapInv'
  BY <1>6, ErrnoStoreStep
<1>7. CASE UNCHANGED vars
  BY <1>7, HeapUnchanged DEF vars, heap, HeapInv, TypeOK
<1>8. QED
  BY <1>1, <1>2, <1>3, <1>4, <1>5, <1>6, <1>7 DEF Next

THEOREM HeapInvariant == Spec => []HeapInv
  BY InitHeapInv, StepHeapInv, PTL DEF Spec

--------------------------------------------------------------------------------
(* The variables keep their types: no address or size leaves its width. *)
THEOREM TypeCorrect == Spec => []TypeOK
<1>1. HeapInv => TypeOK
  BY DEF HeapInv
<1>2. QED
  BY <1>1, HeapInvariant, PTL

(* Every block the program holds is inside the region, below the cursor.   *)
THEOREM BlocksStayInRegion == Spec => []BlocksInRegion
<1>1. HeapInv => BlocksInRegion
  BY DEF HeapInv, RegionInv, BlocksInv, BlocksInRegion
<1>2. QED
  BY <1>1, HeapInvariant, PTL

(* malloc and realloc never hand out memory the program still owns.        *)
THEOREM BlocksNeverOverlap == Spec => []BlocksDisjoint
<1>1. HeapInv => BlocksDisjoint
  BY DEF HeapInv
<1>2. QED
  BY <1>1, HeapInvariant, PTL

(* Every block starts on the granule, errno notwithstanding.               *)
THEOREM BlocksStayAligned == Spec => []BlocksAligned
<1>1. HeapInv => BlocksAligned
  BY DEF HeapInv
<1>2. QED
  BY <1>1, HeapInvariant, PTL

(* The errno slot is backed and shares no byte with a block.               *)
THEOREM ErrnoStaysApart == Spec => []ErrnoApart
<1>1. HeapInv => ErrnoApart
  <2> SUFFICES ASSUME HeapInv, g_errno_slot # 0
               PROVE  /\ Backed(g_errno_slot, ErrnoBytes)
                      /\ \A a \in DOMAIN live : g_errno_slot + ErrnoBytes <= a
    BY DEF ErrnoApart
  <2>1. /\ g_heap_base \in Nat /\ g_heap_size \in Nat /\ g_heap_used \in Nat
        /\ g_heap_size # 0 /\ g_errno_slot = g_heap_base
        /\ ErrnoBytes <= g_heap_used /\ g_heap_used <= g_heap_size
        /\ MemBase <= g_heap_base /\ g_heap_base + g_heap_size <= MemBase + MemSize
    BY DEF HeapInv, TypeOK, RegionInv
  <2>2. Backed(g_errno_slot, ErrnoBytes)
    BY <2>1 DEF Backed
  <2>3. QED
    BY <2>2 DEF HeapInv, BlocksInv
<1>2. QED
  BY <1>1, HeapInvariant, PTL

--------------------------------------------------------------------------------
(* What can stop the program.                                              *)

(* The bytes realloc copies are in guest memory at both ends. *)
LEMMA CopyBacked ==
  ASSUME HeapInv, NEW a \in DOMAIN live, NEW n \in 1 .. Word - 1, Fits(n)
  PROVE  LET copy == MinOf(n, Avail(a))
         IN  copy # 0 /\ Backed(BlockAt, copy) /\ Backed(a, copy)
<1> DEFINE copy == MinOf(n, Avail(a))
           at == BlockAt
<1>1. /\ at = g_heap_base + AtOff /\ AtOff \in Nat /\ g_heap_used <= AtOff
      /\ RoundUp(n) \in Nat /\ n <= RoundUp(n) /\ AtOff + RoundUp(n) <= g_heap_size
  BY FittingBlock DEF HeapInv
<1>2. /\ g_heap_base \in Nat /\ g_heap_size \in Nat /\ g_heap_used \in Nat
      /\ MemBase <= g_heap_base
      /\ g_heap_base + g_heap_size <= MemBase + MemSize
  BY DEF HeapInv, TypeOK, RegionInv, Fits
<1>3. /\ a \in Nat /\ live[a] \in Nat \ {0} /\ MemBase <= a
      /\ a + live[a] <= g_heap_base + g_heap_used
  BY <1>2 DEF HeapInv, TypeOK, BlocksInv
<1> HIDE DEF at
<1>4. at \in Nat /\ at + n <= MemBase + MemSize /\ MemBase <= at /\ a < MemBase + MemSize
  BY <1>1, <1>2, <1>3
<1>5. Avail(a) = MemBase + MemSize - a
  BY <1>3, <1>4 DEF Avail, MemAddr
<1>6. copy \in Nat \ {0} /\ copy <= n /\ copy <= Avail(a)
  BY <1>3, <1>4, <1>5 DEF MinOf
<1> HIDE DEF copy
<1>7. Backed(at, copy) /\ Backed(a, copy)
  BY <1>3, <1>4, <1>5, <1>6 DEF Backed
<1> QED
  BY <1>6, <1>7 DEF copy, at

LEMMA ReallocAborts ==
  ASSUME HeapInv, NEW a \in DOMAIN live, NEW n \in Requests, Realloc(a, n), aborted' # aborted
  PROVE  r0' = 0 /\ UNCHANGED << heap, mem, live >>
<1>1. CASE n # 0 /\ Fits(n)
  <2>1. n \in 1 .. Word - 1
    BY <1>1, RequestAssumption
  <2>2. aborted' = aborted
    BY <1>1, <2>1, CopyBacked DEF Realloc, AllocFails
  <2> QED
    BY <2>2
<1>2. CASE n = 0 \/ ~Fits(n)
  BY <1>2 DEF Realloc, AllocFails
<1> QED
  BY <1>1, <1>2

(* Without tracing the program stops only where heap_alloc finds no heap   *)
(* or no room, and then NULL was the answer and no byte has changed: the   *)
(* copy inside realloc is backed at both ends, so gp never stops it.       *)
THEOREM AbortsAtAllocation == Spec => AbortsOnlyAtAllocation
<1>1. ASSUME HeapInv, [Next]_vars
      PROVE  [aborted' # aborted => r0' = 0 /\ UNCHANGED << heap, mem, live >>]_vars
  <2>1. CASE UNCHANGED vars
    BY <2>1
  <2>2. ASSUME NEW r \in Regions, HeapInit(r[1], r[2])
        PROVE  aborted' = aborted
    BY <2>2 DEF HeapInit
  <2>3. ASSUME NEW n \in Requests, Malloc(n), aborted' # aborted
        PROVE  r0' = 0 /\ UNCHANGED << heap, mem, live >>
    BY <2>3 DEF Malloc, AllocFails
  <2>4. ASSUME NEW a \in DOMAIN live, NEW n \in Requests, Realloc(a, n), aborted' # aborted
        PROVE  r0' = 0 /\ UNCHANGED << heap, mem, live >>
    BY <1>1, <2>4, ReallocAborts
  <2>5. ASSUME NEW a \in DOMAIN live, Free(a)
        PROVE  aborted' = aborted
    BY <2>5 DEF Free
  <2>6. ASSUME NEW a \in DOMAIN live, NEW v \in Values, NEW i \in 0 .. live[a] - 1, Store(a, i, v)
        PROVE  aborted' = aborted
    BY <2>6 DEF Store
  <2>7. ASSUME NEW v \in Values, ErrnoStore(v)
        PROVE  aborted' = aborted
    BY <2>7 DEF ErrnoStore
  <2> QED
    BY <1>1, <2>1, <2>2, <2>3, <2>4, <2>5, <2>6, <2>7 DEF Next
<1> QED
  BY <1>1, HeapInvariant, PTL DEF Spec, AbortsOnlyAtAllocation

--------------------------------------------------------------------------------
(* Refinement: every block is a separate object of Allocator.              *)

LEMMA InitRefines == Init => A!Init
<1> SUFFICES ASSUME Init PROVE A!Init
  OBVIOUS
<1>1. DOMAIN live = {} /\ g_errno_slot = 0
  BY DEF Init
<1>2. Objects = [h \in {} |-> {}]
  BY <1>1 DEF Objects
<1>3. ErrnoCell = [i \in {} |-> {}]
  BY <1>1 DEF ErrnoCell
<1>4. QED
  BY <1>2, <1>3 DEF A!Init

(* Same blocks, same bytes: the abstract objects stand still.              *)
LEMMA SameObjects ==
  ASSUME UNCHANGED live,
         \A a \in DOMAIN live : \A i \in 0 .. live[a] - 1 : mem'[a + i] = mem[a + i]
  PROVE  Objects' = Objects
  BY DEF Objects

LEMMA SameErrno ==
  ASSUME HeapInv, UNCHANGED g_errno_slot,
         g_errno_slot # 0 =>
           \A i \in 0 .. ErrnoBytes - 1 : mem'[g_errno_slot + i] = mem[g_errno_slot + i]
  PROVE  ErrnoCell' = ErrnoCell
<1> DEFINE bytes == 0 .. (IF g_errno_slot = 0 THEN 0 ELSE ErrnoBytes) - 1
<1>1. \A i \in bytes : mem'[g_errno_slot + i] = mem[g_errno_slot + i]
  OBVIOUS
<1>2. ErrnoCell = [i \in bytes |-> mem[g_errno_slot + i]]
  BY DEF ErrnoCell
<1>3. ErrnoCell' = [i \in bytes |-> mem'[g_errno_slot + i]]
  BY DEF ErrnoCell
<1>4. QED
  BY <1>1, <1>2, <1>3

(* Where the blocks and the errno slot are, in one place.                  *)
LEMMA BlockBounds ==
  ASSUME HeapInv
  PROVE  /\ \A b \in DOMAIN live : b \in Nat /\ live[b] \in Nat \ {0}
         /\ \A b \in DOMAIN live : MemBase <= b /\ b + live[b] <= MemBase + MemSize
         /\ \A b \in DOMAIN live : g_errno_slot # 0 => g_errno_slot + ErrnoBytes <= b
         /\ g_errno_slot \in Nat
         /\ mem \in [MemAddr -> Values]
<1>1. /\ g_heap_base \in Nat /\ g_heap_size \in Nat /\ g_heap_used \in Nat
      /\ g_errno_slot \in Nat /\ mem \in [MemAddr -> Values]
  BY DEF HeapInv, TypeOK
<1>2. \A b \in DOMAIN live : b \in Nat /\ live[b] \in Nat \ {0}
  BY DEF HeapInv, TypeOK
<1>3. \A b \in DOMAIN live : g_errno_slot # 0 => g_errno_slot + ErrnoBytes <= b
  BY DEF HeapInv, BlocksInv
<1>4. ASSUME NEW b \in DOMAIN live
      PROVE  MemBase <= b /\ b + live[b] <= MemBase + MemSize
  <2>1. g_heap_size # 0
    BY DEF HeapInv, RegionInv
  <2>2. /\ MemBase <= g_heap_base /\ g_heap_used <= g_heap_size
        /\ g_heap_base + g_heap_size <= MemBase + MemSize
    BY <2>1 DEF HeapInv, RegionInv
  <2>3. g_heap_base <= b /\ b + live[b] <= g_heap_base + g_heap_used
    BY DEF HeapInv, BlocksInv
  <2>4. QED
    BY <1>1, <1>2, <2>2, <2>3
<1>5. QED
  BY <1>1, <1>2, <1>3, <1>4

LEMMA HeapInitRefines ==
  ASSUME HeapInv, NEW r \in Regions, HeapInit(r[1], r[2])
  PROVE  A!Next
<1>1. g_errno_slot = 0
  BY DEF HeapInit, HeapInv, RegionInv
<1>2. DOMAIN ErrnoCell = {}
  BY <1>1 DEF ErrnoCell
<1>3. Objects' = Objects
  BY DEF HeapInit, Objects
<1>4. QED
  BY <1>2, <1>3 DEF A!Next, A!Open

(* A step that changes neither memory, blocks nor the slot stutters.       *)
LEMMA Stutters ==
  ASSUME UNCHANGED << heap, mem, live >>
  PROVE  UNCHANGED A!abstract
<1>1. Objects' = Objects /\ ErrnoCell' = ErrnoCell
  BY DEF Objects, ErrnoCell, heap
<1>2. QED
  BY <1>1 DEF A!abstract

LEMMA MallocRefines ==
  ASSUME HeapInv, NEW n \in Requests, Malloc(n)
  PROVE  A!Next \/ UNCHANGED A!abstract
<1>1. CASE n = 0 \/ AllocFails(n)
  BY <1>1, Stutters DEF Malloc, AllocFails, Granted, Reserve
<1>2. CASE /\ n # 0 /\ Fits(n) /\ Reserve(n)
           /\ Granted(BlockAt, n, DOMAIN live) /\ UNCHANGED mem
  <2> DEFINE at == BlockAt
  <2>1. n \in 1 .. Word - 1
    BY <1>2, RequestAssumption
  <2>2. /\ at = g_heap_base + AtOff /\ at \in 0 .. Word - 1
        /\ AtOff \in Nat /\ g_heap_used <= AtOff
    BY <1>2, <2>1, FittingBlock DEF HeapInv
  <2>3. \A b \in DOMAIN live : b < at
    BY <2>2 DEF HeapInv, TypeOK, BlocksInv
  <2>4. at \notin DOMAIN live
    BY <2>2, <2>3
  <2>5. /\ DOMAIN live' = DOMAIN live \cup {at}
        /\ \A b \in DOMAIN live : live'[b] = live[b]
    BY <1>2, <2>4 DEF Granted
  <2> HIDE DEF at
  <2>6. /\ DOMAIN Objects' = DOMAIN Objects \cup {at}
        /\ at \in (0 .. Word - 1) \ DOMAIN Objects
    BY <2>2, <2>4, <2>5 DEF Objects
  <2>7. \A b \in DOMAIN Objects : Objects'[b] = Objects[b]
    BY <1>2, <2>5 DEF Objects
  <2>8. ErrnoCell' = ErrnoCell
    BY <1>2 DEF ErrnoCell, Reserve
  <2>9. A!Alloc
    BY <2>6, <2>7, <2>8 DEF A!Alloc, A!Keep
  <2>10. QED
    BY <2>9 DEF A!Next
<1>3. QED
  BY <1>1, <1>2 DEF Malloc

LEMMA ReallocRefines ==
  ASSUME HeapInv, NEW a \in DOMAIN live, NEW n \in Requests, Realloc(a, n)
  PROVE  A!Next \/ UNCHANGED A!abstract
<1> DEFINE copy == MinOf(n, Avail(a))
           copies == copy # 0 /\ Backed(BlockAt, copy) /\ Backed(a, copy)
           at == BlockAt
<1>1. CASE n = 0 \/ AllocFails(n)
  BY <1>1, Stutters DEF Realloc, AllocFails, Granted, Reserve
<1>2. CASE /\ n # 0 /\ Fits(n) /\ Reserve(n)
           /\ mem' = IF copies THEN Copied(BlockAt, a, copy) ELSE mem
           /\ Granted(BlockAt, n, DOMAIN live \ {a})
  <2>1. n \in 1 .. Word - 1
    BY <1>2, RequestAssumption
  <2>2. /\ at = g_heap_base + AtOff /\ at \in 0 .. Word - 1
        /\ AtOff \in Nat /\ g_heap_used <= AtOff
        /\ RoundUp(n) \in Nat /\ n <= RoundUp(n)
        /\ AtOff + RoundUp(n) <= g_heap_size
    BY <1>2, <2>1, FittingBlock DEF HeapInv
  <2>3. /\ g_heap_base \in Nat /\ g_heap_size \in Nat /\ g_heap_used \in Nat
        /\ MemBase <= g_heap_base
        /\ g_heap_base + g_heap_size <= MemBase + MemSize
    BY <1>2 DEF HeapInv, TypeOK, RegionInv, Fits
  <2>4. \A b \in DOMAIN live : /\ b \in Nat /\ live[b] \in Nat \ {0}
                               /\ MemBase <= b /\ b + live[b] <= at
    BY <2>2, <2>3 DEF HeapInv, TypeOK, BlocksInv
  <2> HIDE DEF at
  <2>5. at \notin DOMAIN live
    BY <2>2, <2>4
  <2>6. at + n <= MemBase + MemSize
    BY <2>1, <2>2, <2>3
  <2>7. /\ Avail(a) = MemBase + MemSize - a
        /\ a \in Nat /\ live[a] <= Avail(a)
    BY <2>1, <2>2, <2>4, <2>6 DEF Avail, MemAddr
  <2>8. copy \in Nat \ {0} /\ copy <= n /\ copy <= Avail(a)
        /\ (copy = n \/ live[a] <= copy)
    BY <2>1, <2>4, <2>7 DEF MinOf
  <2>9. copies
    BY <1>2, <2>1, CopyBacked
  <2> HIDE DEF copy, copies
  <2>10. mem' = Copied(at, a, copy)
    BY <1>2, <2>9 DEF copy, at
  <2>11. \A m \in MemAddr : /\ m < at => mem'[m] = mem[m]
                            /\ m \in at .. at + copy - 1 => mem'[m] = mem[a + (m - at)]
    BY <2>2, <2>8, <2>10 DEF Copied, MemAddr
  <2>12. /\ DOMAIN live' = (DOMAIN live \ {a}) \cup {at}
         /\ live'[at] = n
         /\ \A b \in DOMAIN live \ {a} : live'[b] = live[b]
    BY <1>2, <2>5 DEF Granted, at
  <2>13. /\ DOMAIN Objects' = (DOMAIN Objects \ {a}) \cup {at}
         /\ at \in (0 .. Word - 1) \ DOMAIN Objects
         /\ a \in DOMAIN Objects
    BY <2>2, <2>5, <2>12 DEF Objects, at
  <2>14. \A b \in DOMAIN Objects \ {a} : Objects'[b] = Objects[b]
    <3> SUFFICES ASSUME NEW b \in DOMAIN live \ {a}
                 PROVE  Objects'[b] = Objects[b]
      BY DEF Objects
    <3>1. \A i \in 0 .. live[b] - 1 : b + i \in MemAddr /\ b + i < at
      BY <2>1, <2>2, <2>4, <2>6 DEF MemAddr
    <3>2. \A i \in 0 .. live[b] - 1 : mem'[b + i] = mem[b + i]
      BY <2>11, <3>1
    <3>3. QED
      BY <2>12, <3>2 DEF Objects
  <2>15. \A i \in DOMAIN Objects[a] \cap DOMAIN Objects'[at] :
           Objects'[at][i] = Objects[a][i]
    <3>1. Objects[a] = [i \in 0 .. live[a] - 1 |-> mem[a + i]]
      BY DEF Objects
    <3>2. Objects'[at] = [i \in 0 .. n - 1 |-> mem'[at + i]]
      BY <2>12 DEF Objects
    <3>3. \A i \in (0 .. live[a] - 1) \cap (0 .. n - 1) :
            at + i \in MemAddr /\ at + i \in at .. at + copy - 1
      BY <2>1, <2>2, <2>3, <2>4, <2>6, <2>8 DEF MemAddr, at
    <3>4. \A i \in (0 .. live[a] - 1) \cap (0 .. n - 1) : mem'[at + i] = mem[a + i]
      <4> SUFFICES ASSUME NEW i \in (0 .. live[a] - 1) \cap (0 .. n - 1)
                   PROVE  mem'[at + i] = mem[a + i]
        OBVIOUS
      <4>1. mem'[at + i] = mem[a + ((at + i) - at)]
        BY <2>11, <3>3
      <4>2. at \in Nat /\ i \in Nat
        BY <2>2
      <4>3. QED
        BY <4>1, <4>2
    <3>5. QED
      BY <3>1, <3>2, <3>4
  <2>16. ErrnoCell' = ErrnoCell
    <3>1. UNCHANGED g_errno_slot
      BY <1>2 DEF Reserve
    <3>2. g_errno_slot # 0 =>
            \A i \in 0 .. ErrnoBytes - 1 :
              g_errno_slot + i \in MemAddr /\ g_errno_slot + i < at
      <4>1. /\ g_errno_slot \in Nat /\ at \in Nat
            /\ at <= MemBase + MemSize
        BY <2>1, <2>2, <2>6, BlockBounds
      <4>2. g_errno_slot # 0 => /\ g_errno_slot = g_heap_base
                                /\ ErrnoBytes <= g_heap_used
        BY DEF HeapInv, RegionInv
      <4>3. g_errno_slot # 0 => g_errno_slot + ErrnoBytes <= at
        BY <2>2, <2>3, <4>2 DEF at
      <4>4. g_errno_slot # 0 => MemBase <= g_errno_slot
        BY <2>3, <4>2
      <4>5. QED
        BY <4>1, <4>3, <4>4 DEF MemAddr
    <3>3. QED
      BY <2>11, <3>1, <3>2, SameErrno
  <2>17. A!Resize
    BY <2>13, <2>14, <2>15, <2>16 DEF A!Resize, A!Keep
  <2>18. QED
    BY <2>17 DEF A!Next
<1>3. QED
  BY <1>1, <1>2 DEF Realloc

LEMMA FreeRefines ==
  ASSUME HeapInv, NEW a \in DOMAIN live, Free(a)
  PROVE  A!Next
<1>1. /\ DOMAIN Objects' = DOMAIN Objects \ {a} /\ a \in DOMAIN Objects
      /\ \A b \in DOMAIN Objects \ {a} : Objects'[b] = Objects[b]
  BY DEF Free, Objects
<1>2. ErrnoCell' = ErrnoCell
  BY DEF Free, heap, ErrnoCell
<1>3. A!Release
  BY <1>1, <1>2 DEF A!Release, A!Keep
<1>4. QED
  BY <1>3 DEF A!Next

LEMMA StoreRefines ==
  ASSUME HeapInv, NEW a \in DOMAIN live, NEW v \in Values,
         NEW i \in 0 .. live[a] - 1, Store(a, i, v)
  PROVE  A!Next
<1>1. /\ \A b \in DOMAIN live : /\ b \in Nat /\ live[b] \in Nat \ {0}
                                /\ MemBase <= b /\ b + live[b] <= MemBase + MemSize
                                /\ g_errno_slot # 0 => g_errno_slot + ErrnoBytes <= b
      /\ g_errno_slot \in Nat
  BY BlockBounds
<1>2. a + i \in MemAddr /\ Backed(a + i, 1)
  BY <1>1 DEF MemAddr, Backed
<1>3. mem' = [mem EXCEPT ![a + i] = v] /\ mem \in [MemAddr -> Values]
  BY <1>2 DEF Store, HeapInv, TypeOK
<1>4. UNCHANGED << heap, live >>
  BY DEF Store
<1>5. \A b \in DOMAIN live, j \in Nat :
        j < live[b] => mem'[b + j] = IF b = a /\ j = i THEN v ELSE mem[b + j]
  <2> SUFFICES ASSUME NEW b \in DOMAIN live, NEW j \in Nat, j < live[b]
               PROVE  mem'[b + j] = IF b = a /\ j = i THEN v ELSE mem[b + j]
    OBVIOUS
  <2>1. b + j = a + i => b = a /\ j = i
    BY <1>1 DEF HeapInv, BlocksDisjoint
  <2>2. b + j \in MemAddr
    BY <1>1 DEF MemAddr
  <2>3. QED
    BY <1>3, <2>1, <2>2
<1>6. Objects' = [Objects EXCEPT ![a] = [@ EXCEPT ![i] = v]]
  <2>1. Objects' = [b \in DOMAIN live |-> [j \in 0 .. live[b] - 1 |-> mem'[b + j]]]
    BY <1>4 DEF Objects
  <2>2. \A b \in DOMAIN live :
          [j \in 0 .. live[b] - 1 |-> mem'[b + j]] =
          [j \in 0 .. live[b] - 1 |-> IF b = a /\ j = i THEN v ELSE mem[b + j]]
    BY <1>1, <1>5
  <2>3. Objects' = [b \in DOMAIN live |->
                      [j \in 0 .. live[b] - 1 |-> IF b = a /\ j = i THEN v ELSE mem[b + j]]]
    BY <2>1, <2>2
  <2> DEFINE new == [j \in 0 .. live[a] - 1 |-> IF j = i THEN v ELSE mem[a + j]]
  <2>4. /\ Objects[a] = [j \in 0 .. live[a] - 1 |-> mem[a + j]]
        /\ DOMAIN Objects = DOMAIN live
        /\ \A b \in DOMAIN live : Objects[b] = [j \in 0 .. live[b] - 1 |-> mem[b + j]]
    BY <1>1 DEF Objects
  <2>5. [Objects[a] EXCEPT ![i] = v] = new
    BY <2>4
  <2>6. \A b \in DOMAIN live :
          [j \in 0 .. live[b] - 1 |-> IF b = a /\ j = i THEN v ELSE mem[b + j]]
          = IF b = a THEN new ELSE Objects[b]
    <3> SUFFICES ASSUME NEW b \in DOMAIN live
                 PROVE  [j \in 0 .. live[b] - 1 |-> IF b = a /\ j = i THEN v ELSE mem[b + j]]
                        = IF b = a THEN new ELSE Objects[b]
      OBVIOUS
    <3>1. CASE b = a
      BY <3>1
    <3>2. CASE b # a
      BY <2>4, <3>2
    <3> QED
      BY <3>1, <3>2
  <2> HIDE DEF new
  <2>7. Objects' = [b \in DOMAIN live |-> IF b = a THEN new ELSE Objects[b]]
    BY <2>3, <2>6
  <2>8. Objects = [b \in DOMAIN live |-> Objects[b]]
    BY DEF Objects
  <2>9. QED
    BY <2>4, <2>5, <2>7, <2>8
<1>7. ErrnoCell' = ErrnoCell
  <2>1. g_errno_slot # 0 =>
          \A k \in 0 .. ErrnoBytes - 1 : mem'[g_errno_slot + k] = mem[g_errno_slot + k]
    BY <1>1, <1>3
  <2>2. QED
    BY <1>4, <2>1, SameErrno DEF heap
<1>8. a \in DOMAIN Objects /\ i \in DOMAIN Objects[a]
  BY DEF Objects
<1>9. A!Put
  BY <1>6, <1>7, <1>8 DEF A!Put
<1>10. QED
  BY <1>9 DEF A!Next

LEMMA ErrnoStoreRefines ==
  ASSUME HeapInv, NEW v \in Values, ErrnoStore(v)
  PROVE  A!Next
<1>1. /\ \A b \in DOMAIN live : /\ b \in Nat /\ live[b] \in Nat \ {0}
                                /\ MemBase <= b /\ b + live[b] <= MemBase + MemSize
                                /\ g_errno_slot # 0 => g_errno_slot + ErrnoBytes <= b
      /\ g_errno_slot \in Nat
      /\ mem \in [MemAddr -> Values]
      /\ UNCHANGED << heap, live >>
  BY BlockBounds DEF ErrnoStore
<1>2. CASE g_errno_slot = 0
  <2>1. ~Backed(g_errno_slot, ErrnoBytes)
    BY <1>2 DEF Backed
  <2>2. mem' = mem
    BY <2>1 DEF ErrnoStore
  <2>3. Objects' = Objects
    BY <1>1, <2>2, SameObjects
  <2>4. ErrnoCell' = [i \in DOMAIN ErrnoCell |-> v]
    BY <1>1, <1>2 DEF ErrnoCell, heap
  <2>5. QED
    BY <2>3, <2>4 DEF A!PutErrno, A!Next
<1>3. CASE g_errno_slot # 0
  <2> DEFINE slot == g_errno_slot .. g_errno_slot + ErrnoBytes - 1
  <2>1. /\ g_heap_size # 0 /\ g_errno_slot = g_heap_base
        /\ MemBase <= g_errno_slot /\ g_errno_slot + ErrnoBytes <= MemBase + MemSize
    BY SMTT(30), <1>3 DEF HeapInv, TypeOK, RegionInv
  <2>2. mem' = [m \in MemAddr |-> IF m \in slot THEN v ELSE mem[m]]
    BY <2>1, <1>1 DEF Backed, ErrnoStore
  <2>3. Objects' = Objects
    <3>1. \A b \in DOMAIN live : \A i \in 0 .. live[b] - 1 :
            b + i \in MemAddr /\ b + i \notin slot
      BY <1>1, <1>3 DEF MemAddr
    <3>2. \A b \in DOMAIN live : \A i \in 0 .. live[b] - 1 : mem'[b + i] = mem[b + i]
      BY <2>2, <3>1
    <3>3. QED
      BY <1>1, <3>2, SameObjects
  <2>4. ErrnoCell' = [i \in DOMAIN ErrnoCell |-> v]
    <3>1. \A i \in 0 .. ErrnoBytes - 1 :
            g_errno_slot + i \in MemAddr /\ g_errno_slot + i \in slot
      BY <1>1, <2>1 DEF MemAddr
    <3>2. \A i \in 0 .. ErrnoBytes - 1 : mem'[g_errno_slot + i] = v
      BY <2>2, <3>1
    <3>3. /\ ErrnoCell' = [i \in 0 .. ErrnoBytes - 1 |-> mem'[g_errno_slot + i]]
          /\ DOMAIN ErrnoCell = 0 .. ErrnoBytes - 1
      BY <1>1, <1>3 DEF ErrnoCell, heap
    <3>4. QED
      BY <3>2, <3>3
  <2>5. QED
    BY <2>3, <2>4 DEF A!PutErrno, A!Next
<1>4. QED
  BY <1>2, <1>3

LEMMA StepRefines == HeapInv /\ [Next]_vars => [A!Next]_(A!abstract)
<1> SUFFICES ASSUME HeapInv, [Next]_vars PROVE A!Next \/ UNCHANGED A!abstract
  OBVIOUS
<1>1. ASSUME NEW r \in Regions, HeapInit(r[1], r[2]) PROVE A!Next
  BY <1>1, HeapInitRefines
<1>2. ASSUME NEW n \in Requests, Malloc(n) PROVE A!Next \/ UNCHANGED A!abstract
  BY <1>2, MallocRefines
<1>3. ASSUME NEW a \in DOMAIN live, NEW n \in Requests, Realloc(a, n)
      PROVE  A!Next \/ UNCHANGED A!abstract
  BY <1>3, ReallocRefines
<1>4. ASSUME NEW a \in DOMAIN live, Free(a) PROVE A!Next
  BY <1>4, FreeRefines
<1>5. ASSUME NEW a \in DOMAIN live, NEW v \in Values,
             NEW i \in 0 .. live[a] - 1, Store(a, i, v)
      PROVE  A!Next
  BY <1>5, StoreRefines
<1>6. ASSUME NEW v \in Values, ErrnoStore(v) PROVE A!Next
  BY <1>6, ErrnoStoreRefines
<1>7. CASE UNCHANGED vars
  BY <1>7, Stutters DEF vars
<1>8. QED
  BY <1>1, <1>2, <1>3, <1>4, <1>5, <1>6, <1>7 DEF Next

(* No call and no store changes a block other than the one it names, and   *)
(* realloc keeps the common prefix: the heap implements Allocator.         *)
THEOREM HeapImplementsAllocator == Spec => ImplementsAllocator
<1>1. Spec => A!Init
  BY InitRefines DEF Spec
<1>2. QED
  BY <1>1, HeapInvariant, StepRefines, PTL DEF Spec, ImplementsAllocator, A!Spec
================================================================================
