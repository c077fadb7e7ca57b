------------------------------- MODULE GuestHeap -------------------------------
(***************************************************************************)
(* The guest heap of src/src/hle_libc.c: a bump allocator over a region    *)
(* the host names, with one word in front for errno, serving malloc,       *)
(* realloc and free of a recompiled program.  The guest's memory is the    *)
(* flat region of src/src/mem.c.                                           *)
(*                                                                         *)
(* The widths are parameters: Word is 2^32, Align 8 and ErrnoBytes 4 in    *)
(* the code.  `live` is not a variable of the C program: it is what the    *)
(* guest program has been given and not yet given back, and is what the    *)
(* properties are about.                                                   *)
(***************************************************************************)
EXTENDS Integers, FiniteSets

CONSTANTS
  Word,        (* uint32_t arithmetic is modulo Word                       *)
  Align,       (* granule of the allocator                                 *)
  ErrnoBytes,  (* size of the errno slot                                   *)
  MemBase,     (* first address of guest memory                            *)
  MemSize,     (* bytes of guest memory                                    *)
  Regions,     (* <<base, size>> pairs the host may give vita_heap_init    *)
  Requests,    (* sizes the program asks for                               *)
  Values,      (* contents of a byte                                       *)
  Zero,        (* the content calloc leaves                                *)
  MaxLive      (* bound: blocks the program holds at once                  *)

ASSUME WidthAssumption ==
  /\ Word \in Nat /\ Align \in Nat \ {0} /\ ErrnoBytes \in Nat \ {0}
  /\ Word % Align = 0
  /\ MaxLive \in Nat

ASSUME MemAssumption ==
  /\ MemBase \in Nat /\ MemSize \in Nat
  /\ MemBase > 0 /\ MemBase + MemSize <= Word
  /\ Zero \in Values

(* The host lays the heap out inside guest memory, on an Align boundary.   *)
(* vita_heap_init does not check it: hle.h leaves the layout to the host.  *)
ASSUME RegionAssumption ==
  \A r \in Regions :
    /\ r \in (0 .. Word - 1) \X (0 .. Word - 1)
    /\ MemBase <= r[1] /\ r[1] + r[2] <= MemBase + MemSize
    /\ r[1] % Align = 0

ASSUME RequestAssumption == Requests \subseteq 0 .. Word - 1

VARIABLES
  g_heap_base, g_heap_size, g_heap_used,
  g_errno_slot,
  g_trace,     (* VITARECOMP_TRACE: a trap is logged and the program goes on *)
  aborted,     (* a trap called abort()                                    *)
  mem,         (* guest memory                                             *)
  r0,          (* result register of the last call                         *)
  live         (* address of a block the program owns -> bytes it asked for *)

heap == << g_heap_base, g_heap_size, g_heap_used, g_errno_slot >>
vars == << heap, g_trace, aborted, mem, r0, live >>

MemAddr == MemBase .. MemBase + MemSize - 1

(* vita_mem_ptr returns a pointer: the access is inside the region. *)
Backed(a, len) == a >= MemBase /\ a + len <= MemBase + MemSize

(* vita_mem_avail: bytes from a to the end of guest memory. *)
Avail(a) == IF a \in MemAddr THEN MemBase + MemSize - a ELSE 0

MinOf(x, y) == IF x < y THEN x ELSE y

(* (x + 7u) & ~7u *)
RoundUp(x) == (((x + (Align - 1)) % Word) \div Align) * Align

(* A trap aborts the program unless tracing is on. *)
Trap == aborted' = ~g_trace

--------------------------------------------------------------------------------
(* heap_alloc(n): where the block starts, and the three ways it can end.   *)

(* Mutant of AtOff: round sizes only, and trust the cursor to be aligned. *)
AtCursor == g_heap_used

AtOff == RoundUp(g_heap_used)

(* Mutant of Wraps: the size's own rounding is not checked. *)
CursorWraps(n) == AtOff < g_heap_used

Wraps(n) == RoundUp(n) < n \/ AtOff < g_heap_used

(* Mutant of Exhausted: the space test is made on a sum that wraps. *)
ExhaustedBySum(n) == (AtOff + RoundUp(n)) % Word > g_heap_size

Exhausted(n) == AtOff > g_heap_size \/ RoundUp(n) > g_heap_size - AtOff

Fits(n) == g_heap_size # 0 /\ ~Wraps(n) /\ ~Exhausted(n)

AllocTraps(n) == g_heap_size = 0 \/ (~Wraps(n) /\ Exhausted(n))

BlockAt == (g_heap_base + AtOff) % Word

(* Mutant of Reserve: the cursor moves by the request, from where it was. *)
ReserveUnrounded(n) ==
  /\ g_heap_used' = (g_heap_used + n) % Word
  /\ UNCHANGED << g_heap_base, g_heap_size, g_errno_slot >>

(* The cursor moves past the new block. *)
Reserve(n) ==
  /\ g_heap_used' = (AtOff + RoundUp(n)) % Word
  /\ UNCHANGED << g_heap_base, g_heap_size, g_errno_slot >>

(* heap_alloc returns 0: silently when a sum wrapped, with a trap when the *)
(* heap is absent or exhausted.                                            *)
AllocFails(n) ==
  /\ ~Fits(n)
  /\ IF AllocTraps(n) THEN Trap ELSE UNCHANGED aborted
  /\ r0' = 0
  /\ UNCHANGED << heap, mem, live >>

(* The caller of malloc or realloc now owns n bytes at a; `owned` are the  *)
(* blocks it owned and keeps.                                              *)
Granted(a, n, owned) ==
  live' = [b \in owned \cup {a} |-> IF b = a THEN n ELSE live[b]]

--------------------------------------------------------------------------------
(* Mutant of HeapInit: the cursor starts at the errno slot. *)
HeapInitOverErrno(base, size) ==
  /\ ~aborted
  /\ g_heap_size = 0
  /\ g_heap_base' = base
  /\ g_heap_size' = size
  /\ IF size >= ErrnoBytes THEN g_errno_slot' = base ELSE UNCHANGED g_errno_slot
  /\ g_heap_used' = 0
  /\ UNCHANGED << g_trace, aborted, mem, r0, live >>

(* vita_heap_init, which the host calls before the program allocates.  A   *)
(* region too small for errno leaves the slot as it was.                   *)
HeapInit(base, size) ==
  /\ ~aborted
  /\ g_heap_size = 0
  /\ g_heap_base' = base
  /\ g_heap_size' = size
  /\ IF size >= ErrnoBytes
       THEN g_errno_slot' = base /\ g_heap_used' = ErrnoBytes
       ELSE g_heap_used' = 0 /\ UNCHANGED g_errno_slot
  /\ UNCHANGED << g_trace, aborted, mem, r0, live >>

(* Mutant of Malloc: malloc(0) is an allocation like any other. *)
MallocEmpty(n) ==
  /\ ~aborted
  /\ \/ /\ Fits(n)
        /\ Reserve(n)
        /\ r0' = BlockAt
        /\ Granted(BlockAt, n, DOMAIN live)
        /\ UNCHANGED << aborted, mem >>
     \/ AllocFails(n)
  /\ UNCHANGED g_trace

(* malloc(0) is NULL and touches nothing.  realloc(NULL, n) is the same     *)
(* call: NULL when n is 0, heap_alloc(n) otherwise.                        *)
Malloc(n) ==
  /\ ~aborted
  /\ \/ /\ n = 0
        /\ r0' = 0
        /\ UNCHANGED << heap, aborted, mem, live >>
     \/ /\ n # 0
        /\ Fits(n)
        /\ Reserve(n)
        /\ r0' = BlockAt
        /\ Granted(BlockAt, n, DOMAIN live)
        /\ UNCHANGED << aborted, mem >>
     \/ n # 0 /\ AllocFails(n)
  /\ UNCHANGED g_trace

(* Mutant of Copied: source and destination swapped. *)
CopiedBack(dst, src, len) ==
  [a \in MemAddr |-> IF a \in src .. src + len - 1 THEN mem[dst + (a - src)]
                                                    ELSE mem[a]]

(* memmove within guest memory: the source is read before any byte of the  *)
(* destination is written.                                                 *)
Copied(dst, src, len) ==
  [a \in MemAddr |-> IF a \in dst .. dst + len - 1 THEN mem[src + (a - dst)]
                                                    ELSE mem[a]]

(* realloc of a block the program owns, to a fresh block: the old size is  *)
(* not known, so up to n bytes that memory can back are copied.  A pointer *)
(* vita_mem_ptr refuses traps in gp(), and nothing is copied.              *)
Realloc(old, n) ==
  LET copy == MinOf(n, Avail(old))
      copies == copy # 0 /\ Backed(BlockAt, copy) /\ Backed(old, copy)
  IN
  /\ ~aborted
  /\ \/ /\ n = 0
        /\ r0' = 0
        /\ UNCHANGED << heap, aborted, mem, live >>
     \/ /\ n # 0
        /\ Fits(n)
        /\ Reserve(n)
        /\ mem' = IF copies THEN Copied(BlockAt, old, copy) ELSE mem
        /\ IF copy = 0 \/ copies THEN UNCHANGED aborted ELSE Trap
        /\ r0' = BlockAt
        /\ Granted(BlockAt, n, DOMAIN live \ {old})
     \/ n # 0 /\ AllocFails(n)
  /\ UNCHANGED g_trace

(* free is a no-op of the allocator: only the program's ownership ends. *)
Free(a) ==
  /\ ~aborted
  /\ live' = [b \in DOMAIN live \ {a} |-> live[b]]
  /\ UNCHANGED << heap, g_trace, aborted, mem, r0 >>

(* The program stores a byte of a block it owns (vita_write8). *)
Store(a, i, v) ==
  /\ ~aborted
  /\ mem' = IF Backed(a + i, 1) THEN [mem EXCEPT ![a + i] = v] ELSE mem
  /\ UNCHANGED << heap, g_trace, aborted, r0, live >>

(* errno = v: the program calls _sceLibcErrnoLoc and stores one word        *)
(* through the result.  Before vita_heap_init the slot is 0, which is not  *)
(* backed, and the store is dropped.                                       *)
ErrnoStore(v) ==
  /\ ~aborted
  /\ r0' = g_errno_slot
  /\ mem' = IF Backed(g_errno_slot, ErrnoBytes)
              THEN [a \in MemAddr |->
                      IF a \in g_errno_slot .. g_errno_slot + ErrnoBytes - 1
                        THEN v ELSE mem[a]]
              ELSE mem
  /\ UNCHANGED << heap, g_trace, aborted, live >>

Init ==
  /\ g_heap_base = 0 /\ g_heap_size = 0 /\ g_heap_used = 0
  /\ g_errno_slot = 0
  /\ g_trace \in BOOLEAN
  /\ aborted = FALSE
  /\ mem = [a \in MemAddr |-> Zero]
  /\ r0 = 0
  /\ live = [a \in {} |-> 0]

Next ==
  \/ \E r \in Regions : HeapInit(r[1], r[2])
  \/ \E n \in Requests : Cardinality(DOMAIN live) < MaxLive /\ Malloc(n)
  \/ \E a \in DOMAIN live, n \in Requests : Realloc(a, n)
  \/ \E a \in DOMAIN live : Free(a)
  \/ \E a \in DOMAIN live, v \in Values : \E i \in 0 .. live[a] - 1 : Store(a, i, v)
  \/ \E v \in Values : ErrnoStore(v)

Spec == Init /\ [][Next]_vars

--------------------------------------------------------------------------------
(* The types of the variables; every address and size fits its width. *)
TypeOK ==
  /\ g_heap_base \in 0 .. Word - 1 /\ g_heap_size \in 0 .. Word - 1
  /\ g_heap_used \in 0 .. Word - 1 /\ g_errno_slot \in 0 .. Word - 1
  /\ g_trace \in BOOLEAN /\ aborted \in BOOLEAN
  /\ mem \in [MemAddr -> Values]
  /\ r0 \in 0 .. Word - 1
  /\ DOMAIN live \subseteq 0 .. Word - 1
  /\ live \in [DOMAIN live -> 1 .. Word - 1]

(* Every block the program holds lies inside the region the host named and *)
(* below the cursor, whatever sizes were asked for and whichever sums      *)
(* wrapped on the way (heap_alloc's two guards).                           *)
BlocksInRegion ==
  \A a \in DOMAIN live :
    /\ g_heap_base <= a
    /\ a + live[a] <= g_heap_base + g_heap_used
    /\ g_heap_used <= g_heap_size

(* No byte belongs to two blocks: malloc and realloc never hand out memory *)
(* the program still owns.                                                 *)
BlocksDisjoint ==
  \A a, b \in DOMAIN live : a < b => a + live[a] <= b

(* Every block starts on the granule although the errno slot, one word,    *)
(* leaves the cursor off it (the comment in heap_alloc).                   *)
BlocksAligned == \A a \in DOMAIN live : a % Align = 0

(* A store through errno reaches no block, and no block covers errno. *)
ErrnoApart ==
  g_errno_slot # 0 =>
    /\ Backed(g_errno_slot, ErrnoBytes)
    /\ \A a \in DOMAIN live :
         a + live[a] <= g_errno_slot \/ g_errno_slot + ErrnoBytes <= a

(* The program stops without tracing only for an absent or full heap: the  *)
(* copy inside realloc is always backed and never the cause (gp).          *)
AbortsOnlyAtAllocation ==
  [][aborted' # aborted => r0' = 0 /\ UNCHANGED << heap, mem, live >>]_vars

--------------------------------------------------------------------------------
(* Each block is an object of the abstract allocator, named by its address *)
(* and holding the bytes of memory it covers; errno is its slot.           *)
Objects ==
  [a \in DOMAIN live |-> [i \in 0 .. live[a] - 1 |-> mem[a + i]]]

ErrnoCell ==
  [i \in 0 .. (IF g_errno_slot = 0 THEN 0 ELSE ErrnoBytes) - 1
     |-> mem[g_errno_slot + i]]

A == INSTANCE Allocator
       WITH Handles <- 0 .. Word - 1, objects <- Objects, errno <- ErrnoCell

(* The heap gives the guest separate objects that keep their contents: no  *)
(* call and no store changes a block other than the one it names, and      *)
(* realloc keeps the common prefix.                                        *)
ImplementsAllocator == A!Spec
================================================================================
