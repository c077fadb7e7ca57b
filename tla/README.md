# vitarecomp in TLA+

vitarecomp recompiles PlayStation Vita modules to C ahead of time. A host tool,
`armrecomp`, opens the container, finds the functions and writes C; the
generated program links with a small runtime that gives it memory, firmware
functions and a way to transfer to an address it computed. This directory holds
TLA+ models of that code, the TLC runs that check them, and TLAPS proofs of the
most important results for every value of the parameters.

The program is sequential: no threads, no signals, nothing persistent that a
restart would read back. What is hard in it is of another kind: walks over
untrusted files and programs that must end and must lose nothing, state that is
written for one purpose and read for another, two lists that must merge into one
table, arithmetic at the edge of 32 bits, tables that fill, translations that
look right and differ in a flag, and long sequences of legal calls.

## The system

```
 SELF file ─ container ─ inflate ─► ELF image ─ module (imports, exports, stubs)
                                        │             │
                                        ▼             ▼
                       decode ◄── discovery (analyze) ──► emitter ─► generated C
                                                                       │ dispatch table
 host program: mem, loader, heap region                                ▼
       cpu state ◄─ generated functions ─► dispatch ─► trap        (hle_libc)
```

| Component | Source (under `src/`) | State it keeps | Operations | What makes it correct |
|---|---|---|---|---|
| guest heap | `src/hle_libc.c` | base, size, cursor, errno slot | init, malloc, calloc path, realloc, free | blocks inside the region, apart, aligned; contents kept; failure changes nothing |
| traps | `src/trap.c` | trace flag, seen table, count | unimpl, indirect, import | no gap passed in silence, no line twice |
| dispatch | `src/dispatch.c`, table from `emit.c` | table, count, hits, misses | init, dispatch | a transfer runs what its pointer means, or traps |
| discovery | `tools/armrecomp/analyze.c` | seed queue, registry, bitmap, block stack | discover | ends; loses no block; names every callee; ARM only where vouched for |
| emitter | `tools/armrecomp/emit.c` | body, labels, visited table per function | emit | no goto without a label, no call of an undefined symbol, flow kept |
| decoder, translation | `tools/armrecomp/decode.c`, `emit.c` | none | decode, `emit_insn` | the C changes registers, flags and memory as the instruction does, or traps |
| module info | `tools/armrecomp/module.c` | stubs, imports | parse, find stub | tables bounded, stubs sorted and found, NID paired with its stub |
| container, extract | `tools/armrecomp/container.c`, `main.c` | program headers, segment table, the ELF put together | parse, extract | counts bounded; every segment whole and in its place, or no file |
| inflate | `tools/armrecomp/inflate.c` | bit buffer, codes, output position | inflate, zlib | canonical codes, bounds, every loop ends |
| NID database | `tools/armrecomp/nids.c` | entries, current library | load, look up | names belong to the right library |
| guest memory | `src/mem.c` | region, bad-access count | init, free, ptr, avail, read, write | an access is inside or refused |
| loader | `src/loader.c` | info of the file | probe, load | probe and load agree; bss is zero |
| CPU and VFP helpers | `src/cpu.c`, `src/vfp.c`, headers | registers, flags | arithmetic | ARM's flag semantics |
| command line | `tools/armrecomp/main.c` | none | info, extract (above), cover, funcs, discover, emit | reports |

They interact by calls in one thread. Discovery reads the image and the module
and fills the registry the emitter turns into symbols; the emitter's table is
the runtime's dispatch table; dispatch, libc and generated code share the
register globals, guest memory and the trap functions.

`PROJECT.json` lists the components with what is modelled of each, the hazards
with the properties that cover them, and the source lines of every definition.

## Modules

| Module | Models |
|---|---|
| `Allocator` | what a heap promises: separate objects that keep their contents |
| `GuestHeap` | the bump allocator of `hle_libc.c` with its errno slot, over the memory of `mem.c`; `INSTANCE Allocator` states the refinement |
| `GuestHeapProofs` | invariants and the refinement, proved |
| `Discovery` | `vf_discover`, one step per iteration of its loops |
| `DiscoveryProofs` | invariants, proved |
| `Trap` | `trap.c`; operators used as parts of steps elsewhere |
| `Dispatch` | the table merge of `em_emit`, `vita_dispatch_init` and `vita_dispatch`; extends `Trap` |
| `DispatchProofs` | invariants, proved; those of `Trap` with them |
| `Emission` | `collect` of `emit.c`, then the control flow of the C `emit_insn` prints, run next to the guest's |
| `EmissionProofs` | invariants, proved |
| `Inflate` | `inflate.c`: bit reader, codes, block types, back-references, the zlib frame |
| `Loader` | `loader.c` and the memory of `mem.c`: probe, sizing, load |
| `Extract` | `vc_parse` and `cmd_extract`; composes `Inflate` and `Loader`, from a SELF to guest memory |
| `ExtractProofs` | invariants of all three, proved |
| `Induction` | proof rules: induction and recursion over numbers and finite sets, sums as areas |
| `Arith` | the integer helpers of `recomp_rt.h`, at any width |
| `Machine` | the reference: what the architecture says an instruction does |
| `Translate` | the operands `arm_decode` keeps and the C `emit_insn` prints, run next to `Machine` |
| `TranslateProofs` | the helpers, every translated encoding, and runs of them, proved |
| `Imports` | `vm_parse`, the stub lookup, the NID database and the name of a callee |
| `ImportsProofs` | invariants, proved |
| `MC*` | the small instances for TLC |

### GuestHeap

`g_heap_base`, `g_heap_size`, `g_heap_used` and `g_errno_slot` are the statics
of `hle_libc.c`; `mem` is guest memory, `r0` the result register, `aborted`
says that a trap called `abort`. `live` has no counterpart in C: it is what the
guest has been given and not returned, which is what a heap is about. Every
sum the C code makes in `uint32_t` is taken modulo `Word`. The actions are the
calls (`HeapInit`, `Malloc`, `Realloc`, `Free`) and the guest's own stores
(`Store`, `ErrnoStore`), without which no contents could be lost. Each of
`malloc` and `realloc` is one step with the outcomes of `heap_alloc` as
disjuncts: fits, fails because a sum wrapped (silently), fails for lack of
space (with a trap).

The host is assumed to place the heap inside guest memory and on an aligned
address (`RegionAssumption`); nothing in the runtime checks it, and its only
host does so. The refinement maps each block to an object named by its address
and holding the bytes memory has there. `Allocator` says that an operation on one object
changes no other, that realloc keeps the common prefix, and that a failed call
changes nothing.

### Discovery

`funcs`, `q`, `head`, `local` and `cur` are the registry, the seed queue with
its cursor, the stack of blocks and the address of the walk. `seen` is the
bitmap, with the number of the function that set the bit instead of a one: the
code never reads the number, the properties do. The phases are the sections of
`vf_discover` in their order. One unit of address is a halfword.

The input is a `Program`: for each mode and address what `arm_decode` answers,
the start address, the exports, the set of stubs, and the words the shape scan
reads (a table run ends where a word is no pointer, so segments are laid end to
end with a separator). The scan measures a run when it is at its start and
counts it down; the model says that directly (`InTable`), which is equal
because a run is only ever measured at its first word or when it is too short.

### Trap and Dispatch

`Trap` gives the abort-or-log step every trap function takes, with the seen
table probed slot by slot (`Report`); the hash is a constant function, so the
proofs hold for every hash. `Dispatch` first merges the two sorted lists one
entry per step as `em_emit` does, then makes the check of
`vita_dispatch_init`, then serves transfers: a search is one step per probe
(`Narrow`) and ends in `Hit` or `Miss`. What a hit runs first matters for one
thing only, whether it is itself a gap: a function cut by `--limit` and an
import nobody implemented are stubs that trap (`Enter`). `Gap` stands for the
traps outside dispatch; its keys include 0 because `hle_libc.c` uses it.

Guest code that a hit starts may transfer again. By then the outer search is
over, and its bounds are locals, so one search at a time is the code's own
behaviour and no abstraction.

### Emission

The first phase is `collect`: `stack`, `cur` and `visited` are its block stack,
its address and its table, `body` and `labels` the two lists of `fbody`. Its
steps are the iterations of its loops, one action per way an instruction is
taken; `cut` notes that one of the three limits was met, which the code does
not remember. The sort is an order on `body` (`After`), the pruning of labels
part of `EndCollect`.

The second phase runs the result. `CGoes` says where the C of an instruction
leads and `GuestGoes` where the instruction itself leads; both are at a
location: an instruction of the function, gone to a function, returned, at a
computed address, trapped. A call is one step and its callee returns. Data is
abstracted to one bit per instruction, whether it changes anything but the
program counter, and to the outcome of each condition, which `Run` chooses.
`Insn` states which classes and operations the decoder puts together; the
proofs assume no more of it. `it` is the state the hardware keeps after an IT
instruction. It has no counterpart in the tool, which is finding 4.

`FlowKept` is the claim of the file's header: translation is instruction for
instruction, and a gap stops the program. It excuses what the code is known to
do in silence, each case with a definition of its own:

- instructions an IT instruction governs (`governed`, finding 4);
- `ConditionLost`: the condition of an ARM instruction, or of a branch bound to
  an import;
- `ReturnBare`: a return whose register list the decoder dropped (finding 3);
- `ReturnByLink`: `bx lr` looks up `lr`, which generated calls never set;
- `SumDropped`: `add pc, rm` is printed as a transfer to `rm`;
- `RunsOn`: the successor was not collected (outside the bound, undecodable, or
  past a limit) or overlaps, and control falls into what was printed next;
- an entry that was not collected.

A new silent way to leave the guest, in any combination of labels, stubs,
functions, bounds and conditions, violates it.

### Inflate, Loader and Extract

`Inflate` is one call of `inf_zlib`, one step per block header, stored block,
code length, symbol or byte of a back-reference. `src` with `at` is the bit
reader, `over` its flag, `dst` and `cap` the output buffer; `clen`, `lit` and
`dist` are the tables `huff_build` makes, kept with the lengths they come from.
The numbers of RFC 1951 (alphabet, extra bits, code length order) are constants:
the code is the same for any, and a small alphabet has every kind of symbol
within reach of TLC. `DecodesCanonically` compares the two loops of `huff_build`
and `huff_decode` with the definition of a canonical code (an interval of
windows for each symbol) at every position a table is used, over-subscribed and
incomplete tables included. `MatchRepeats` is about overlap: byte-wise copying
is what makes a distance shorter than the length repeat.

In `Extract` a file is what its fields say, and an offset counts cells: a
header, a program header and a byte of a segment are one cell each, so that
what lands where is visible and no byte is put together. `Parse` is `vc_parse`
with the checks of `cmd_extract` before its loop, `PlaceSegment` one iteration,
`Inflated` what follows a call of `inf_zlib`, `Finish` the checks on the result.
Then the file written is `disk`, and `Loader` goes on: `Probe`, a host that
makes memory from the probe or from a guess of its own (`Measured`, `Regions`),
and the load with one program header per step. `walk` of `loader.c` serves both;
so does `Count` here.

`ImagePlaced` says what is in every cell of the ELF. `GuestImage` follows a
segment's bytes into guest memory; it excuses segments that share a place in
file or memory with another, and a segment whose program header some segment
overwrote, which `cmd_extract` accepts because it checks only the ELF magic of
its result. While a load runs, and when it has failed half way, it says that
memory holds what the entries done so far wrote, the last over each address
winning, and nothing of the entry refused (`ImageLoaded`). `ProbeSuffices` ties
the two uses of `walk`: memory sized by the probe is large enough, but for a
segment that ends at the top of the address space, where `vaddr + memsz` wraps
to 0 and the load fails.

Three copies of this code can leave their buffer, since nothing checks what they
rely on; in C that is undefined, and in the model it kills the program
(`Killed`, stage `killed`) or lets it go on with `stray` or `overrun` set:

- `loader.c:73` asks for room for `memsz` bytes and `loader.c:85` copies
  `filesz`. With `filesz > memsz` the copy writes over what follows the segment
  in guest memory, which `Filled` models, and past its end, which sets `overrun`;
- `main.c:257` copies an ELF header into a buffer of `elf_filesize` bytes;
- `main.c:277` adds a segment's offset and length in 64 bits, and a sum that
  wraps passes the test for the end of the file (`Around`, `OffsetSpace`).

The properties say that nothing else does: `overrun` needs an entry with more
bytes in the file than in memory, `stray` one of the other two. After such a
copy they promise nothing more. What the bytes placed over the ELF header read
as is left open (`front`): they may be an ELF header of their own. Allocation
and the opening of the output may fail. Assumed of inputs: the offsets in the
SCE header are far below 2^64 (`container.c:28`, `:36` and `:114` add to them).
A write cut short by a full disk (`main.c:352`) is not modelled. The program
headers beyond the 32nd are copied and their segments are not placed: the model
does the same (`MaxSegments`), and the loader zero-fills from what the file has
there.

### Arith, Machine and Translate

`Translate` runs an instruction twice: `MachineStep` on the machine's registers,
flags and memory (`arm`), and `Emitted(Decode(i))` on the runtime's (`cpu`). An
instruction is a record of the fields of its encoding; `Encoded` in `Machine`
says which encodings there are and what each field may hold. `Decode` keeps what
`arm_decode` keeps of it, `Emitted` does what the printed C does, with the
helpers of `Arith`. `Machine` is written from the architecture and in its own
way (flags from exact sums, shifts that give their carry out) and shares with
`Arith` only the bitwise operators.

`StateKept` says that the two agree on everything, after any instructions
before, except where a named gap put something in doubt; the run stops a path
there. The gaps are what the code does in silence instead of trapping:
`ZeroIsWidth` (LSR, ASR #0 shift by 0), `OtherOperation` (wide RSB as negation,
ORN as MVN, TEQ as TST, REVSH as REV, and byte extends as halfword ones: the
table at `decode.c:988` is indexed by two of the three bits that tell them apart),
`SourceDropped` (three-register shifts and MUL use the destination as source),
`AdrUnaligned`, `AddressDropped` (writeback, indexing and shifted indexes of
wide accesses), `LiteralBelow` (the offset of a wide literal below the program
counter is read as one of the register forms, and added), `LiteralAsWord`,
`BaseLoaded` (LDRD whose first half is its base), `ShifterCarry` (logical
operations and shifts leave the carry),
`BorrowWraps` and `BorrowChangesSign` (SBCS adds the borrow to the operand
first). Each is necessary: without any one of them the run finds `StateKept`
violated. `BranchesKept` follows the flags to where they matter.

An immediate of the wide data-processing forms is a byte and a place.
`thumb_expand_imm` puts the word together by shifts and ors as the code does;
`ExpandImm` in `Machine` is the byte times the weights of its places, or a
rotation, with its carry.

Encodings leave out what `Emission` models (branches, calls, returns), what the
architecture calls unpredictable, VFP, and conditional execution; also 16-bit
LDM and STM, which get no operation and trap, and the element loads and stores
at 0xF9x0: `decode.c:952-964` looks at bit 8 for loads only and takes the stores
among them for STR, STRB or STRH. So "every encoding" below means those of
`Encoded`. `Fits` keeps to accesses that guest memory holds, since others stop
the program.

### Imports

The module is words, of which `listed` is what a toolchain put in and `segLen`,
`fileLen` how much of it is there. `ParseHeader`, `WalkImport`, `PairImport` and
`SortStubs` are the parts of `vm_parse`; the sort may leave stubs of one address
in any order, as `qsort` may. Then `OpenFile` and `ReadLine` are the NID parser:
the library, its NID and the section are its locals, carried from line to line.
`hle_symbol` is the name the emitter gives a stub.

`StubsFound` compares the stubs, and what a lookup finds at every address, with
what the tables say: whole tables or none, each NID with its own stub.
`ImportsNamed` says that the database, once read, holds every function its files
declare, under its library; that under a NID which is not also a variable's or a
module's it holds nothing else; that a callee with such a NID gets a name
declared for it in its library, or else one declared in any, or else its NID;
and that a library gets a name declared for it. What it leaves out is what
`NothingInvented` is about, the claim of `nids.c:15-16` that a line of another
shape yields nothing, and that run finds it violated (finding 5).

A directory holds files in the format of vita-headers, with libraries of
functions, of variables, of both or of neither: no name is a keyword that opens
a section, no entry has NID 0. An entry of an import table may say any size,
and an import may have lost the pointer to one of its tables or to both, so that
tables that cannot be read come before some that can. The import table of a
module is where its header says, or the header is damaged, and the two tables
of an import are of one length (`ImportsAssumption`). How far the segment and
the file reach is left open, so every truncation is covered.

## Runs

| Run | Distinct states | What it asks |
|---|---|---|
| `guest_heap` | 32,503 | every call sequence with up to three live blocks over four regions (filling memory, ending off the granule, too small for errno, empty), with a request whose rounding wraps |
| `discovery` | 268,950 | every four-halfword program over nine Thumb instructions, in a module with a start function, a stub and an ARM export that calls, and in one without |
| `dispatch` | 515,942 | every pair of up to four functions and up to two stubs over four addresses, stubs duplicated too, two transfers and two other traps, a seen table of two slots with collisions |
| `emission` | 470,790 | 45,392 functions of up to six halfwords: loops, branches forward, back, out of the function, to an import and to nothing, calls, returns, IT, ARM; limits of four visited slots, two blocks and four instructions, so each is met |
| `extract` | 259,226 | some 5,800 DEFLATE streams in two sizes (all short ones; all continuations of a stored block, a match and dynamic blocks), segments that overlap, are empty, do not fit or lie over the headers, files with one thing wrong, sums that wrap, segments with more bytes in the file than in memory, loaded into memory sized by the probe or not |
| `translate` | 90,837 | every pair of encodings the decoder has a case for, from registers that hold the values where helpers turn |
| `imports` | 115,638 | modules of up to four imports in both layouts and other sizes, whole, cut, damaged or with a table lost, with directories of up to two files |
| `discovery_tables` | | finding 1 |
| `dispatch_key_zero` | | finding 2 |
| `emission_wide_pop` | | finding 3 |
| `emission_it` | | finding 4 |
| `imports_invented` | | finding 5 |

Bounds. Heap: sizes scale with the granule, and 20 addresses with a granule of
4 hold four blocks and a wrapped size, so every branch of `heap_alloc` is
taken; `MaxLive` bounds blocks, not calls. Discovery: four halfwords hold two
calls or a loop with a conditional exit, overlap of wide instructions, running
off the end and calls to outside; `RunMin` is 2 and not 4 so that tables and
near-tables fit. Dispatch: tables of up to six entries take the search to depth three, and
a seen table of two slots is full after two keys while a third and a fourth
still trap; `MaxTransfers` bounds the calls, since the counters only grow.
Emission: six halfwords hold a loop, a forward and a
backward branch and an overlap, and the extents include none, a short one and
the whole segment, so both cases of the bound occur.
Extract: bytes of two bits, codes of up to four bits, three distances and two
length symbols make every block type, run code, incomplete and over-subscribed
table fit in some 25 bits; `MaxSegments` is 2 and files have up to three
segments, so the table of `vc_module` is met full; 16 addresses let a segment
end at the top of the address space, and offsets are modulo 32, so that one can
wrap. Translate: registers of four bits with
bytes of one bit have words, halfwords and bytes with a sign each; `CountMod` 8
is more than the width, so shifts by the width and beyond occur, and every
modified immediate is there; two steps let
the flags and values of one instruction reach the next. Imports: `MaxImports` 3
with four listed meets the limit. The proofs have no bounds.

`CHECK_DEADLOCK FALSE` is set where the system stops: an abort ends the
program, discovery ends, bounded transfers and steps run out. `extract` and
`imports` say where they may rest (`Done`) and are checked for deadlock.

Fairness. Discovery is a loop in one thread that runs until it returns, so
`FairSpec` is weak fairness of `Next`. In `Dispatch` the generator and a search
once begun run to their end (`WF` of `Build` and of `Lookup`); nothing makes
the guest transfer, so `Transfer` and `Gap` have none. In `Emission` the walk
is a loop that runs until it is over (`WF` of `Collect`), and `Run`, the
program, has no fairness. `Extract` needs none to say that every loop of
`inflate.c` ends: `EveryTurnCounts` gives a measure each step lowers, whatever
the bits, and the deadlock check that a call in progress always has a step.

Every property has a mutant: a changed definition of the model, such as a plausible
bug in the code would make it, for which TLC finds the property violated
(`PROJECT.json`, "mutants").

## What is proved

All theorems hold for every value of the constants that meets the `ASSUME`s.

**Heap** (`GuestHeapProofs`). The inductive invariant `HeapInv` adds to the
types that the region is inside memory, that the cursor is within it, that the errno slot
is 0 or at the base with the cursor past it, and that blocks start on the
granule and end, when rounded up, at or below the cursor. Disjointness alone is
not inductive: what keeps the next block off the others is that all of them are
below the cursor. The arithmetic lemmas say when rounding modulo `Word` is
rounding. `HeapImplementsAllocator` shows each action to be an
abstract step or a stutter. `AbortsAtAllocation` follows every access of an
operation: where a block is live, its old and its new place are backed, so the
copy in `realloc` cannot be what stops the program (`CopyBacked`).

**Discovery** (`DiscoveryProofs`). `NoBlockLost` and `CallsHaveFunctions` are
the two results the emitter relies on. Both are closure properties: what a
decoded instruction leads to is decoded or still pending on the stack or in the
queue. The step that needs care is that `seen` never loses an owner and that a
registered function keeps its address and mode. `ArmIsJustified` holds seeds to
what the functions they become are held to (`ArmInv`). `ExtentsAreExact` counts:
a visit adds one address to what the function owns, and its end is the greatest
of the ends of those, so neither short nor long. `HeuristicsOnlyAdd` rests on
the order of the phases: the first drain empties the queue, so the first
function registered after the scan is a guess, and every address decoded from
then on is owned by a function no earlier than that guess (`GuessInv`).
`TablesAreWalked` follows an entry from the word the scan passed to the seed, the
function and, by `FlowClosed`, its decoded entry; the proof showed a case the
property had to name, an address that a reliable seed made an ARM function and
that ARM cannot decode.

**Dispatch** (`DispatchProofs`). `DispInv` has the merge (what
has been taken of both lists, in order, is the table; stub duplicates end up
adjacent), the search (everything left of `lo` is below the key, everything
from `hi` on is above), and the log (a remembered key can be reached by
probing, because slots are never freed). From it follow the table's
completeness, the correctness of each transfer for tables of any length, and
both properties of the log for any hash.

**Emission** (`EmissionProofs`). `EmitInv` has one idea: an address the walk
owes (`Owed`), because it is the entry or an instruction in `body` leads there,
is in `body`, or on the stack, or where the walk is. `SeenInv` closes the gap
that `visited` opens: a marked address is collected or does not decode. At the
end nothing is pending, which gives `BodyClosed`; the pruning gives
`GotosLand`; and that the entry is the least address of the body
(`AboveInv`) makes the C start where the guest does. `OneInstruction` is
the case analysis behind `FlowKept`: every class and operation the decoder
yields, bound to an import or not, labelled or not, with both outcomes.

**Inflate** (`ExtractProofs`). `InfInv`, the inductive invariant, is `MatchInv`
(`MatchRepeats` with the room of the copy in progress), `InfTypeOK` and
`TablesInv`: the tables in force are those `huff_build` makes of some code
lengths. `InflateRepeats` and `InflateBounded` need no more of the tables; they
rest on the tests of the code and not on what a table decodes.

`InflateDecodes` is about what it decodes. `huff_build` counts and sorts;
`huff_decode` walks the lengths with a running `first` and `index`;
`DecodesCanonically` says neither, but gives each symbol an interval of the
windows of `MaxBits` bits, shorter codes first, and asks that the decoder answer
with the owner of the window. The proof relates the two measures of a code: the
width of its share at full length, and its rank among the codes of its own
length. `SharesIs` and `WorthsIs` say what the running sums are worth after `n`
lengths, `ShorterOwn` and `EarlierOwn` where a symbol's interval begins,
`WindowRead` that the bits read so far are the window cut short, and from these
`OwnsIs` says which window stops the walk at which symbol. Lengths that are
over-subscribed or incomplete are covered: then intervals lie beyond the windows
there are, or some window has no owner and nothing is decoded.

`InflateTurns` says that every step of a call makes `Fuel` smaller, so no loop
of `inflate.c` turns for ever; the step that decides it is a symbol read past
the end of the input, where nothing is consumed.

**Extract and load** (`ExtractProofs`). `InfInv` holds in the whole tool, so the
theorems above hold of every stream of every file (`ExtractRepeats`,
`ExtractDecodes`, `ExtractTurns`). `OutInv` says that before segment `k` the ELF
holds exactly segments 1 to `k - 1` over the headers, the last over each cell
winning; `HostInv` that guest memory holds exactly the first `entry` program
headers in the same way. Both hold of a load under way or given up, and both stop at a copy that
left its buffer. Their composition is `GuestLoaded`: a segment's bytes go through
two copies and arrive, for any number of segments in any order and place. `ProbeEnough` rests on `ProbeInv`: there is one walk over the headers
whose last entry is what the probe answered and whose entry at the loader's
place is what the load has counted. A segment that is refused for room would
exceed what that walk has already measured (`MeasuredTakes`).

**Translation** (`TranslateProofs`). `TranslationKept` and `BranchesAgree` hold
for words of any width, whatever encodings a program is made of and in whatever
order they run. The argument has four layers.

- *Bits.* And, or and exclusive or of words are what they are bit by bit, and
  with a mask of low bits they are remainders and quotients. From this the
  helpers' shifts, extends, byte reversal and fields are the architecture's, and
  so is the immediate the decoder expands (`ImmediateExact`): an or of shifted
  bytes is their sum, because no two share a bit
  (`ShiftsExact`, `ExtendExact`, `ReverseExact`, `FieldUnsigned`, `FieldSigned`,
  `FieldInserted`), a whole word and a shift by the width or more included.
- *Flags.* What the helpers derive from wrapped results is what `AddWithCarry`
  says of exact sums: for ADD, ADC and SUB always, for SBC except in the two
  cases the gaps name.
- *Encodings.* Each encoding, outside the gaps, leaves what the machine leaves
  but for the flags its gap names: the value, the flags, or every byte that a
  load, a store, a pair or a register list moves, at the address either side
  computes. A gap instruction may compute anything, so all that
  is shown of it is that it leaves alone whatever it does not name (`Written`).
- *Runs.* `StateKept` is not inductive: from states that differ in a doubtful
  flag the next instruction could spread the difference to a register. `Agreeing`
  adds what a run has and the property does not say: flags are truth values, and
  while nothing is in doubt the two states are one, with every register a word
  and every cell a byte. A run goes on only from there (`Going`), and `StepKept`
  takes one step. Where flags agree, conditions do (`ConditionExact`), and
  `BranchesAgree` follows.

So for the encodings modelled the list of gaps is complete at every width, which
no instance could show.

**Imports and names** (`ImportsProofs`). `StubsAreFound` and `ImportsAreNamed`
hold for every module and every directory. Both begin with where things are: a
file is joined from parts by folds, the offset of a part is a running sum, and
`FlattenSeq` puts part `k` exactly there; so the words `vm_parse` reads at an
offset it computed are those of the entry or table meant (`RecordOf`, `PairsOf`).

- `ModuleInv` is the inductive invariant of `vm_parse`, one conjunct per phase.
  While it walks, `at` is the offset of the entry after those recorded, each is
  readable and recorded as listed, and `total` is their sum. While it pairs,
  the stubs are the pairs of the whole tables passed, and no more than the
  entries passed, which is why the cut at `total_func_imports` never drops one. `StubsFound` speaks of the end alone and is far from
  inductive. Sorting permutes, and the lookup then rests on `Found`: the search
  of any span answers a stub at the address if the span has one, by induction
  on the length of the span.
- `DbInv` is the inductive invariant of the reader: *what is left of the file
  takes it to a database that holds the files opened*. Mid-file the locals can
  be anything the format leads to, and no statement about the database alone is
  kept by a step. `After` is one line as a function of locals and database,
  `Runs` a number of lines, and runs compose; so a library's lines, a module's
  and a file's are followed once each (`LibsDone`, `FileDone`), from whatever
  library and section the file last saw: what the reader adds there that no
  library declares has the NID of a variable or a module. A step then takes one
  line off a run, and opening a file starts one.

**Induction over data** (`Induction`). The library states induction for an
operator parameter, which the provers here cannot instantiate. It is stated for
sets instead: a set of numbers with an element has a least one (`LeastNumber`),
and a family of subsets that has the empty set and, with a member, every member
enlarged by one element, has them all (`SetInduction`). `Recursion` says that a
recursive function over numbers exists and meets its equation. A sum over a
finite set is a fold, and a fold depends on the order in which elements are
chosen; `FoldIsArea` shows it to be the number of cells under the function's
graph, and areas add, split and compare like sets. The canonical code and the
two walks of the loader are reasoned about this way, and so are joined
sequences, binary search and the lines of a file.

**Assumptions on the constants**, beyond types. `RegionAssumption`: the host
gives the heap an aligned region inside guest memory. `AlphabetAssumption`: the
numbers of RFC 1951 fit each other, as those in `inflate.c:118-140` do: every
code length has a place in `clen_order`, and a length read in three bits is at
most the longest. `SegmentAssumption`: a file says something at every place of
the segment table a program header leads to. `WidthAssumption`: a word is four
bytes of equal size. `MachineAssumption`: registers, flags and memory have
different names, and a shift count is read modulo a positive number.
`TranslateAssumption`: instructions are encodings the decoder has a case for
(`Encoded`), and the module's image is bytes. `ImportsAssumption`: files of the
database have the format of vita-headers, the two tables of an import are of one
length, and the import table is where the header says or the header is damaged.
TLC evaluates all of them on the instances.

Only model-checked: liveness (`Terminates`, `TransfersEnd`, `CollectEnds`),
which is out of the prover's reach. Every other property of a passing run is
stated by a theorem. The runs that expect a violation have nothing to prove.

## Findings

1. **A table entry may never become a function** (`discovery_tables`).
   `analyze.c:267` gives the reason pointer tables are read whole. An entry a
   tail call already walked is skipped before the table is considered, has no
   dispatch entry, and traps at run time.
2. **A trap keyed 0 is never logged** (`dispatch_key_zero`). `trap.c:41` says
   each distinct key is reported once; 0 is also the mark of a free slot, and a
   NULL guest pointer is a key.
3. **A wide pop into pc is a bare return** (`emission_wide_pop`). `emit.c:10`
   says an instruction without operands becomes a trap, never an approximation.
   `decode.c:769` classes it as a return before it stores the register list,
   and the fallback for a return prints `return;`.
4. **IT blocks run unconditionally** (`emission_it`). `emit.c:411` and
   `emit.c:900` rely on a condition the decoder has attached to the
   instructions an IT governs; `arm_decode` keeps no state and attaches none.
5. **The NID reader takes other lines for functions** (`imports_invented`).
   `nids.c:15-16` says that what does not match the expected shape yields nothing
   rather than nonsense. Once in a `functions:` section, the reader takes every
   line with a number for a function of the library (`nids.c:134`) until the next
   library line (`nids.c:123`): the entries under `variables:`, and the `nid:` of
   the module that follows. After a library that has no functions, that `nid:`
   is taken for the library's own (`nids.c:128`). Where a variable and a
   function share library NID and NID, the callee gets the name read first,
   which may be the variable's.

Known limits without a run of their own. The bitmap of `analyze.c:80` has no
mode: flow that runs past a call that does not return can enter an ARM stub as
Thumb, and the stub's own walk then finds its address decoded. A conditional
return ends the walk (`analyze.c:159`); discovery meets one only in ARM code.
The flags of SBCS (`emit.c:472`) and the other gaps of `Translate`, the wide byte
extends of `decode.c:988` among them, are named in the model and kept out of
what its properties promise. So are the three copies that can leave their buffer
(`loader.c:85`, `main.c:257`, `main.c:277`), each of which takes a file no
toolchain writes.

## Not modelled, and why

- Floating point: `vfp.h` and the VFP cases of decoder and emitter. TLC has no
  floats, and a model of them by bits would be longer than the code.
- The operands `decode_a32` keeps: the emitter does not use them, since ARM code
  is import stubs; how it moves control is data of `Discovery` and `Emission`.
- The commands other than extract print what the components return and keep no
  state; so does the coverage report of the emitter.
- The string and memory functions of `hle_libc.c` check a guest pointer and hand
  it to the host's library. Their traps are `Gap` in `Dispatch`. The guard of
  static initialisation is one byte, in one thread.
- The walk over the export table that finds each export's address
  (`analyze.c:330-348`): `SeedExport` takes the addresses in the order of the
  tables as part of the program, and models what is done with each one.
- Tests are read for the states and inputs the code is meant to meet.

## Plan

1. `Emission` over what `Discovery` recorded: the composition, with the extents
   and functions discovery leaves instead of chosen ones.
2. The walk over the export table (`analyze.c:330-348`), and `Discovery` with
   its result.
3. The proofs of what these two add.
