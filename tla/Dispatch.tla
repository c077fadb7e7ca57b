-------------------------------- MODULE Dispatch --------------------------------
(***************************************************************************)
(* Indirect transfers of a recompiled program, from the table em_emit      *)
(* generates (src/tools/armrecomp/emit.c) through vita_dispatch_init and   *)
(* the binary search of vita_dispatch (src/src/dispatch.c) to the code     *)
(* that runs or the trap that says why none can (Trap).                    *)
(*                                                                         *)
(* A function that runs may transfer again, but the search of its caller   *)
(* is over by then and its bounds are locals: one search at a time.        *)
(***************************************************************************)
EXTENDS Trap, Sequences

CONSTANTS
  Modules,     (* the recompiled modules                                   *)
  Sites,       (* addresses of indirect transfers                          *)
  Targets,     (* values the program transfers to                          *)
  Gaps,        (* keys of the traps met outside dispatch: instructions, and *)
               (* the guest pointers hle_libc.c refuses                    *)
  MaxTransfers (* bound on vita_dispatch calls and on other traps          *)

None == -1

(* funcs: discovered functions, sorted; emitted: those not cut by --limit. *)
(* stubs: addresses of the import stubs, sorted, Thumb bit clear, with the *)
(* NID of each; implemented: those the runtime defines a function for.     *)
Module ==
  [funcs : Seq(Nat), emitted : SUBSET Nat,
   stubs : Seq(Nat), nids : Seq(Keys), implemented : SUBSET Nat]

Increasing(s)    == \A i, j \in DOMAIN s : i < j => s[i] < s[j]
Nondecreasing(s) == \A i, j \in DOMAIN s : i < j => s[i] <= s[j]

(* Functions are distinct (FunctionsDistinct of Discovery).  Stubs are     *)
(* sorted by vm_parse, which does not remove duplicates.                   *)
ASSUME ModulesAssumption ==
  /\ Modules \subseteq Module
  /\ \A m \in Modules :
       /\ Increasing(m.funcs) /\ Nondecreasing(m.stubs)
       /\ DOMAIN m.nids = DOMAIN m.stubs
       /\ \A i \in DOMAIN m.funcs : m.funcs[i] \in Keys
       /\ \A i \in DOMAIN m.stubs : m.stubs[i] \in Keys

ASSUME CallsAssumption ==
  Sites \subseteq Keys /\ Gaps \subseteq Keys /\ Targets \subseteq Nat /\ MaxTransfers \in Nat

VARIABLES
  mod,
  phase,          (* "merge", "init", "idle" or "search"                   *)
  fi, si,         (* next function and next stub to merge                  *)
  table,          (* vita_functions: [addr, fn], fn the number of a stub   *)
                  (* or 0 for the function recompiled from addr            *)
  stub_shadowed,
  g_count,
  lo, hi,         (* bounds of the search                                  *)
  from, addr,     (* the arguments of the transfer in progress             *)
  hits, misses,   (* g_hits and g_misses of dispatch.c                     *)
  last            (* the last transfer that ended: where to, and what ran  *)

build  == << mod, fi, si, table, stub_shadowed >>
search == << lo, hi, from, addr >>
vars   == << build, phase, g_count, search, hits, misses, last, trapVars >>

Entry == [addr : Nat, fn : Nat]
NF == Len(mod.funcs)
NS == Len(mod.stubs)

--------------------------------------------------------------------------------
(* em_emit: the merge of the two lists, one entry per step.                *)

Merging(newTable) ==
  /\ phase = "merge"
  /\ table' = newTable
  /\ UNCHANGED << mod, phase, g_count, search, hits, misses, last, trapVars >>

StubEntry == Append(table, [addr |-> mod.stubs[si], fn |-> si])
FuncEntry == Append(table, [addr |-> mod.funcs[fi], fn |-> 0])

TakeStub ==
  /\ si <= NS
  /\ fi <= NF => mod.stubs[si] < mod.funcs[fi]
  /\ Merging(StubEntry)
  /\ si' = si + 1
  /\ UNCHANGED << fi, stub_shadowed >>

TakeFunc ==
  /\ fi <= NF
  /\ si <= NS => mod.stubs[si] > mod.funcs[fi]
  /\ Merging(FuncEntry)
  /\ fi' = fi + 1
  /\ UNCHANGED << si, stub_shadowed >>

(* Mutant of TakeBoth: the function is not passed over. *)
TakeBothTwice ==
  /\ si <= NS /\ fi <= NF /\ mod.stubs[si] = mod.funcs[fi]
  /\ Merging(StubEntry)
  /\ si' = si + 1
  /\ stub_shadowed' = stub_shadowed + 1
  /\ UNCHANGED fi

(* Both lists claim the address: the stub wins. *)
TakeBoth ==
  /\ si <= NS /\ fi <= NF /\ mod.stubs[si] = mod.funcs[fi]
  /\ Merging(StubEntry)
  /\ fi' = fi + 1 /\ si' = si + 1
  /\ stub_shadowed' = stub_shadowed + 1

EndMerge ==
  /\ phase = "merge" /\ si > NS /\ fi > NF
  /\ phase' = "init"
  /\ UNCHANGED << build, g_count, search, hits, misses, last, trapVars >>

--------------------------------------------------------------------------------
(* Mutant of Sorted: equal neighbours pass. *)
SortedLoosely == \A i \in 2 .. Len(table) : table[i - 1].addr <= table[i].addr

(* The test vita_dispatch_init makes of each entry and the one before. *)
Sorted == \A i \in 2 .. Len(table) : table[i - 1].addr < table[i].addr

(* vita_dispatch_init: a table that is not sorted is not searched at all. *)
DispatchInit ==
  /\ phase = "init"
  /\ g_count' = IF Sorted THEN Len(table) ELSE 0
  /\ hits' = 0 /\ misses' = 0
  /\ phase' = "idle"
  /\ UNCHANGED << build, search, last, trapVars >>

(* Mutant of Masked: the Thumb bit stays. *)
Unmasked(a) == a

(* addr & ~1u *)
Masked(a) == 2 * (a \div 2)

(* What the search looks for. *)
Key == Masked(addr)

(* vita_dispatch is called: the bounds of the search. *)
Transfer(site, target) ==
  /\ phase = "idle" /\ ~aborted
  /\ hits + misses < MaxTransfers
  /\ from' = site /\ addr' = target
  /\ lo' = 0 /\ hi' = g_count
  /\ phase' = "search"
  /\ UNCHANGED << build, g_count, hits, misses, last, trapVars >>

Searching == phase = "search" /\ lo < hi
Mid == lo + (hi - lo) \div 2

(* g_table[mid]; the table of the code is numbered from 0. *)
Probed == table[Mid + 1]

(* Mutant of Narrow: the high bound moves below the middle. *)
NarrowUnderflow ==
  /\ Searching /\ Probed.addr # Key
  /\ IF Probed.addr < Key THEN lo' = Mid + 1 /\ UNCHANGED hi
                          ELSE hi' = Mid - 1 /\ UNCHANGED lo
  /\ UNCHANGED << build, phase, g_count, from, addr, hits, misses, last, trapVars >>

(* Mutant of Narrow: the low bound moves to the middle, not past it. *)
NarrowShort ==
  /\ Searching /\ Probed.addr # Key
  /\ IF Probed.addr < Key THEN lo' = Mid /\ UNCHANGED hi
                          ELSE hi' = Mid /\ UNCHANGED lo
  /\ UNCHANGED << build, phase, g_count, from, addr, hits, misses, last, trapVars >>

(* One turn of the loop that does not find the key. *)
Narrow ==
  /\ Searching /\ Probed.addr # Key
  /\ IF Probed.addr < Key THEN lo' = Mid + 1 /\ UNCHANGED hi
                          ELSE hi' = Mid /\ UNCHANGED lo
  /\ UNCHANGED << build, phase, g_count, from, addr, hits, misses, last, trapVars >>

(* What the function of an entry does at first: a function not emitted     *)
(* under --limit traps, and so does an import the runtime does not define. *)
Enter(e) ==
  IF e.fn = 0
    THEN IF e.addr \in mod.emitted THEN UNCHANGED trapVars ELSE vita_trap_unimpl(e.addr)
    ELSE IF e.fn \in mod.implemented THEN UNCHANGED trapVars
         ELSE vita_trap_import(mod.stubs[e.fn], mod.nids[e.fn])

Hit ==
  /\ Searching /\ Probed.addr = Key
  /\ hits' = hits + 1
  /\ Enter(Probed)
  /\ last' = [addr |-> addr, ran |-> Probed.fn]
  /\ phase' = "idle"
  /\ UNCHANGED << build, g_count, search, misses >>

(* Mutant of Miss: the caller goes on as if the callee had run. *)
MissReturns ==
  /\ phase = "search" /\ lo >= hi
  /\ misses' = misses + 1
  /\ last' = [addr |-> addr, ran |-> None]
  /\ phase' = "idle"
  /\ UNCHANGED << build, g_count, search, hits, trapVars >>

Miss ==
  /\ phase = "search" /\ lo >= hi
  /\ misses' = misses + 1
  /\ vita_trap_indirect(from)
  /\ last' = [addr |-> addr, ran |-> None]
  /\ phase' = "idle"
  /\ UNCHANGED << build, g_count, search, hits >>

(* Between transfers the program meets a gap of another kind. *)
Gap(k) ==
  /\ phase = "idle" /\ ~aborted
  /\ g_hits < MaxTransfers
  /\ vita_trap_unimpl(k)
  /\ UNCHANGED << build, phase, g_count, search, hits, misses, last >>

--------------------------------------------------------------------------------
Init ==
  /\ mod \in Modules
  /\ phase = "merge"
  /\ fi = 1 /\ si = 1 /\ table = <<>> /\ stub_shadowed = 0
  /\ g_count = 0
  /\ lo = 0 /\ hi = 0 /\ from = 0 /\ addr = 0
  /\ hits = 0 /\ misses = 0
  /\ last = [addr |-> None, ran |-> None]
  /\ TrapInit

Build == TakeStub \/ TakeFunc \/ TakeBoth \/ EndMerge \/ DispatchInit

Lookup == Narrow \/ Hit \/ Miss

Next ==
  \/ Build
  \/ \E s \in Sites, t \in Targets : Transfer(s, t)
  \/ Lookup
  \/ \E k \in Gaps : Gap(k)

Spec == Init /\ [][Next]_vars

(* The generator and a call of vita_dispatch run to their end; nothing     *)
(* makes the program transfer.                                             *)
FairSpec == Spec /\ WF_vars(Build) /\ WF_vars(Lookup)

--------------------------------------------------------------------------------
TypeOK ==
  /\ TrapTypeOK
  /\ mod \in Module
  /\ phase \in {"merge", "init", "idle", "search"}
  /\ fi \in 1 .. NF + 1 /\ si \in 1 .. NS + 1
  /\ table \in Seq(Entry) /\ stub_shadowed \in Nat
  /\ g_count \in {0, Len(table)}
  /\ lo \in 0 .. g_count /\ hi \in 0 .. g_count
  /\ from \in Keys \cup {0} /\ addr \in Nat
  /\ hits \in Nat /\ misses \in Nat
  /\ last \in [addr : Nat \cup {None}, ran : Nat \cup {None}]

Funcs == { mod.funcs[i] : i \in DOMAIN mod.funcs }
Stubs == { mod.stubs[i] : i \in DOMAIN mod.stubs }

(* No two imports share a stub. *)
StubsDistinct == Increasing(mod.stubs)

(* The generated table has every function and every stub exactly once, in  *)
(* order, an address in both lists as its stub (the comment in em_emit),   *)
(* and so passes the runtime's check.                                      *)
TableComplete ==
  phase \notin {"merge", "init"} /\ StubsDistinct =>
    /\ Increasing([i \in DOMAIN table |-> table[i].addr])
    /\ { table[i].addr : i \in DOMAIN table } = Funcs \cup Stubs
    /\ \A i \in DOMAIN table : table[i].addr \in Stubs =>
         table[i].fn # 0 /\ mod.stubs[table[i].fn] = table[i].addr
    /\ g_count = Len(table)

(* The address a pointer to code names; bit 0 is the instruction set. *)
CodeAddr(a) == IF a % 2 = 0 THEN a ELSE a - 1

(* What a pointer means: the import stub at the address it names, else the *)
(* function there, else nothing that is known.                             *)
Means(a, ran) ==
  \/ ran \in DOMAIN mod.stubs /\ mod.stubs[ran] = CodeAddr(a)
  \/ ran = 0 /\ CodeAddr(a) \in Funcs \ Stubs
  \/ ran = None /\ CodeAddr(a) \notin Funcs \cup Stubs

(* A transfer runs exactly what its pointer means, at every position of    *)
(* the table and next to every other address (dispatch.h).                 *)
TransfersResolve ==
  last.addr # None /\ StubsDistinct => Means(last.addr, last.ran)

(* With a table it cannot search, dispatch answers nothing rather than     *)
(* something wrong: when two imports share a stub no transfer runs code.   *)
RefusedNotWrong ==
  ~StubsDistinct => last.ran = None /\ hits = 0

(* Nothing is skipped in silence: without tracing, a program that goes on  *)
(* has only met code that was there; every transfer that missed, stub that *)
(* is not implemented and function that was not emitted stopped it.        *)
GapsStop ==
  env = 0 /\ ~aborted =>
    /\ misses = 0
    /\ last.addr # None =>
         IF last.ran = 0 THEN CodeAddr(last.addr) \in mod.emitted ELSE last.ran \in mod.implemented

(* Every transfer ends, in code or in a trap. *)
TransfersEnd == phase = "search" ~> phase = "idle"
================================================================================
