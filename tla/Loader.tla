--------------------------------- MODULE Loader ---------------------------------
(***************************************************************************)
(* src/src/loader.c, and the guest memory of src/src/mem.c it fills.  The  *)
(* file is a function from offsets to cells; an ELF header and a program   *)
(* header are one cell each, as is a byte.  What the first cell reads as   *)
(* is kept beside the cells.                                               *)
(***************************************************************************)
EXTENDS Integers

CONSTANTS
  AddrSpace,   (* 2^32                                                     *)
  Regions      (* what a host may give vita_mem_init by itself             *)

Addr == 0 .. AddrSpace - 1
Region == [base : Addr, size : Nat \ {0}]
Zero == [tag |-> "zero"]
NoFile == << >>
NoInfo == [lowest |-> AddrSpace - 1, highest |-> 0, segments |-> 0]

ASSUME LoaderAssumption ==
  /\ AddrSpace \in Nat \ {0}
  /\ Regions \subseteq Region

VARIABLES
  disk,        (* the ELF: offset -> cell                                  *)
  stage,       (* what the host has done: probed, memory made, loading ... *)
  probed,      (* vita_load_info of vita_probe_elf                         *)
  info,        (* and of vita_load_elf                                     *)
  entry,       (* program header the loop is at                            *)
  memBase, memSize,
  mem,         (* g_mem, by guest address                                  *)
  overrun      (* a copy went past the end of g_mem                        *)

loadVars == << disk, stage, probed, info, entry, memBase, memSize, mem, overrun >>

--------------------------------------------------------------------------------
Size == IF disk = NoFile THEN 0 ELSE disk.size
Header == disk.head
IsElf == Size > 0 /\ Header.tag = "ehdr" /\ Header.phentsize # 0

(* The offset of a program header, and where the loop breaks off: after    *)
(* the last, or at one that is not all in the file.                        *)
Offset(i) == Header.phoff + i * Header.phentsize
AtEnd(i) == i >= Header.phnum \/ Offset(i) + 1 > Size

(* A cell that is no program header is not PT_LOAD to either. *)
Counted(c) ==
  /\ c.tag = "phdr" /\ c.load
  /\ c.offset + c.filesz <= Size

(* Mutant of Count: the probe measures what is in the file. *)
CountInFile(inf, c) ==
  LET top == (c.vaddr + c.filesz) % AddrSpace
  IN  [lowest   |-> IF c.vaddr < inf.lowest THEN c.vaddr ELSE inf.lowest,
       highest  |-> IF top > inf.highest THEN top ELSE inf.highest,
       segments |-> inf.segments + 1]

(* One iteration's part of the info; vaddr + memsz is 32 bits. *)
Count(inf, c) ==
  LET top == (c.vaddr + c.memsz) % AddrSpace
  IN  [lowest   |-> IF c.vaddr < inf.lowest THEN c.vaddr ELSE inf.lowest,
       highest  |-> IF top > inf.highest THEN top ELSE inf.highest,
       segments |-> inf.segments + 1]

(* vita_mem_ptr does not fail: addr is at or above the base, and the sum,  *)
(* in 64 bits, within the size.                                            *)
InGuest(addr, len) == addr >= memBase /\ (addr - memBase) + len <= memSize

(* vita_probe_elf: the whole walk, without a side effect. *)
Probe ==
  LET walk[i \in 0 .. Header.phnum] ==
        IF i = 0 THEN NoInfo
        ELSE IF AtEnd(i - 1) \/ ~Counted(disk.cell[Offset(i - 1)]) THEN walk[i - 1]
        ELSE Count(walk[i - 1], disk.cell[Offset(i - 1)])
  IN  /\ stage = "file"
      /\ probed' = IF IsElf THEN walk[Header.phnum] ELSE NoInfo
      /\ stage' = IF probed'.segments # 0 THEN "probed" ELSE "unusable"
      /\ UNCHANGED << disk, info, entry, memBase, memSize, mem, overrun >>

(* The host sizes its memory from the probe, or from a guess. *)
Measured == [base |-> probed.lowest, size |-> (probed.highest - probed.lowest) % AddrSpace]

MemInit ==
  /\ stage = "probed"
  /\ \E r \in (Regions \cup {Measured}) \cap Region :
       /\ memBase' = r.base /\ memSize' = r.size
       /\ mem' = [a \in r.base .. r.base + r.size - 1 |-> Zero]
  /\ stage' = "memory"
  /\ UNCHANGED << disk, probed, info, entry, overrun >>

LoadStart ==
  /\ stage = "memory"
  /\ info' = NoInfo /\ entry' = 0 /\ stage' = "loading"
  /\ UNCHANGED << disk, probed, memBase, memSize, mem, overrun >>

(* Mutant of Filled: .bss keeps what was there. *)
FilledNoBss(c) ==
  [a \in DOMAIN mem |->
     IF a \in c.vaddr .. c.vaddr + c.filesz - 1
       THEN disk.cell[c.offset + (a - c.vaddr)] ELSE mem[a]]

(* Guest memory after one segment: its filesz bytes, then zeroes up to memsz. *)
Filled(c) ==
  [a \in DOMAIN mem |->
     CASE a \in c.vaddr .. c.vaddr + c.filesz - 1 -> disk.cell[c.offset + (a - c.vaddr)]
       [] a \in c.vaddr + c.filesz .. c.vaddr + c.memsz - 1 -> Zero
       [] OTHER -> mem[a]]

(* One iteration of the loop of walk, loading.  Room is asked for memsz    *)
(* bytes and filesz are copied: a copy that leaves g_mem is undefined, and *)
(* kills the host or lets it go on.                                        *)
LoadEntry ==
  /\ stage = "loading" /\ ~AtEnd(entry)
  /\ LET c == disk.cell[Offset(entry)]
     IN  \/ /\ ~Counted(c)
            /\ entry' = entry + 1
            /\ UNCHANGED << stage, info, mem, overrun >>
         \/ /\ Counted(c)
            /\ info' = Count(info, c)
            /\ \/ /\ ~InGuest(c.vaddr, c.memsz)
                  /\ stage' = "failed"
                  /\ UNCHANGED << mem, entry, overrun >>
               \/ /\ InGuest(c.vaddr, c.memsz)
                  /\ mem' = Filled(c) /\ entry' = entry + 1
                  /\ overrun' = (overrun \/ ~InGuest(c.vaddr, c.filesz))
                  /\ UNCHANGED stage
               \/ /\ InGuest(c.vaddr, c.memsz) /\ ~InGuest(c.vaddr, c.filesz)
                  /\ overrun' = TRUE /\ stage' = "killed"
                  /\ UNCHANGED << mem, entry >>
  /\ UNCHANGED << disk, probed, memBase, memSize >>

LoadEnd ==
  /\ stage = "loading" /\ AtEnd(entry)
  /\ stage' = IF info.segments # 0 THEN "loaded" ELSE "failed"
  /\ UNCHANGED << disk, probed, info, entry, memBase, memSize, mem, overrun >>

LoadInit ==
  /\ disk = NoFile /\ stage = "none"
  /\ probed = NoInfo /\ info = NoInfo /\ entry = 0
  /\ memBase = 0 /\ memSize = 0 /\ mem = << >> /\ overrun = FALSE

LoadNext == Probe \/ MemInit \/ LoadStart \/ LoadEntry \/ LoadEnd

--------------------------------------------------------------------------------
(* Properties.                                                             *)

Wraps == \E i \in 0 .. Header.phnum - 1 :
  LET c == disk.cell[Offset(i)]
  IN  ~AtEnd(i) /\ Counted(c) /\ c.vaddr + c.memsz >= AddrSpace

(* What the probe measures is enough: memory sized from it takes every     *)
(* segment the load counts, and both count the same, unless a segment      *)
(* ends at the top of the address space, where vaddr + memsz wraps, or a   *)
(* copy has left the memory.                                               *)
ProbeSuffices ==
  ~overrun =>
    /\ stage = "loaded" => info = probed
    /\ stage = "failed" /\ [base |-> memBase, size |-> memSize] = Measured => Wraps

(* What the loop writes for an entry: filesz bytes, or memsz if that is more. *)
Reach(c) == IF c.filesz > c.memsz THEN c.filesz ELSE c.memsz

Over(n, a) == { i \in 0 .. n - 1 :
                  ~AtEnd(i) /\ Counted(disk.cell[Offset(i)])
                  /\ LET c == disk.cell[Offset(i)] IN a \in c.vaddr .. c.vaddr + Reach(c) - 1 }

LastOver(S) == CHOOSE i \in S : \A j \in S : j <= i

(* An address of guest memory holds the bytes of the last of the entries   *)
(* done that wrote it, and zero where none, or only its .bss, reaches.     *)
ImageLoaded ==
  \A a \in DOMAIN mem :
    IF Over(entry, a) = {} THEN mem[a] = Zero
    ELSE LET c == disk.cell[Offset(LastOver(Over(entry, a)))]
         IN  mem[a] = IF a - c.vaddr < c.filesz THEN disk.cell[c.offset + (a - c.vaddr)] ELSE Zero

(* A copy leaves guest memory only for an entry with more bytes in the     *)
(* file than in memory.                                                    *)
OverrunMeant ==
  overrun => \E i \in 0 .. Header.phnum - 1 :
               /\ ~AtEnd(i) /\ Counted(disk.cell[Offset(i)])
               /\ disk.cell[Offset(i)].filesz > disk.cell[Offset(i)].memsz
================================================================================
