-------------------------------- MODULE Extract --------------------------------
(***************************************************************************)
(* armrecomp extract: a SELF is parsed (container.c), its segments are     *)
(* inflated or copied into a plain ELF (cmd_extract in main.c), and that   *)
(* ELF is what a host later loads (module Loader).  Module Inflate is      *)
(* called for every compressed segment.                                    *)
(*                                                                         *)
(* A file is what its fields say.  Offsets and lengths are in cells; the   *)
(* ELF header, a program header and a byte of a segment are one cell each, *)
(* the SCE header SceLen and an entry of the segment table one.  The       *)
(* offsets in the SCE header stay far below 2^64; seg is what the segment  *)
(* table says of each of the program headers, and front what the first     *)
(* cell of the output reads as when something lies over the ELF header.    *)
(*                                                                         *)
(* A copy from or to a place outside its buffer is undefined: it kills the *)
(* tool, or the tool goes on and is astray.                                *)
(***************************************************************************)
EXTENDS Inflate, Loader

CONSTANTS
  MaxSegments,   (* VC_MAX_SEGMENTS: 32                                    *)
  SceLen,        (* the SCE header                                         *)
  OffsetSpace,   (* 2^64                                                   *)
  Files

Offsets == 0 .. OffsetSpace - 1
Segment == [offset : Offsets, length : Offsets, zlib : BOOLEAN, encrypted : BOOLEAN,
            frame : Frame]
Front   == [tag : {"ehdr"}, phoff : Nat, phentsize : {0, 1}, phnum : Nat] \cup {Zero}
Phdr    == [tag : {"phdr"}, load : BOOLEAN, exec : BOOLEAN,
            offset : Nat, vaddr : Addr, filesz : Nat, memsz : Nat]
File    == [size : Nat, magic : {"sce", "elf", "none"}, version : Nat,
            elfMagic : BOOLEAN, arm : BOOLEAN,
            elfOffset : Nat, phdrOffset : Nat, segOffset : Nat, elfSize : Nat, front : Front,
            phoff : Nat, phentsize : {0, 1}, entrySegment : 0 .. 3, entryOffset : Nat,
            ph : Seq(Phdr), seg : Seq(Segment)]

ASSUME ExtractAssumption ==
  /\ MaxSegments \in Nat \ {0} /\ SceLen \in Nat \ {0}
  /\ OffsetSpace \in Nat \ {0}
  /\ Files \subseteq File

(* The segment table is addressed by program header: whatever is read there *)
(* is an entry.                                                             *)
ASSUME SegmentAssumption == \A f \in Files : Len(f.ph) <= Len(f.seg)

VARIABLES
  file,
  m,       (* vc_module: how much of the two tables was read               *)
  pc,      (* "parse", "segments", "inflate", "exit", "killed"             *)
  k,       (* segment the loop of cmd_extract is at                        *)
  out,     (* the file being put together                                  *)
  rc,      (* exit code, -1 before                                         *)
  stray    (* a copy was from or to a place outside its buffer             *)

toolVars == << file, m, pc, k, out, rc, stray >>
vars == << toolVars, infVars, loadVars >>

--------------------------------------------------------------------------------
(* vc_parse.                                                               *)

Phnum == Len(file.ph)
Least(a, b) == IF a < b THEN a ELSE b
NoModule == [ok |-> TRUE, phdrs |-> 0, segs |-> 0]

(* Every entry of a table of n, from an offset, is in the file. *)
TableFits(off, n) == n = 0 \/ off + n <= file.size

(* parse_elf_layer adds the program headers it reads to those of r. *)
ParseElf(elfOff, phdrOff, r) ==
  LET n == Least(Phnum, MaxSegments)
  IN  IF r.ok /\ elfOff + 1 <= file.size /\ file.elfMagic /\ file.arm /\ file.phentsize # 0
           /\ TableFits(phdrOff, n)
        THEN [r EXCEPT !.phdrs = r.phdrs + n]
        ELSE [r EXCEPT !.ok = FALSE]

(* parse_self: one entry of the segment table for each program header. *)
ParseSelf ==
  LET r == ParseElf(file.elfOffset, file.phdrOffset, NoModule)
  IN  IF SceLen <= file.size /\ file.version = 3 /\ r.ok /\ TableFits(file.segOffset, r.phdrs)
        THEN [r EXCEPT !.segs = r.phdrs]
        ELSE [r EXCEPT !.ok = FALSE]

(* Mutant of ParsePlain: the second pass adds to the count of the first. *)
ParsePlainTwice == ParseElf(0, file.phoff, ParseElf(0, 0, NoModule))

(* A plain ELF is parsed twice: the table's offset is known only after the *)
(* first pass, which takes it to be 0.                                     *)
ParsePlain ==
  LET first == ParseElf(0, 0, NoModule)
  IN  ParseElf(0, file.phoff, [first EXCEPT !.phdrs = 0])

ParseFile ==
  CASE file.magic = "sce" -> ParseSelf
    [] file.magic = "elf" -> ParsePlain
    [] OTHER -> [NoModule EXCEPT !.ok = FALSE]

--------------------------------------------------------------------------------
(* cmd_extract.                                                            *)

Exit(code) == pc' = "exit" /\ rc' = code
Killed == pc' = "killed" /\ stray' = TRUE /\ UNCHANGED rc

(* memcpy of cells into out. *)
Put(o, off, cells) ==
  [c \in DOMAIN o |-> IF c - off + 1 \in 1 .. Len(cells) THEN cells[c - off + 1] ELSE o[c]]

Ehdr == [tag |-> "ehdr", phoff |-> file.phoff, phentsize |-> file.phentsize, phnum |-> Phnum]
Data(i, j, v) == [tag |-> "data", segment |-> i, byte |-> j, value |-> v]

(* Up to the loop over the segments.  The ELF header is copied into a      *)
(* buffer of elfSize cells before anything is compared with elfSize.       *)
Parse ==
  LET r      == ParseFile
      usable == r.ok /\ file.magic = "sce" /\ \A i \in 1 .. r.segs : ~file.seg[i].encrypted
      fits   == file.phdrOffset + Phnum <= file.size /\ file.phoff + Phnum <= file.elfSize
      blank  == [c \in 0 .. file.elfSize - 1 |-> Zero]
  IN  /\ pc = "parse"
      /\ m' = r
      /\ \/ (* refused, or there is no memory for the output *)
            Exit(1) /\ UNCHANGED << out, stray >>
         \/ usable /\ file.elfSize = 0 /\ Killed /\ UNCHANGED out
         \/ /\ usable
            /\ stray' = (file.elfSize = 0)
            /\ IF fits
                 THEN /\ out' = Put(Put(blank, 0, << Ehdr >>), file.phoff, file.ph)
                      /\ pc' = "segments" /\ UNCHANGED rc
                 ELSE Exit(1) /\ UNCHANGED out
      /\ UNCHANGED << file, k, infVars, loadVars >>

(* A segment whose source begins before the file: its offset and length    *)
(* add up past 2^64.                                                       *)
Around(s) == s.offset + s.length >= OffsetSpace

(* One segment: skipped, refused, copied, or handed to inf_zlib. *)
PlaceSegment ==
  LET s == file.seg[k]
      h == file.ph[k]
      taken == /\ h.filesz # 0
               /\ (s.offset + s.length) % OffsetSpace <= file.size
               /\ h.offset + h.filesz <= file.elfSize
               /\ s.zlib \/ s.length = h.filesz
  IN  /\ pc = "segments" /\ k <= m.segs
      /\ \/ /\ h.filesz = 0
            /\ k' = k + 1
            /\ UNCHANGED << pc, rc, out, stray, infVars >>
         \/ /\ h.filesz # 0 /\ ~taken
            /\ Exit(1)
            /\ UNCHANGED << k, out, stray, infVars >>
         \/ /\ taken /\ Around(s)
            /\ Killed
            /\ UNCHANGED << k, out, infVars >>
         \/ /\ taken /\ ~s.zlib
            /\ out' = Put(out, h.offset, [b \in 1 .. h.filesz |-> Data(k, b - 1, 0)])
            /\ k' = k + 1 /\ stray' = (stray \/ Around(s))
            /\ UNCHANGED << pc, rc, infVars >>
         \/ /\ taken /\ s.zlib
            /\ Inflate(s.frame, h.filesz)
            /\ pc' = "inflate" /\ stray' = (stray \/ Around(s))
            /\ UNCHANGED << k, rc, out >>
      /\ UNCHANGED << file, m, loadVars >>

InflateStep ==
  /\ pc = "inflate"
  /\ Step
  /\ UNCHANGED << toolVars, loadVars >>

(* Mutant of Inflated: a stream that ends early is taken. *)
InflatedShort ==
  LET h == file.ph[k]
  IN  /\ pc = "inflate" /\ phase = "idle"
      /\ out' = Put(out, h.offset, [b \in 1 .. Len(dst) |-> Data(k, b - 1, dst[b])])
      /\ IF status = "ok"
           THEN pc' = "segments" /\ k' = k + 1 /\ UNCHANGED rc
           ELSE Exit(1) /\ UNCHANGED k
      /\ UNCHANGED << file, m, stray, infVars, loadVars >>

(* inf_zlib has returned; it wrote into out as it went. *)
Inflated ==
  LET h == file.ph[k]
  IN  /\ pc = "inflate" /\ phase = "idle"
      /\ out' = Put(out, h.offset, [b \in 1 .. Len(dst) |-> Data(k, b - 1, dst[b])])
      /\ IF status = "ok" /\ Len(dst) = h.filesz
           THEN pc' = "segments" /\ k' = k + 1 /\ UNCHANGED rc
           ELSE Exit(1) /\ UNCHANGED k
      /\ UNCHANGED << file, m, stray, infVars, loadVars >>

(* What the output begins with: the header that was copied, or what the    *)
(* cell over it reads as, which may be an ELF header too.                  *)
FrontOf == IF file.elfSize # 0 /\ out[0].tag = "ehdr" THEN Ehdr ELSE file.front

(* The checks on the result.  A wrong entry does not stop the file from    *)
(* being written.                                                          *)
Finish ==
  /\ pc = "segments" /\ k > m.segs
  /\ \/ (* no ELF, or outpath cannot be opened *)
        Exit(1) /\ UNCHANGED << disk, stage >>
     \/ /\ FrontOf.tag = "ehdr"
        /\ LET e == file.entrySegment + 1
           IN  Exit(IF e <= m.phdrs /\ file.ph[e].exec /\ file.entryOffset < file.ph[e].memsz
                      THEN 0 ELSE 1)
        /\ disk' = [size |-> file.elfSize, head |-> FrontOf, cell |-> out]
        /\ stage' = "file"
  /\ UNCHANGED << file, m, k, out, stray, infVars, probed, info, entry, memBase, memSize, mem, overrun >>

Load == LoadNext /\ UNCHANGED << toolVars, infVars >>

--------------------------------------------------------------------------------
Init ==
  /\ file \in Files
  /\ m = NoModule /\ pc = "parse" /\ k = 1 /\ out = << >> /\ rc = -1 /\ stray = FALSE
  /\ InfInit /\ LoadInit

(* Nothing is left to do: the only states in which the system may rest. *)
Done ==
  /\ pc \in {"exit", "killed"} /\ stage \in {"none", "unusable", "loaded", "failed", "killed"}
  /\ UNCHANGED vars

Next == Parse \/ PlaceSegment \/ InflateStep \/ Inflated \/ Finish \/ Load \/ Done

Spec == Init /\ [][Next]_vars

--------------------------------------------------------------------------------
(* Properties.                                                             *)

(* Types of every stage.  The two tables of vc_module are never filled     *)
(* beyond their 32 entries, also by the second pass over a plain ELF, and  *)
(* hold the same number.                                                   *)
TypeOK ==
  /\ InfTypeOK
  /\ m.phdrs \in 0 .. MaxSegments /\ m.segs \in {0, m.phdrs}
  /\ m.ok /\ pc # "parse" => m.phdrs = Least(Phnum, MaxSegments)
  /\ pc \in {"parse", "segments", "inflate", "exit", "killed"} /\ stray \in BOOLEAN
  /\ k \in 1 .. m.segs + 1
  /\ rc \in {-1, 0, 1} /\ (rc = -1 <=> pc # "exit")
  /\ out # << >> => DOMAIN out = 0 .. file.elfSize - 1
  /\ stage \in {"none", "file", "probed", "unusable", "memory", "loading", "loaded", "failed",
                "killed"}
  /\ overrun \in BOOLEAN

(* The last of the segments 1 .. n whose bytes of the file cover a cell.   *)
Placed(n, c) ==
  { i \in 1 .. n : c \in file.ph[i].offset .. file.ph[i].offset + file.ph[i].filesz - 1 }

HeaderCell(c) ==
  CASE c \in file.phoff .. file.phoff + Phnum - 1 -> file.ph[c - file.phoff + 1]
    [] c = 0 /\ ~(0 \in file.phoff .. file.phoff + Phnum - 1) -> Ehdr
    [] OTHER -> Zero

(* The ELF with n of its segments in place. *)
Image(cells, n) ==
  \A c \in 0 .. file.elfSize - 1 :
    IF Placed(n, c) # {}
      THEN LET i == LastOver(Placed(n, c))
           IN  cells[c].tag = "data" /\ cells[c].segment = i
               /\ cells[c].byte = c - file.ph[i].offset
      ELSE cells[c] = HeaderCell(c)

(* What is written is the module: every cell of the ELF is a byte, at its  *)
(* place in the segment, of the last segment over it, or of the headers    *)
(* where no segment is.  No segment is short, shifted or left out:         *)
(* cmd_extract, for the entries vc_parse has room for.  The tool leaves    *)
(* its buffers only for an ELF without room for its own header, or for a   *)
(* segment whose place in the file wraps.                                  *)
ImagePlaced ==
  /\ disk # NoFile /\ ~stray => disk.size = file.elfSize /\ Image(disk.cell, m.segs)
  /\ stray => file.elfSize = 0 \/ \E i \in 1 .. m.segs : Around(file.seg[i])

Apart(i, j) ==
  LET f == file.ph[i]  g == file.ph[j]
  IN  /\ f.offset + f.filesz <= g.offset \/ g.offset + g.filesz <= f.offset
      /\ f.vaddr + Reach(f) <= g.vaddr \/ g.vaddr + Reach(g) <= f.vaddr

(* The file still has the header, and program header i, it was given.      *)
HeaderKept(i) == disk.head = Ehdr /\ Placed(m.segs, file.phoff + i - 1) = {}

(* From the SELF to guest memory.  While a load runs, when it has failed   *)
(* and when it is done, an address holds what the last of the entries done *)
(* so far wrote there, and nothing of an entry that was refused; and after *)
(* a load, unless another segment shares its place in the file or in       *)
(* memory, or lies over its program header, a segment's addresses hold     *)
(* that segment's own bytes, none shifted or missing, and then zeroes.     *)
(* All this unless a copy has left its buffer, which walk in loader.c lets *)
(* happen only for a segment with more bytes in the file than in memory.   *)
GuestImage ==
  /\ stage \in {"loading", "loaded", "failed"} /\ ~overrun => ImageLoaded
  /\ stage = "loaded" /\ ~overrun /\ ~stray =>
       \A i \in 1 .. m.segs :
         LET h == file.ph[i]
         IN  /\ h.load /\ h.offset + h.filesz <= file.elfSize /\ HeaderKept(i)
             /\ \A j \in 1 .. Phnum \ {i} : Apart(i, j)
             => \A b \in 0 .. Reach(h) - 1 :
                  LET c == mem[h.vaddr + b]
                  IN  IF b < h.filesz
                        THEN c.tag = "data" /\ c.segment = i /\ c.byte = b
                        ELSE c = Zero
  /\ OverrunMeant
================================================================================
