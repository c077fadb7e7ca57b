-------------------------------- MODULE MCExtract --------------------------------
(* DEFLATE with bytes of two bits and codes of at most four; files of up   *)
(* to three segments, one more than vc_module has room for.                *)
EXTENDS Extract

Code(b, x) == [base |-> b, extra |-> x]

MCLenCode   == << Code(2, 0), Code(3, 1) >>
MCDistCode  == << Code(1, 0), Code(2, 0), Code(3, 1) >>
MCFixedLit  == [s \in 0 .. 7 |-> << 2, 3, 4, 4, 3, 3, 3, 3 >>[s + 1]]
MCFixedDist == [s \in 0 .. 2 |-> 2]
MCLitCount  == [base |-> 5, extra |-> 2, max |-> 7]
MCDistCount == [base |-> 1, extra |-> 2, max |-> 3]
MCClenCount == Code(5, 2)
MCClenOrder == << 5, 6, 7, 0, 2, 1, 3, 4 >>
MCRunCode   == << Code(2, 1), Code(2, 1), Code(4, 1) >>

(* Streams: everything short, and everything that goes on from a given     *)
(* beginning: a stored block, a match, and three dynamic blocks.           *)
Tails(n) == [1 .. n -> {0, 1}]
From(head, n) == { head \o t : t \in Tails(n) }

StoredHead == << 0, 0, 0, 0 >>
(* A literal 0 and a literal 1, then one of the length symbols. *)
MatchHead == << 1, 1, 0 >> \o << 0, 0 >> \o << 0, 1, 0 >> \o << 1, 0 >>
(* Codes of one bit for the lengths 0 and 2. *)
PlainHead == << 1, 0, 1 >> \o << 0, 0, 0, 0, 0, 0 >> \o << 0,0, 0,0, 0,0, 1,0, 1,0 >>
(* Codes for a repeat and a run of zeros too; seven literals, two distances. *)
RunHead == << 1, 0, 1 >> \o << 0, 1, 1, 0, 0, 0 >> \o << 0,1, 0,1, 0,0, 0,1, 0,1 >>
(* The same, with the lengths 2 0 0 0 2 2 2 and 2 2: the repeat crosses    *)
(* from the literals to the distances.                                     *)
CrossHead == RunHead \o << 0, 1 >> \o << 1, 1, 1 >> \o << 0, 1 >> \o << 1, 0, 1 >> \o << 0, 1 >>
(* A code of one symbol; a code with more symbols than there is room for.  *)
LoneHead == << 1, 0, 1 >> \o << 0, 0, 0, 0, 0, 0 >> \o << 0,0, 0,0, 0,0, 0,0, 1,0 >>
FullHead == << 1, 0, 1 >> \o << 0, 0, 0, 0, 0, 0 >> \o << 1,0, 1,0, 1,0, 0,0, 0,0 >>

Streams ==
  UNION { Tails(n) : n \in {0, 2, 4, 6, 8} }
  \cup UNION { From(StoredHead, n) : n \in {4, 8, 10} }
  \cup From(MatchHead, 10) \cup From(PlainHead, 11) \cup From(RunHead, 9)
  \cup From(CrossHead, 9) \cup From(LoneHead, 7) \cup From(FullHead, 1)

ZlibHeader == << 120, 156 >>
MCFrame(b) == [hdr |-> ZlibHeader, bits |-> b, adler |-> << 1, 1 >>]

(* Two literals 0 and the end of the block. *)
GoodFrame == [hdr |-> ZlibHeader, bits |-> << 1, 1, 0,  0, 0,  0, 0,  0, 1, 1 >>, adler |-> << 1, 0 >>]
WrongSum  == [GoodFrame EXCEPT !.adler = << 1, 1 >>]
NotZlib   == [GoodFrame EXCEPT !.hdr = << 120, 157 >>]

MCFrames == { MCFrame(b) : b \in Streams } \cup {GoodFrame, WrongSum, NotZlib}

--------------------------------------------------------------------------------
Hdr(load, exec, o, v, f, mem_) ==
  [tag |-> "phdr", load |-> load, exec |-> exec, offset |-> o, vaddr |-> v, filesz |-> f, memsz |-> mem_]
Seg(o, n, z, e, fr) == [offset |-> o, length |-> n, zlib |-> z, encrypted |-> e, frame |-> fr]
StoredSeg(o, n) == Seg(o, n, FALSE, FALSE, GoodFrame)
ZlibSeg(fr) == Seg(9, 2, TRUE, FALSE, fr)

(* SCE header at 0 .. 2, ELF header 3, program headers 4 .., segment table *)
(* 7 .., segments from 9 on.                                               *)
Self(ph, seg) ==
  [size |-> 14, magic |-> "sce", version |-> 3, elfMagic |-> TRUE, arm |-> TRUE,
   elfOffset |-> 3, phdrOffset |-> 4, segOffset |-> 7, elfSize |-> 9,
   phoff |-> 1, phentsize |-> 1, entrySegment |-> 0, entryOffset |-> 0,
   front |-> [tag |-> "ehdr", phoff |-> 1, phentsize |-> 1, phnum |-> Len(ph)],
   ph |-> ph, seg |-> seg]

(* One compressed segment, of any stream. *)
StreamFiles ==
  { Self(<< Hdr(TRUE, TRUE, 4, 4, n, n + 1) >>, << ZlibSeg(MCFrame(b)) >>) :
      b \in Streams, n \in {3, 5} }

(* Two or three segments that may share places, be empty, not fit, or have *)
(* more bytes in the file than in memory.                                  *)
FirstSegments ==
  { << Hdr(TRUE, x, o, v, 2, n), s >> :
      x \in BOOLEAN, o \in {4, 0, 2}, v \in {4, 12}, n \in {1, 2, 4},
      s \in { ZlibSeg(GoodFrame), StoredSeg(9, 2) } }
SecondSegments ==
  { << Hdr(l, FALSE, o, v, f, 3), StoredSeg(11, n) >> :
      l \in BOOLEAN, o \in {5, 6, 7, 10}, v \in {5, 8}, f \in {0, 2, 3}, n \in {2, 3} }
ThirdSegments == { << Hdr(TRUE, FALSE, 8, 1, 1, 1), StoredSeg(13, 1) >> }

SegmentFiles ==
  { Self(<< a[1], b[1] >>, << a[2], b[2] >>) : a \in FirstSegments, b \in SecondSegments }
  \cup { Self(<< a[1], b[1], c[1] >>, << a[2], b[2], c[2] >>) :
           a \in { f \in FirstSegments : f[1].offset = 4 /\ f[1].vaddr = 4 }, b \in SecondSegments, c \in ThirdSegments }

(* And files in which one thing is wrong. *)
Sound == Self(<< Hdr(TRUE, TRUE, 4, 4, 2, 2) >>, << ZlibSeg(GoodFrame) >>)
WrongFiles ==
  { [Sound EXCEPT !.size = n] : n \in {2, 4, 7, 10} }
  \cup { [Sound EXCEPT !.magic = "elf", !.phoff = n, !.elfOffset = 0] : n \in {1, 13, 14} }
  \cup { [Sound EXCEPT !.magic = "none"], [Sound EXCEPT !.version = 2],
         [Sound EXCEPT !.elfMagic = FALSE], [Sound EXCEPT !.arm = FALSE],
         [Sound EXCEPT !.phentsize = 0], [Sound EXCEPT !.phoff = 9],
         [Sound EXCEPT !.elfSize = 3], [Sound EXCEPT !.entrySegment = 1],
         [Sound EXCEPT !.entryOffset = 2], [Sound EXCEPT !.phoff = 0],
         [Sound EXCEPT !.seg[1].encrypted = TRUE],
         [Sound EXCEPT !.seg[1].frame = WrongSum], [Sound EXCEPT !.seg[1].frame = NotZlib],
         [Sound EXCEPT !.ph[1].filesz = 1, !.ph[1].memsz = 1],
         [Sound EXCEPT !.ph[1].filesz = 3, !.ph[1].memsz = 3],
         [Sound EXCEPT !.ph[1].memsz = 1],
         [Sound EXCEPT !.ph[1].memsz = 0, !.ph[1].vaddr = 15] }
  (* segments over the header, of bytes that are no header or another *)
  \cup { [Sound EXCEPT !.ph[1].offset = 0, !.front = f] :
           f \in { Zero, [tag |-> "ehdr", phoff |-> 2, phentsize |-> 1, phnum |-> 2] } }
  (* places in the file that wrap *)
  \cup { [Sound EXCEPT !.seg[1] = s, !.front = Zero] :
           s \in { StoredSeg(30, 2), StoredSeg(31, 2), StoredSeg(31, 3),
                   Seg(31, 5, TRUE, FALSE, GoodFrame), Seg(31, 5, TRUE, FALSE, WrongSum) } }
  (* no room for a header *)
  \cup { [Self(<< >>, << >>) EXCEPT !.elfSize = 0, !.phoff = n, !.front = f] :
           n \in {0, 1}, f \in { Zero, [tag |-> "ehdr", phoff |-> 0, phentsize |-> 1, phnum |-> 0] } }

MCFiles == StreamFiles \cup SegmentFiles \cup WrongFiles

MCRegions == { [base |-> 4, size |-> 3], [base |-> 0, size |-> 16] }
MCCaps == {3, 5}
================================================================================
