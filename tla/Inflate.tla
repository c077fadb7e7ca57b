-------------------------------- MODULE Inflate --------------------------------
(***************************************************************************)
(* DEFLATE and its zlib frame: src/tools/armrecomp/inflate.c.  One step is *)
(* one block header, one stored block, one code length, one symbol, or one *)
(* byte of a back-reference.                                               *)
(*                                                                         *)
(* A stream is a sequence of bits in the order getbit yields them.  The    *)
(* numbers RFC 1951 fixes are constants, so that a small alphabet has      *)
(* every kind of symbol; the comments give the values of the code.         *)
(***************************************************************************)
EXTENDS Integers, Sequences, FiniteSets, FiniteSetsExt

CONSTANTS
  ByteBits,    (* 8                                                        *)
  MaxBits,     (* longest code: 15                                         *)
  LenCode,     (* << [base, extra] >>: len_base, len_extra                 *)
  DistCode,    (* dist_base, dist_extra                                    *)
  FixedLit,    (* code lengths of build_fixed, by symbol                   *)
  FixedDist,
  LitCount,    (* [base, extra, max] of hlit: 257, 5, 286                  *)
  DistCount,   (* of hdist: 1, 5, 30                                       *)
  ClenCount,   (* of hclen: 4, 4                                           *)
  ClenOrder,   (* clen_order, a sequence of symbols                        *)
  ClenBits,    (* 3                                                        *)
  RunCode,     (* [base, extra] of symbols 16, 17 and 18                   *)
  AdlerMod,    (* 65521                                                    *)
  Frames,      (* zlib frames a caller may pass                            *)
  Caps         (* and the room for their output                            *)

Byte == 0 .. 2 ^ ByteBits - 1
EndOfBlock == 2 ^ ByteBits
NoSymbol == -1

(* hdr: the first two bytes, << >> when the frame is shorter than six.     *)
Frame == [hdr : Seq(Nat), bits : Seq({0, 1}), adler : Nat \X Nat]

ASSUME InflateAssumption ==
  /\ ByteBits \in Nat \ {0} /\ MaxBits \in Nat \ {0}
  /\ Caps \subseteq Nat
  /\ \A f \in Frames : f.bits \in Seq({0, 1})

(* Code lengths, by symbol. *)
Alphabet(L) ==
  /\ IsFiniteSet(DOMAIN L) /\ DOMAIN L \subseteq Nat
  /\ L \in [DOMAIN L -> 0 .. MaxBits]

(* An entry of a table of the RFC: what is counted from, and by how many   *)
(* further bits.                                                           *)
Coded == [base : Nat, extra : Nat]

(* What the numbers of RFC 1951 have to do with each other: every code     *)
(* length has its place in clen_order, and none is read that is too long.  *)
ASSUME AlphabetAssumption ==
  /\ LenCode \in Seq(Coded) /\ DistCode \in Seq(Coded)
  /\ Alphabet(FixedLit) /\ Alphabet(FixedDist)
  /\ LitCount \in [base : Nat, extra : Nat \ {0}, max : Nat]
  /\ DistCount \in [base : Nat, extra : Nat, max : Nat]
  /\ ClenCount \in Coded /\ ClenBits \in Nat /\ 2 ^ ClenBits <= MaxBits + 1
  /\ ClenOrder \in Seq(0 .. MaxBits + 3)
  /\ \A s \in 0 .. MaxBits + 3 : \E i \in DOMAIN ClenOrder : ClenOrder[i] = s
  /\ RunCode \in [1 .. 3 -> Coded]

VARIABLES
  src, at,     (* bitreader: the bits, and how many are consumed           *)
  over,        (* its overrun flag                                         *)
  want,        (* the Adler-32 of the trailer                              *)
  dst, cap,    (* outbuf                                                   *)
  phase,       (* "idle" between calls, else the loop inf_inflate is in    *)
  final,       (* the current block is the last                            *)
  need,        (* hlit and hdist                                           *)
  lengths,     (* code lengths read so far                                 *)
  clen, lit, dist,  (* huff, and the lengths each was built from           *)
  match,       (* the last back-reference: start, end so far, distance, goal *)
  status       (* what inf_zlib returned                                   *)

tables == << need, lengths, clen, lit, dist >>
infVars == << src, at, over, want, dst, cap, phase, final, tables, match, status >>

--------------------------------------------------------------------------------
(* The bit reader.                                                         *)

(* getbit: past the end it yields 0. *)
Bit(p) == IF p < Len(src) THEN src[p + 1] ELSE 0

(* getbits: n bits from position p, the first the least significant. *)
Bits(p, n) ==
  LET v[i \in 0 .. n] == IF i = 0 THEN 0 ELSE v[i - 1] + Bit(p + i - 1) * 2 ^ (i - 1)
  IN  v[n]

(* Mutant of Past: the end of the input sets no flag. *)
PastUnseen(p) == over

Past(p) == over \/ p > Len(src)

(* The reader after everything up to p was asked for. *)
Advance(p) ==
  /\ at' = IF p \in 0 .. Len(src) THEN p ELSE Len(src)
  /\ over' = Past(p)

--------------------------------------------------------------------------------
(* Canonical Huffman codes.                                                *)

Counts(L) == [n \in 1 .. MaxBits |-> Cardinality({ s \in DOMAIN L : L[s] = n })]

(* Where the counting sort of huff_build puts a symbol: after those with   *)
(* shorter codes, and those before it with codes as long.                  *)
Place(L, s) ==
  Cardinality({ t \in DOMAIN L : L[t] \in 1 .. L[s] - 1 })
  + Cardinality({ t \in DOMAIN L : L[t] = L[s] /\ t < s })

Symbols(L) ==
  LET coded == { s \in DOMAIN L : L[s] # 0 }
  IN  [i \in 0 .. Cardinality(coded) - 1 |-> CHOOSE s \in coded : Place(L, s) = i]

(* Mutant of Huff: the first code of a length is not doubled for the next. *)
HuffUnshifted(L) ==
  LET counts == Counts(L)
      sums[n \in 1 .. MaxBits] == IF n = 1 THEN 0 ELSE sums[n - 1] + counts[n - 1]
  IN  [of |-> L, counts |-> counts, symbols |-> Symbols(L), first |-> sums, index |-> sums]

(* A table, and where huff_decode stands after n bits: the first code of   *)
(* that length and the index of its symbol.                                *)
Huff(L) ==
  LET counts == Counts(L)
      first[n \in 1 .. MaxBits] == IF n = 1 THEN 0 ELSE 2 * (first[n - 1] + counts[n - 1])
      index[n \in 1 .. MaxBits] == IF n = 1 THEN 0 ELSE index[n - 1] + counts[n - 1]
  IN  [of |-> L, counts |-> counts, symbols |-> Symbols(L), first |-> first, index |-> index]

(* More codes of some length than the tree has room for. *)
OverSubscribed(L) ==
  LET left[n \in 0 .. MaxBits] == IF n = 0 THEN 1 ELSE 2 * left[n - 1] - Counts(L)[n]
  IN  \E n \in 1 .. MaxBits : left[n] < 0

Window(p) == [n \in 1 .. MaxBits |-> Bit(p + n - 1)]

(* huff_decode on the bits w: it stops at the first length with a code     *)
(* that is not past its last; the symbol, and how many bits it took.       *)
Decode(h, w) ==
  LET code[n \in 0 .. MaxBits] == IF n = 0 THEN 0 ELSE 2 * code[n - 1] + w[n]
      ends == { n \in 1 .. MaxBits : code[n] - h.first[n] < h.counts[n] }
      n    == Min(ends)
  IN  IF ends = {} THEN [sym |-> NoSymbol, used |-> MaxBits]
      ELSE [sym |-> h.symbols[h.index[n] + (code[n] - h.first[n])], used |-> n]

FixedTables == [lit |-> Huff(FixedLit), dist |-> Huff(FixedDist)]
NoTable == Huff(<< >>)

--------------------------------------------------------------------------------
(* The zlib frame.                                                         *)

Zlib(h) ==
  /\ Len(h) = 2
  /\ h[1] % 16 = 8
  /\ (h[1] * 256 + h[2]) % 31 = 0
  /\ (h[2] \div 32) % 2 = 0

Adler(data) ==
  LET sum[i \in 0 .. Len(data)] ==
        IF i = 0 THEN << 1, 0 >>
        ELSE LET a == (sum[i - 1][1] + data[i]) % AdlerMod
             IN  << a, (sum[i - 1][2] + a) % AdlerMod >>
  IN  sum[Len(data)]

Return(s) == phase' = "idle" /\ status' = s

Goto(p) == phase' = p /\ UNCHANGED status

(* inf_zlib(src, cap). *)
Inflate(f, c) ==
  /\ phase = "idle"
  /\ src' = f.bits /\ at' = 0 /\ over' = FALSE /\ want' = f.adler
  /\ dst' = << >> /\ cap' = c
  /\ IF Zlib(f.hdr) THEN phase' = "block" /\ status' = "running" ELSE Return("header")
  /\ final' = FALSE
  /\ match' = [from |-> 0, to |-> 0, dist |-> 1, goal |-> 0]
  /\ need' = << 0, 0 >> /\ lengths' = << >>
  /\ clen' = NoTable /\ lit' = NoTable /\ dist' = NoTable

(* The end of a block, and of the stream after the last. *)
EndBlock ==
  CASE over' -> Return("input")
    [] ~over' /\ ~final -> Goto("block")
    [] OTHER -> Return(IF Adler(dst') = want THEN "ok" ELSE "adler")

--------------------------------------------------------------------------------
Block ==
  /\ phase = "block"
  /\ Advance(at + 3)
  /\ final' = (Bit(at) = 1)
  /\ LET type == Bits(at + 1, 2)
     IN  /\ CASE Past(at + 3) -> Return("input")
              [] ~Past(at + 3) /\ type = 0 -> Goto("stored")
              [] ~Past(at + 3) /\ type = 1 -> Goto("symbols")
              [] ~Past(at + 3) /\ type = 2 -> Goto("dynamic")
              [] OTHER -> Return("format")
         /\ IF type = 1
              THEN lit' = FixedTables.lit /\ dist' = FixedTables.dist
              ELSE UNCHANGED << lit, dist >>
  /\ UNCHANGED << src, want, dst, cap, need, lengths, clen, match >>

(* block_stored: LEN and NLEN are two bytes each, from a byte boundary. *)
Stored ==
  LET word == 2 * ByteBits
      p    == ByteBits * ((at + ByteBits - 1) \div ByteBits)
      len  == Bits(p, word)
      body == p + 2 * word
      room == body + len * ByteBits <= Len(src)
      copied == [i \in 1 .. len |-> Bits(body + (i - 1) * ByteBits, ByteBits)]
  IN  /\ phase = "stored"
      /\ \/ /\ body > Len(src)
            /\ Return("input")
            /\ UNCHANGED << at, over, dst >>
         \/ /\ body <= Len(src) /\ len + Bits(p + word, word) # 2 ^ word - 1
            /\ Return("format")
            /\ Advance(body) /\ UNCHANGED dst
         \/ /\ body <= Len(src) /\ len + Bits(p + word, word) = 2 ^ word - 1
            /\ ~(room /\ len \in 0 .. cap - Len(dst))
            /\ Return(IF room THEN "output" ELSE "input")
            /\ Advance(body) /\ UNCHANGED dst
         \/ /\ body <= Len(src) /\ len + Bits(p + word, word) = 2 ^ word - 1
            /\ room /\ len \in 0 .. cap - Len(dst)
            /\ dst' = dst \o copied
            /\ Advance(body + len * ByteBits)
            /\ EndBlock
      /\ UNCHANGED << src, want, cap, final, tables, match >>

(* The head of block_dynamic, up to the code of the code lengths. *)
Dynamic ==
  LET p1 == at + LitCount.extra
      p2 == p1 + DistCount.extra
      p3 == p2 + ClenCount.extra
      hlit  == LitCount.base + Bits(at, LitCount.extra)
      hdist == DistCount.base + Bits(p1, DistCount.extra)
      hclen == ClenCount.base + Bits(p2, ClenCount.extra)
      fits  == hlit \in 1 .. LitCount.max /\ hdist \in 1 .. DistCount.max
      end   == IF fits THEN p3 + hclen * ClenBits ELSE p3
      given == [i \in 1 .. hclen |-> Bits(p3 + (i - 1) * ClenBits, ClenBits)]
      L     == [s \in 0 .. MaxBits + 3 |->
                  LET i == CHOOSE i \in DOMAIN ClenOrder : ClenOrder[i] = s
                  IN  IF i <= hclen THEN given[i] ELSE 0]
  IN  /\ phase = "dynamic"
      /\ Advance(end)
      /\ CASE ~fits -> Return("format") /\ UNCHANGED << need, lengths, clen >>
           [] fits /\ Past(end) -> Return("input") /\ UNCHANGED << need, lengths, clen >>
           [] fits /\ ~Past(end) /\ OverSubscribed(L) ->
                Return("format") /\ UNCHANGED << need, lengths, clen >>
           [] OTHER ->
                /\ need' = << hlit, hdist >> /\ lengths' = << >> /\ clen' = Huff(L)
                /\ Goto("lengths")
      /\ UNCHANGED << src, want, dst, cap, final, lit, dist, match >>

(* One code length, or a run of them: the first run code repeats, the      *)
(* other two give zeros.  A run may cross from one alphabet to the other.  *)
Lengths ==
  LET d     == Decode(clen, Window(at))
      p     == at + d.used
      n     == Len(lengths)
      total == need[1] + need[2]
      run   == RunCode[d.sym - MaxBits]
      rep   == run.base + Bits(p, run.extra)
  IN  /\ phase = "lengths" /\ n < total
      /\ \/ /\ Past(p)
            /\ Return("input") /\ Advance(p) /\ UNCHANGED lengths
         \/ /\ ~Past(p) /\ d.sym = NoSymbol
            /\ Return("format") /\ Advance(p) /\ UNCHANGED lengths
         \/ /\ ~Past(p) /\ d.sym \in 0 .. MaxBits
            /\ lengths' = Append(lengths, d.sym)
            /\ Advance(p) /\ Goto("lengths")
         \/ /\ ~Past(p) /\ d.sym > MaxBits
            /\ ~(rep \in 1 .. total - n) \/ (d.sym = MaxBits + 1 /\ n = 0)
            /\ Return("format") /\ Advance(p) /\ UNCHANGED lengths
         \/ /\ ~Past(p) /\ d.sym > MaxBits
            /\ rep \in 1 .. total - n
            /\ d.sym = MaxBits + 1 => n > 0
            /\ lengths' = lengths \o
                 [i \in 1 .. rep |-> IF d.sym = MaxBits + 1 THEN lengths[n] ELSE 0]
            /\ Advance(p + run.extra) /\ Goto("lengths")
      /\ UNCHANGED << src, want, dst, cap, final, need, clen, lit, dist, match >>

(* Both alphabets are complete: build their codes. *)
Tables ==
  LET L == [s \in 0 .. need[1] - 1 |-> lengths[s + 1]]
      D == [s \in 0 .. need[2] - 1 |-> lengths[need[1] + s + 1]]
  IN  /\ phase = "lengths" /\ Len(lengths) >= need[1] + need[2]
      /\ IF L[EndOfBlock] = 0 \/ OverSubscribed(L) \/ OverSubscribed(D)
           THEN Return("format") /\ UNCHANGED << lit, dist >>
           ELSE lit' = Huff(L) /\ dist' = Huff(D) /\ Goto("symbols")
      /\ UNCHANGED << src, at, over, want, dst, cap, final, need, lengths, clen, match >>

--------------------------------------------------------------------------------
(* block_huffman.                                                          *)

(* A length symbol: the extra bits, the distance code and its extra bits.  *)
Reference(sym, p) ==
  LET l    == LenCode[sym - EndOfBlock]
      d    == Decode(dist, Window(p + l.extra))
      q    == p + l.extra + d.used
      far  == DistCode[d.sym + 1]
      back == far.base + Bits(q, far.extra)
  IN  /\ UNCHANGED dst
      /\ \/ /\ sym - EndOfBlock > Len(LenCode)
            /\ Return("format") /\ Advance(p) /\ UNCHANGED match
         \/ /\ sym - EndOfBlock <= Len(LenCode) /\ Past(q)
            /\ Return("input") /\ Advance(q) /\ UNCHANGED match
         \/ /\ sym - EndOfBlock <= Len(LenCode) /\ ~Past(q)
            /\ ~(d.sym \in 0 .. Len(DistCode) - 1)
            /\ Return("format") /\ Advance(q) /\ UNCHANGED match
         \/ /\ sym - EndOfBlock <= Len(LenCode) /\ ~Past(q)
            /\ d.sym \in 0 .. Len(DistCode) - 1
            /\ Advance(q + far.extra)
            /\ IF back \in 1 .. Len(dst)
                 THEN /\ match' = [from |-> Len(dst), to |-> Len(dst), dist |-> back,
                                   goal |-> Len(dst) + l.base + Bits(p, l.extra)]
                      /\ Goto("copy")
                 ELSE Return("distance") /\ UNCHANGED match

Symbol ==
  LET d == Decode(lit, Window(at))
      p == at + d.used
  IN  /\ phase = "symbols"
      /\ \/ /\ Past(p) \/ d.sym = NoSymbol
            /\ Return(IF Past(p) THEN "input" ELSE "format")
            /\ Advance(p) /\ UNCHANGED << dst, match >>
         \/ /\ ~Past(p) /\ d.sym \in Byte
            /\ IF Len(dst) < cap
                 THEN dst' = Append(dst, d.sym) /\ Goto("symbols")
                 ELSE UNCHANGED dst /\ Return("output")
            /\ Advance(p) /\ UNCHANGED match
         \/ /\ ~Past(p) /\ d.sym = EndOfBlock
            /\ UNCHANGED << dst, match >>
            /\ Advance(p) /\ EndBlock
         \/ /\ ~Past(p) /\ d.sym > EndOfBlock
            /\ Reference(d.sym, p)
      /\ UNCHANGED << src, want, cap, final, tables >>

(* Mutant of CopyFrom: a block copy, of what was there when it began. *)
CopyFromBlock ==
  IF Len(dst) < match.from + match.dist THEN Len(dst) - match.dist + 1 ELSE match.from

(* Where the next byte of a back-reference is read from. *)
CopyFrom == Len(dst) - match.dist + 1

(* One byte of a back-reference. *)
Copy ==
  /\ phase = "copy"
  /\ IF Len(dst) >= cap
       THEN Return("output") /\ UNCHANGED << dst, match >>
       ELSE /\ dst' = Append(dst, dst[CopyFrom])
            /\ match' = [match EXCEPT !.to = Len(dst) + 1]
            /\ Goto(IF Len(dst) + 1 < match.goal THEN "copy" ELSE "symbols")
  /\ UNCHANGED << src, at, over, want, cap, final, tables >>

--------------------------------------------------------------------------------
InfInit ==
  /\ src = << >> /\ at = 0 /\ over = FALSE /\ want = << 1, 0 >>
  /\ dst = << >> /\ cap = 0 /\ phase = "idle" /\ final = FALSE
  /\ need = << 0, 0 >> /\ lengths = << >>
  /\ clen = NoTable /\ lit = NoTable /\ dist = NoTable
  /\ match = [from |-> 0, to |-> 0, dist |-> 1, goal |-> 0]
  /\ status = "none"

Step == Block \/ Stored \/ Dynamic \/ Lengths \/ Tables \/ Symbol \/ Copy

InfNext == Step \/ \E f \in Frames, c \in Caps : Inflate(f, c)

InfSpec == InfInit /\ [][InfNext]_infVars

--------------------------------------------------------------------------------
(* Properties.                                                             *)

(* The state of a call has its types; output stays within what the caller  *)
(* gave, and the lengths read never outgrow the two alphabets together:    *)
(* emit, the tests of block_stored and of the three kinds of run.          *)
InfTypeOK ==
  /\ src \in Seq({0, 1}) /\ at \in 0 .. Len(src) /\ over \in BOOLEAN
  /\ cap \in Nat
  /\ dst \in Seq(Byte) /\ Len(dst) <= cap
  /\ phase \in {"idle", "block", "stored", "dynamic", "lengths", "symbols", "copy"}
  /\ final \in BOOLEAN
  /\ need \in (0 .. LitCount.max) \X (0 .. DistCount.max)
  /\ lengths \in Seq(0 .. MaxBits) /\ Len(lengths) <= need[1] + need[2]
  /\ match.dist \in Nat \ {0} /\ match.from \in Nat /\ match.to \in Nat
  /\ status \in {"none", "running", "ok", "header", "input", "output", "format", "distance", "adler"}
  /\ status = "running" <=> phase # "idle"

(* A back-reference reads only what has been written, and what it writes   *)
(* repeats at its distance, also when it overlaps its own output: the      *)
(* byte-wise loop of block_huffman.                                        *)
MatchRepeats ==
  /\ match.from <= match.to /\ match.to <= Len(dst)
  /\ phase = "copy" => match.dist <= match.from /\ match.to = Len(dst)
  /\ \A i \in match.from + 1 .. match.to : i > match.dist /\ dst[i] = dst[i - match.dist]

(* Steps a call can still take: at most cap of them leave the reader where *)
(* it is, and one more builds the tables.                                  *)
Fuel ==
  IF phase = "idle" THEN 0
  ELSE 1 + (Len(src) - at) * (cap + 2) + (cap - Len(dst)) + (IF phase = "lengths" THEN 1 ELSE 0)

(* Every loop of inflate.c ends on every input: past the end the reader    *)
(* goes on to yield zero bits, which are a symbol like any other, so each  *)
(* turn has to consume input, write output or give up.                     *)
EveryTurnCounts == [][phase # "idle" => Fuel' < Fuel]_infVars

(* The canonical code, said without the walk: a symbol owns an interval of *)
(* the windows of MaxBits bits, shorter codes first, then smaller symbols. *)
Share(L, s) == 2 ^ (MaxBits - L[s])
Earlier(L, s) == { t \in DOMAIN L : L[t] # 0 /\ (L[t] < L[s] \/ (L[t] = L[s] /\ t < s)) }
Sum(F(_), S) == FoldSet(LAMBDA s, acc : F(s) + acc, 0, S)
WindowValue(w) == Sum(LAMBDA n : w[n] * 2 ^ (MaxBits - n), 1 .. MaxBits)

Owns(L, s, w) ==
  LET start == Sum(LAMBDA t : Share(L, t), Earlier(L, s))
  IN  L[s] # 0 /\ WindowValue(w) \in start .. start + Share(L, s) - 1

Agrees(h, w) ==
  LET d == Decode(h, w)
  IN  IF d.sym = NoSymbol
        THEN \A s \in DOMAIN h.of : ~Owns(h.of, s, w)
        ELSE Owns(h.of, d.sym, w) /\ d.used = h.of[d.sym]

(* huff_build and huff_decode together are the canonical code of the       *)
(* lengths they are given, complete or not: what is decoded at any point   *)
(* is the symbol that owns the bits there, and nothing when none does.     *)
DecodesCanonically ==
  /\ phase = "lengths" => Agrees(clen, Window(at))
  /\ phase = "symbols" => Agrees(lit, Window(at)) /\ Agrees(dist, Window(at))
================================================================================
