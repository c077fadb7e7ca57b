-------------------------------- MODULE Machine --------------------------------
(***************************************************************************)
(* What the architecture says an instruction does: the reference the       *)
(* translation is held against.  It is written from the architecture, with *)
(* sums that do not wrap and shifts that give their carry, and shares with *)
(* the runtime's helpers only the bitwise operators and memory.            *)
(*                                                                         *)
(* A guest instruction is a record.  op and the operands say what it       *)
(* means; form is its encoding, which the decoder goes by.  Shift amounts  *)
(* and offsets are the fields of the encoding.  Sequences of registers are *)
(* ascending.  A state is [r, f, mem].                                     *)
(***************************************************************************)
EXTENDS Arith, Sequences, FiniteSets

CONSTANTS
  Regs,      (* general registers, "sp" among them                         *)
  CountMod   (* 256: a shift count in a register is its lowest byte        *)

NoReg == "none"
Flag  == {"n", "z", "c", "v"}

ASSUME MachineAssumption ==
  /\ "sp" \in Regs /\ {"pc", NoReg} \cap Regs = {}
  /\ Regs \cap (Flag \cup {"mem"}) = {}
  /\ CountMod \in Nat \ {0}

Compares == {"cmp", "cmn", "tst", "teq"}
Sums     == {"add", "adc", "sub", "sbc", "rsb", "cmp", "cmn"}
Logic    == {"and", "bic", "orr", "orn", "eor", "mov", "mvn", "tst", "teq"}
Shifts   == {"lsl", "lsr", "asr", "ror"}
Loads    == {"ldr", "ldrb", "ldrh", "ldrsb", "ldrsh"}
Stores   == {"str", "strb", "strh"}
Multiple == {"push", "pop", "stm", "ldm"}

(* An instruction with nothing in it; a form fills what it has. *)
Guest ==
  [form |-> "", op |-> "", s |-> FALSE, rd |-> NoReg, rn |-> NoReg, rm |-> NoReg,
   rt2 |-> NoReg, imm |-> 0, hasImm |-> FALSE, rotated |-> FALSE, shift |-> "lsl",
   amt |-> 0, add |-> TRUE, index |-> "offset", list |-> << >>, lsb |-> 0,
   width |-> 0, rot |-> 0]

--------------------------------------------------------------------------------
(* The encodings decode.c has a case for, and what the fields of each may  *)
(* be.  A field that is not named is as in Guest.  Left out are branches,  *)
(* calls and returns, the 16-bit LDM and STM (they trap), and the element  *)
(* stores at 0xF9x0, which decode.c:957 takes for STR, STRH and STRB.      *)

Fills(i, given) ==
  \A x \in DOMAIN Guest : i[x] \in IF x \in DOMAIN given THEN given[x] ELSE {Guest[x]}

Amount == 0 .. Width - 1
Scaled == 0 .. (Mod - 1) \div 4     (* counts words or less *)

EncodedAlu16(i) ==
  \/ Fills(i, [form |-> {"shift imm"}, op |-> {"lsl", "lsr", "asr"}, s |-> {TRUE},
               rd |-> Regs, rm |-> Regs, amt |-> Amount])
  \/ Fills(i, [form |-> {"add/sub"}, op |-> {"add", "sub"}, s |-> {TRUE},
               rd |-> Regs, rn |-> Regs, rm |-> Regs])
  \/ Fills(i, [form |-> {"add/sub"}, op |-> {"add", "sub"}, s |-> {TRUE},
               rd |-> Regs, rn |-> Regs, imm |-> Word, hasImm |-> {TRUE}])
  \/ /\ Fills(i, [form |-> {"imm8"}, op |-> {"mov", "cmp", "add", "sub"}, s |-> {TRUE},
                  rd |-> Regs, rn |-> Regs, imm |-> Word, hasImm |-> {TRUE}])
     /\ i.rn = i.rd
  \/ /\ Fills(i, [form |-> {"reg"}, s |-> {TRUE}, rd |-> Regs, rn |-> Regs, rm |-> Regs,
                  op |-> {"and", "eor", "lsl", "lsr", "asr", "adc", "sbc", "ror", "tst", "cmp",
                          "cmn", "orr", "mul", "bic", "mvn"}])
     /\ i.rn = i.rd
  \/ Fills(i, [form |-> {"reg"}, op |-> {"rsb"}, s |-> {TRUE}, rd |-> Regs, rn |-> Regs,
               hasImm |-> {TRUE}])
  \/ /\ Fills(i, [form |-> {"hi"}, op |-> {"add", "cmp", "mov"}, s |-> BOOLEAN, rd |-> Regs,
                  rn |-> Regs, rm |-> Regs \cup {"pc"}])
     /\ i.rn = i.rd /\ i.s = (i.op = "cmp")
  \/ Fills(i, [form |-> {"sp/pc"}, op |-> {"add", "sub"}, rd |-> Regs, rn |-> Regs,
               imm |-> Scaled, hasImm |-> {TRUE}])
  \/ Fills(i, [form |-> {"sp/pc"}, op |-> {"adr"}, rd |-> Regs, rn |-> {"pc"},
               imm |-> Scaled, hasImm |-> {TRUE}])
  \/ Fills(i, [form |-> {"extend"}, rd |-> Regs, rm |-> Regs,
               op |-> {"sxtb", "sxth", "uxtb", "uxth", "rev", "rev16", "revsh"}])

EncodedMem16(i) ==
  \/ Fills(i, [form |-> {"mem reg"}, op |-> Loads \cup Stores, rd |-> Regs, rn |-> Regs,
               rm |-> Regs])
  \/ Fills(i, [form |-> {"mem imm"}, op |-> {"ldr", "ldrb", "ldrh", "str", "strb", "strh"},
               rd |-> Regs, rn |-> Regs, imm |-> Scaled])
  \/ Fills(i, [form |-> {"mem imm"}, op |-> {"ldr"}, rd |-> Regs, rn |-> {"pc"}, imm |-> Scaled])
  \/ Fills(i, [form |-> {"stack"}, op |-> {"push", "pop"}, list |-> Seq(Regs \ {"sp"})])

(* A modified immediate: a byte and one of four patterns, or a byte whose  *)
(* highest bit is set, and is not kept, and a rotation by rot.             *)
Modified(i) ==
  \/ ~i.rotated /\ i.rot \in 0 .. 3
  \/ i.rotated /\ i.imm < ByteMod \div 2 /\ i.rot >= Width \div 4

Three == {"and", "bic", "orr", "orn", "eor", "add", "adc", "sbc", "sub", "rsb"}

EncodedAlu32(i) ==
  \/ /\ \/ Fills(i, [form |-> {"alu.w"}, op |-> Three \cup {"mov", "mvn"} \cup Compares,
                     s |-> BOOLEAN, rd |-> Regs \cup {NoReg}, rn |-> Regs \cup {NoReg},
                     rm |-> Regs, shift |-> Shifts, amt |-> Amount])
        \/ /\ Fills(i, [form |-> {"alu.w"}, op |-> Three \cup {"mov", "mvn"} \cup Compares,
                     s |-> BOOLEAN, rd |-> Regs \cup {NoReg}, rn |-> Regs \cup {NoReg},
                     imm |-> 0 .. ByteMod - 1, hasImm |-> {TRUE}, rotated |-> BOOLEAN,
                     rot |-> Amount])
           /\ Modified(i)
     /\ i.rd = NoReg <=> i.op \in Compares
     /\ i.rn = NoReg <=> i.op \in {"mov", "mvn"}
     /\ i.op \in Compares => i.s
  \/ Fills(i, [form |-> {"alu.w"}, op |-> {"pkh"}])

EncodedWide(i) ==
  \/ Fills(i, [form |-> {"wide"}, op |-> {"mov"}, rd |-> Regs, imm |-> Word, hasImm |-> {TRUE}])
  \/ Fills(i, [form |-> {"wide"}, op |-> {"movt"}, rd |-> Regs, imm |-> 0 .. ShortMod - 1,
               hasImm |-> {TRUE}])
  \/ Fills(i, [form |-> {"wide"}, op |-> {"add", "sub"}, rd |-> Regs, rn |-> Regs \cup {"pc"},
               imm |-> Word, hasImm |-> {TRUE}])
  \/ Fills(i, [form |-> {"wide"}, op |-> {"sbfx", "ubfx", "bfi"}, rd |-> Regs, rn |-> Regs,
               lsb |-> Amount, width |-> 1 .. Width])
  \/ Fills(i, [form |-> {"wide"}, op |-> {"bfc"}, rd |-> Regs, lsb |-> Amount,
               width |-> 1 .. Width])
  \/ Fills(i, [form |-> {"wide"}, op |-> {"ssat"}])

EncodedMem32(i) ==
  \/ Fills(i, [form |-> {"mem.w"}, op |-> Loads \cup Stores, rd |-> Regs, rn |-> Regs,
               imm |-> Word, hasImm |-> {TRUE}, add |-> BOOLEAN,
               index |-> {"offset", "pre", "post"}])
  \/ Fills(i, [form |-> {"mem.w"}, op |-> Loads \cup Stores, rd |-> Regs, rn |-> Regs,
               rm |-> Regs, amt |-> 0 .. 3])
  \/ Fills(i, [form |-> {"mem.w"}, op |-> Loads, rd |-> Regs, rn |-> {"pc"}, imm |-> Word,
               hasImm |-> {TRUE}, add |-> BOOLEAN])
  \/ Fills(i, [form |-> {"dual"}, op |-> {"ldrd", "strd"}, rd |-> Regs, rt2 |-> Regs, rn |-> Regs,
               imm |-> Scaled, add |-> BOOLEAN, index |-> {"offset", "pre", "post"}])
  \/ Fills(i, [form |-> {"dual"}, op |-> {"ldrd"}, rd |-> Regs, rt2 |-> Regs, rn |-> {"pc"},
               imm |-> Scaled, add |-> BOOLEAN])
  \/ Fills(i, [form |-> {"multiple"}, op |-> {"ldm", "stm"}, rn |-> Regs,
               list |-> Seq(Regs \ {"sp"}), add |-> BOOLEAN, index |-> {"offset", "pre"}])

EncodedOther(i) ==
  \/ Fills(i, [form |-> {"other.w"}, rd |-> Regs, rm |-> Regs, rot |-> 0 .. 3,
               op |-> {"sxth", "uxth", "sxtb", "uxtb", "sxtb16", "uxtb16"}])
  \/ Fills(i, [form |-> {"other.w"}, op |-> Shifts, s |-> BOOLEAN, rd |-> Regs, rn |-> Regs,
               rm |-> Regs])
  \/ Fills(i, [form |-> {"other.w"}, op |-> {"mul", "mla"}, rd |-> Regs, rn |-> Regs,
               rm |-> Regs])

Encoded(i) ==
  \/ EncodedAlu16(i) \/ EncodedMem16(i) \/ EncodedAlu32(i) \/ EncodedWide(i)
  \/ EncodedMem32(i) \/ EncodedOther(i)

--------------------------------------------------------------------------------
(* Memory, little end first; all of it is guest memory.  The runtime's     *)
(* accesses outside read zero and write nothing.                           *)

(* What an instruction leaves of a state. *)
SetRegs(s, r)   == [r |-> r, f |-> s.f, mem |-> s.mem]
SetReg(s, q, v) == SetRegs(s, [s.r EXCEPT ![q] = v])
SetFlags(s, f)  == [r |-> s.r, f |-> f, mem |-> s.mem]
SetMem(s, mem)  == [r |-> s.r, f |-> s.f, mem |-> mem]

InMem(a, n) == a + n <= Mod
Byte(v, k)  == (v \div ByteAt(k)) % ByteMod

Read(mem, a, n) ==
  LET v[k \in 0 .. n] == IF k = 0 THEN 0 ELSE v[k - 1] + mem[a + k - 1] * ByteAt(k - 1)
  IN  IF InMem(a, n) THEN v[n] ELSE 0

Write(mem, a, n, v) ==
  IF InMem(a, n)
    THEN [b \in Word |-> IF b \in a .. a + n - 1 THEN Byte(v, b - a) ELSE mem[b]]
    ELSE mem

Size(op) ==
  CASE op \in {"ldrb", "ldrsb", "strb"} -> 1
    [] op \in {"ldrh", "ldrsh", "strh"} -> 2
    [] OTHER -> 4

Align(a) == (a \div 4) * 4

(* Words of a register list, from an address up.                           *)
StoreList(mem, a, list, r) ==
  LET m[k \in 0 .. Len(list)] ==
        IF k = 0 THEN mem ELSE Write(m[k - 1], Wrap(a + 4 * (k - 1)), 4, r[list[k]])
  IN  m[Len(list)]

LoadList(mem, a, list, r) ==
  [q \in Regs |-> IF \E k \in 1 .. Len(list) : list[k] = q
                    THEN Read(mem, Wrap(a + 4 * ((CHOOSE k \in 1 .. Len(list) : list[k] = q) - 1)),
                              4)
                    ELSE r[q]]

--------------------------------------------------------------------------------
(* Operands. *)

Signed(x) == IF x >= Half THEN x - Mod ELSE x
SignExtend(x, m) == Wrap(((x + m \div 2) % m) - (m \div 2))

Source(s, r, a) == IF r = "pc" THEN Wrap(a + 4) ELSE s.r[r]

(* A shift and the bit it moves out. *)
Shift(type, x, n, c) ==
  LET rot == n % Width
      val == CASE type = "lsl" -> Wrap(x * 2 ^ n)
               [] type = "lsr" -> x \div 2 ^ n
               [] type = "asr" -> Wrap(Signed(x) \div 2 ^ n)
               [] type = "ror" -> (x \div 2 ^ rot) + Wrap(x * 2 ^ (Width - rot))
               [] type = "rrx" -> (x \div 2) + Carry(c) * Half
      out == CASE type = "lsl" -> ((x * 2 ^ n) \div Mod) % 2 = 1
               [] type = "lsr" -> (x \div 2 ^ (n - 1)) % 2 = 1
               [] type = "asr" -> (Signed(x) \div 2 ^ (n - 1)) % 2 = 1
               [] type = "ror" -> Sign(val) = 1
               [] type = "rrx" -> x % 2 = 1
  IN  IF n = 0 THEN [val |-> x, c |-> c] ELSE [val |-> val, c |-> out]

(* A shift by an immediate: what an amount of 0 means. *)
ShiftImm(type, x, amt, c) ==
  CASE amt = 0 /\ type \in {"lsr", "asr"} -> Shift(type, x, Width, c)
    [] amt = 0 /\ type = "ror"            -> Shift("rrx", x, 1, c)
    [] OTHER                              -> Shift(type, x, amt, c)

(* A modified immediate stands for the word with the byte in these places, *)
(* or for a rotation.                                                      *)
Places == << 1, 1 + ShortMod, ByteMod * (1 + ShortMod), (1 + ByteMod) * (1 + ShortMod) >>

ExpandImm(i) ==
  IF i.rotated THEN Shift("ror", ByteMod \div 2 + i.imm, i.rot, FALSE).val
  ELSE i.imm * Places[i.rot + 1]

Immediate(i) ==
  CASE i.form = "sp/pc" -> 4 * i.imm
    [] i.form = "alu.w" -> ExpandImm(i)
    [] OTHER            -> i.imm

(* The second operand, with the carry of the shifter. *)
Operand(i, a, s) ==
  IF i.hasImm
    THEN [val |-> Immediate(i), c |-> IF i.rotated THEN Sign(Immediate(i)) = 1 ELSE s.f.c]
    ELSE ShiftImm(i.shift, Source(s, i.rm, a), i.amt, s.f.c)

Moved(i, a, s) ==
  IF i.hasImm \/ i.form = "shift imm"
    THEN ShiftImm(i.op, s.r[i.rm], i.amt, s.f.c)
    ELSE Shift(i.op, s.r[i.rn], s.r[i.rm] % CountMod, s.f.c)

--------------------------------------------------------------------------------
(* Data processing. *)

AddWithCarry(x, y, k) ==
  LET val == Wrap(x + y + k)
  IN  [val |-> val, c |-> x + y + k >= Mod, v |-> Signed(val) # Signed(x) + Signed(y) + k]

Sum(op, x, y, c) ==
  CASE op \in {"add", "cmn"} -> AddWithCarry(x, y, 0)
    [] op = "adc"            -> AddWithCarry(x, y, Carry(c))
    [] op \in {"sub", "cmp"} -> AddWithCarry(x, Not(y), 1)
    [] op = "sbc"            -> AddWithCarry(x, Not(y), Carry(c))
    [] op = "rsb"            -> AddWithCarry(Not(x), y, 1)

Bitwise2(op, x, y) ==
  CASE op \in {"and", "tst"} -> And(x, y)
    [] op \in {"eor", "teq"} -> Xor(x, y)
    [] op = "bic" -> And(x, Not(y))
    [] op = "orr" -> Or(x, y)
    [] op = "orn" -> Or(x, Not(y))
    [] op = "mov" -> y
    [] op = "mvn" -> Not(y)

(* The first operand: the program counter is aligned where it forms an     *)
(* address.                                                                *)
Left(i, a, s) ==
  CASE i.rn = "pc" /\ i.form \in {"sp/pc", "wide"} -> Align(Wrap(a + 4))
    [] i.rn = NoReg -> 0
    [] OTHER        -> Source(s, i.rn, a)

(* The operand of an extend, rotated by whole bytes. *)
Turned(i, s) == Shift("ror", s.r[i.rm], i.rot * (Width \div 4), FALSE).val

(* The value and the flags of an instruction that computes. *)
Computed(i, a, s) ==
  LET f == s.f
      x == Left(i, a, s)
      y == Operand(i, a, s)
      sum == Sum(i.op, x, y.val, f.c)
      low == [val |-> Bitwise2(i.op, x, y.val), c |-> y.c]
      mv  == Moved(i, a, s)
      turned == Turned(i, s)
      half(k) == SignExtend(Byte(turned, k), ByteMod) % ShortMod
      plain(val) == [val |-> val, f |-> f]
  IN  CASE i.op \in Sums   -> [val |-> sum.val, f |-> Flags(sum.val, sum.c, sum.v)]
        [] i.op \in Logic  -> [val |-> low.val, f |-> Flags(low.val, low.c, f.v)]
        [] i.op \in Shifts -> [val |-> mv.val, f |-> Flags(mv.val, mv.c, f.v)]
        [] i.op = "mul"  -> LET p == Wrap(s.r[i.rn] * s.r[i.rm])
                            IN  [val |-> p, f |-> Flags(p, f.c, f.v)]
        [] i.op = "adr"  -> plain(Wrap(x + y.val))
        [] i.op = "movt" -> plain((s.r[i.rd] % ShortMod) + i.imm * ShortMod)
        [] i.op = "sxtb" -> plain(SignExtend(turned % ByteMod, ByteMod))
        [] i.op = "sxth" -> plain(SignExtend(turned % ShortMod, ShortMod))
        [] i.op = "uxtb" -> plain(turned % ByteMod)
        [] i.op = "uxth" -> plain(turned % ShortMod)
        [] i.op = "sxtb16" -> plain(half(0) + half(2) * ShortMod)
        [] i.op = "uxtb16" -> plain(Byte(turned, 0) + Byte(turned, 2) * ShortMod)
        [] i.op = "rev"   -> plain(Read([k \in 0 .. 3 |-> Byte(s.r[i.rm], 3 - k)], 0, 4))
        [] i.op = "revsh" -> plain(SignExtend(Byte(s.r[i.rm], 1) + Byte(s.r[i.rm], 0) * ByteMod,
                                              ShortMod))
        [] i.op = "ubfx"  -> plain((s.r[i.rn] \div 2 ^ i.lsb) % 2 ^ i.width)
        [] i.op = "sbfx"  -> plain(SignExtend((s.r[i.rn] \div 2 ^ i.lsb) % 2 ^ i.width,
                                              2 ^ i.width))
        [] i.op \in {"bfi", "bfc"} ->
             LET old == (s.r[i.rd] \div 2 ^ i.lsb) % 2 ^ i.width
                 new == IF i.op = "bfi" THEN s.r[i.rn] % 2 ^ i.width ELSE 0
             IN  plain(s.r[i.rd] + (new - old) * 2 ^ i.lsb)

--------------------------------------------------------------------------------
(* Loads and stores. *)

Scale(i) ==
  CASE i.form = "mem imm" -> Size(i.op) [] i.form = "dual" -> 4 [] OTHER -> 1

Base(i, a, s) == IF i.rn = "pc" THEN Align(Wrap(a + 4)) ELSE s.r[i.rn]

Offset(i, s) ==
  IF i.rm = NoReg THEN Scale(i) * i.imm ELSE s.r[i.rm] * 2 ^ i.amt

Moved2(i, a, s) ==
  IF i.add THEN Wrap(Base(i, a, s) + Offset(i, s)) ELSE Wrap(Base(i, a, s) - Offset(i, s))

(* Where an access is, and what becomes of the base register. *)
Address(i, a, s) ==
  LET n == 4 * Len(i.list)
      sp == IF i.op \in {"push", "pop"} THEN s.r["sp"] ELSE s.r[i.rn]
  IN  CASE i.op = "push" -> Wrap(sp - n)
        [] i.op = "pop"  -> sp
        [] i.op \in {"stm", "ldm"} -> IF i.add THEN sp ELSE Wrap(sp - n)
        [] OTHER -> IF i.index = "post" THEN Base(i, a, s) ELSE Moved2(i, a, s)

BaseAfter(i, a, s) ==
  LET n == 4 * Len(i.list)
  IN  CASE i.op = "push" -> [reg |-> "sp", val |-> Wrap(s.r["sp"] - n)]
        [] i.op = "pop"  -> [reg |-> "sp", val |-> Wrap(s.r["sp"] + n)]
        [] i.op \in {"stm", "ldm"} ->
             [reg |-> i.rn, val |-> IF i.add THEN Wrap(s.r[i.rn] + n) ELSE Wrap(s.r[i.rn] - n)]
        [] OTHER -> [reg |-> i.rn, val |-> Moved2(i, a, s)]

WritesBack(i) == i.op \in {"push", "pop"} \/ i.index # "offset"

Loaded(op, w) ==
  CASE op = "ldrsb" -> SignExtend(w, ByteMod)
    [] op = "ldrsh" -> SignExtend(w, ShortMod)
    [] OTHER        -> w

Transfer(i, a, s) ==
  LET at == Address(i, a, s)
      b  == BaseAfter(i, a, s)
      t  == IF WritesBack(i) THEN SetReg(s, b.reg, b.val) ELSE s
      next == Wrap(at + 4)
  IN  CASE i.op \in Loads ->
             SetReg(t, i.rd, Loaded(i.op, Read(s.mem, at, Size(i.op))))
        [] i.op \in Stores -> SetMem(t, Write(s.mem, at, Size(i.op), s.r[i.rd]))
        [] i.op = "ldrd"   ->
             SetReg(SetReg(t, i.rd, Read(s.mem, at, 4)), i.rt2, Read(s.mem, next, 4))
        [] i.op = "strd"   ->
             SetMem(t, Write(Write(s.mem, at, 4, s.r[i.rd]), next, 4, s.r[i.rt2]))
        [] i.op \in {"push", "stm"} -> SetMem(t, StoreList(s.mem, at, i.list, s.r))
        [] i.op \in {"pop", "ldm"}  -> SetRegs(t, LoadList(s.mem, at, i.list, t.r))

--------------------------------------------------------------------------------
(* An instruction at a. *)

IsTransfer(i) == i.op \in Loads \cup Stores \cup Multiple \cup {"ldrd", "strd"}

MachineStep(i, a, s) ==
  LET x == Computed(i, a, s)
  IN  CASE IsTransfer(i) -> Transfer(i, a, s)
        [] i.op \in Compares -> SetFlags(s, x.f)
        [] OTHER -> SetFlags(SetReg(s, i.rd, x.val), IF i.s THEN x.f ELSE s.f)

(* Its accesses are in memory. *)
Touched(i) ==
  CASE i.op \in Multiple -> 4 * Len(i.list)
    [] i.op \in {"ldrd", "strd"} -> 8
    [] OTHER -> Size(i.op)

Fits(i, a, s) == IsTransfer(i) => InMem(Address(i, a, s), Touched(i))

(* The condition of a branch: the odd ones negate. *)
Condition(cc, f) ==
  LET base == CASE cc \div 2 = 0 -> f.z
                [] cc \div 2 = 1 -> f.c
                [] cc \div 2 = 2 -> f.n
                [] cc \div 2 = 3 -> f.v
                [] cc \div 2 = 4 -> f.c /\ ~f.z
                [] cc \div 2 = 5 -> f.n = f.v
                [] cc \div 2 = 6 -> f.n = f.v /\ ~f.z
                [] OTHER         -> TRUE
  IN  IF cc % 2 = 1 /\ cc # 15 THEN ~base ELSE base

(* The flags it reads. *)
FlagsRead(cc) ==
  CASE cc \div 2 = 0 -> {"z"} [] cc \div 2 = 1 -> {"c"} [] cc \div 2 = 2 -> {"n"}
    [] cc \div 2 = 3 -> {"v"} [] cc \div 2 = 4 -> {"c", "z"} [] cc \div 2 = 5 -> {"n", "v"}
    [] cc \div 2 = 6 -> {"n", "v", "z"} [] OTHER -> {}
================================================================================
