------------------------------- MODULE Translate -------------------------------
(***************************************************************************)
(* From an instruction to the C that is printed for it: what decode.c      *)
(* keeps of the operands, and what the text emit_insn prints does to the   *)
(* registers, flags and memory of the runtime.  The machine and the C run  *)
(* the same instructions, one at a time, up to the first of a kind that is *)
(* named below as translated into something else.                          *)
(***************************************************************************)
EXTENDS Machine

CONSTANTS
  Insns,       (* guest instructions that may be met                       *)
  Starts,      (* register contents to start from                          *)
  Image,       (* byte at each address at first: the module's segments     *)
  MaxSteps     (* instructions executed, a bound                           *)

ASSUME TranslateAssumption ==
  /\ \A i \in Insns : Encoded(i)
  /\ Starts \subseteq [Regs -> Word]
  /\ Image \in [Word -> 0 .. ByteMod - 1]
  /\ MaxSteps \in Nat

VARIABLES
  pc,          (* the address both are at                                  *)
  steps,       (* instructions executed                                    *)
  arm,         (* the machine: [r, f, mem]                                 *)
  cpu,         (* the runtime's registers, flags and memory                *)
  doubt,       (* what a named gap may have made different in cpu          *)
  trapped      (* the C has called vita_trap_unimpl                        *)

vars == << pc, steps, arm, cpu, doubt, trapped >>

--------------------------------------------------------------------------------
(* arm_decode.                                                             *)

(* arm_insn before a case fills it. *)
Absent ==
  [op |-> "none", rd |-> NoReg, rn |-> NoReg, rm |-> NoReg, rt2 |-> NoReg,
   imm |-> 0, hasImm |-> FALSE, shift |-> "lsl", amt |-> 0, s |-> FALSE,
   add |-> FALSE, lsb |-> 0, width |-> 0, list |-> << >>]

Insn(given) == [x \in DOMAIN Absent |-> IF x \in DOMAIN given THEN given[x] ELSE Absent[x]]

(* 16-bit data processing. *)
DecodeAlu16(i) ==
  CASE i.form = "shift imm" ->
         Insn([op |-> i.op, rd |-> i.rd, rm |-> i.rm, imm |-> i.amt, hasImm |-> TRUE, s |-> TRUE])
    [] i.form = "add/sub" ->
         Insn([op |-> i.op, rd |-> i.rd, rn |-> i.rn, rm |-> i.rm, s |-> TRUE,
               imm |-> i.imm, hasImm |-> i.hasImm])
    [] i.form = "imm8" ->
         Insn([op |-> i.op, rd |-> i.rd, rn |-> i.rd, imm |-> i.imm, hasImm |-> TRUE, s |-> TRUE])
    [] i.form = "reg" /\ i.op = "rsb" ->
         Insn([op |-> i.op, rd |-> i.rd, rn |-> i.rn, rm |-> i.rn, hasImm |-> TRUE, s |-> TRUE])
    [] i.form = "reg" /\ i.op # "rsb" ->
         Insn([op |-> i.op, rd |-> i.rd, rn |-> i.rd, rm |-> i.rm, s |-> TRUE])
    [] i.form = "hi" ->
         Insn([op |-> i.op, rd |-> i.rd, rn |-> i.rd, rm |-> i.rm, s |-> (i.op = "cmp")])

(* 16-bit loads and stores: an immediate counts units of the access.       *)
DecodeMem16(i) ==
  CASE i.form = "mem reg" ->
         Insn([op |-> i.op, rd |-> i.rd, rn |-> i.rn, rm |-> i.rm, add |-> TRUE])
    [] i.form = "mem imm" ->
         Insn([op |-> i.op, rd |-> i.rd, rn |-> i.rn, imm |-> Size(i.op) * i.imm,
               hasImm |-> TRUE, add |-> TRUE])

(* ADR and ADD of sp, the extensions, PUSH and POP.                        *)
DecodeMisc16(i) ==
  CASE i.form = "sp/pc" ->
         Insn([op |-> i.op, rd |-> i.rd, rn |-> i.rn, imm |-> 4 * i.imm, hasImm |-> TRUE])
    [] i.form = "extend" ->
         Insn([op |-> CASE i.op = "revsh" -> "rev" [] i.op = "rev16" -> "none" [] OTHER -> i.op,
               rd |-> i.rd, rm |-> i.rm])
    [] i.form = "stack" ->
         Insn([op |-> i.op, list |-> i.list])

(* The immediate of the wide forms.                                        *)
thumb_expand_imm(i) ==
  LET b == i.imm
      v == Or(ByteMod \div 2, b)
  IN  CASE ~i.rotated /\ i.rot = 0 -> b
        [] ~i.rotated /\ i.rot = 1 -> Or(b * ShortMod, b)
        [] ~i.rotated /\ i.rot = 2 -> Or(b * ByteAt(3), b * ByteMod)
        [] ~i.rotated /\ i.rot = 3 ->
             Or(Or(Or(b * ByteAt(3), b * ShortMod), b * ByteMod), b)
        [] i.rotated -> Or(v \div 2 ^ i.rot, Wrap(v * 2 ^ (Width - i.rot)))

(* 32-bit data processing with a shifted register or a modified immediate: *)
(* ORN is given the code of MVN, and TEQ that of TST.                      *)
DecodeAlu32(i) ==
  IF i.op = "pkh" THEN Absent
  ELSE Insn([op |-> CASE i.op = "orn" -> "mvn" [] i.op = "teq" -> "tst" [] OTHER -> i.op,
             s |-> i.s, imm |-> IF i.hasImm THEN thumb_expand_imm(i) ELSE 0, hasImm |-> i.hasImm,
             rm |-> i.rm, shift |-> i.shift, amt |-> i.amt, rd |-> i.rd, rn |-> i.rn])

(* The plain immediates and the bit fields.                                *)
DecodeWide(i) ==
  CASE i.op \in {"mov", "movt", "add", "sub"} ->
         Insn([op |-> i.op, rd |-> i.rd, rn |-> i.rn, imm |-> i.imm, hasImm |-> TRUE])
    [] i.op \in {"sbfx", "ubfx", "bfi", "bfc"} ->
         Insn([op |-> IF i.lsb + i.width <= Width THEN i.op ELSE "none",
               rd |-> i.rd, rn |-> i.rn, lsb |-> i.lsb, width |-> i.width])
    [] OTHER -> Insn([rd |-> i.rd])

(* A literal at a lower address has twelve bits of offset where the forms  *)
(* of a register base keep their kind.                                     *)
LiteralBelow(i) == i.form = "mem.w" /\ i.rn = "pc" /\ ~i.add

(* 32-bit loads and stores.  Every index form but [rn, #-imm8] is read as  *)
(* [rn, #imm8]; writeback is not used.                                     *)
DecodeMem32(i) ==
  CASE LiteralBelow(i) ->
         Insn([op |-> i.op, rd |-> i.rd, rn |-> i.rn, add |-> i.imm \div 256 # 12,
               imm |-> IF i.imm < 64 THEN 0 ELSE i.imm % 256])
    [] i.form = "mem.w" /\ ~LiteralBelow(i) ->
         Insn([op |-> i.op, rd |-> i.rd, rn |-> i.rn, rm |-> i.rm, hasImm |-> i.hasImm,
               imm |-> i.imm, amt |-> i.amt, add |-> i.add \/ i.index # "offset"])

(* Two registers, or a list: only a list at sp is given an operation.      *)
DecodeMany32(i) ==
  CASE i.form = "dual" ->
         Insn([op |-> i.op, rd |-> i.rd, rt2 |-> i.rt2, rn |-> i.rn, imm |-> 4 * i.imm,
               hasImm |-> TRUE, add |-> i.add])
    [] i.form = "multiple" ->
         Insn([op |-> IF i.rn # "sp" THEN "none" ELSE IF i.op = "ldm" THEN "pop" ELSE "push",
               rn |-> i.rn, list |-> i.list])

(* The rest: extends, shifts by a register and multiplication.  The table  *)
(* of the extends is indexed by two of the three bits that tell them apart.*)
DecodeOther32(i) ==
  Insn([op |-> CASE i.op = "sxtb" -> "sxth"   [] i.op = "uxtb" -> "uxth"
                 [] i.op = "sxtb16" -> "sxtb" [] i.op = "uxtb16" -> "uxtb"
                 [] i.op = "mla" -> "none"    [] OTHER -> i.op,
        rd |-> i.rd, rn |-> i.rn, rm |-> i.rm, s |-> i.s])

Decode(i) ==
  CASE i.form \in {"shift imm", "add/sub", "imm8", "reg", "hi"} -> DecodeAlu16(i)
    [] i.form \in {"mem reg", "mem imm"}             -> DecodeMem16(i)
    [] i.form \in {"sp/pc", "extend", "stack"}       -> DecodeMisc16(i)
    [] i.form \in {"dual", "multiple"}               -> DecodeMany32(i)
    [] i.form = "alu.w"                              -> DecodeAlu32(i)
    [] i.form = "wide"                               -> DecodeWide(i)
    [] i.form = "mem.w"                              -> DecodeMem32(i)
    [] i.form = "other.w"                            -> DecodeOther32(i)

--------------------------------------------------------------------------------
(* emit_insn: what the C does.  d is what was decoded, a its address, c    *)
(* the runtime.                                                            *)

(* reg_operand and src_name: the program counter is a constant. *)
Src(r, a, c) == IF r = "pc" THEN Wrap(a + 4) ELSE c.r[r]

Shifted(type, v, n) ==
  CASE type = "lsl" -> vita_lsl(v, n) [] type = "lsr" -> vita_lsr(v, n)
    [] type = "asr" -> vita_asr(v, n) [] type = "ror" -> vita_ror(v, n)

First(d, a, c) ==
  CASE d.rn # NoReg -> Src(d.rn, a, c)
    [] d.rn = NoReg /\ d.rd # NoReg -> c.r[d.rd]
    [] OTHER -> 0

operand2(d, a, c) ==
  CASE d.hasImm                   -> d.imm
    [] ~d.hasImm /\ d.rm = NoReg  -> 0
    [] ~d.hasImm /\ d.rm = "pc"   -> Src(d.rm, a, c)
    [] ~d.hasImm /\ d.rm \in Regs ->
         IF d.amt = 0 /\ d.shift = "lsl" THEN c.r[d.rm] ELSE Shifted(d.shift, c.r[d.rm], d.amt)

address(d, a, c) ==
  CASE d.rn = "pc" -> IF d.add THEN Wrap(Align(Wrap(a + 4)) + d.imm)
                      ELSE Wrap(Align(Wrap(a + 4)) - d.imm)
    [] d.rn # "pc" /\ d.hasImm /\ d.imm # 0 ->
         IF d.add THEN Wrap(c.r[d.rn] + d.imm) ELSE Wrap(c.r[d.rn] - d.imm)
    [] d.rn # "pc" /\ ~(d.hasImm /\ d.imm # 0) /\ d.rm # NoReg ->
         Wrap(c.r[d.rn] + Src(d.rm, a, c))
    [] OTHER -> c.r[d.rn]

(* The value an instruction computes. *)
Value(d, a, c) ==
  LET x == First(d, a, c)
      y == operand2(d, a, c)
      k == Carry(c.f.c)
  IN  CASE d.op = "mov"  -> y
        [] d.op = "mvn"  -> Not(y)
        [] d.op = "movt" -> Or(c.r[d.rd] % ShortMod, Wrap(d.imm * ShortMod))
        [] d.op \in {"add", "cmn"} -> Wrap(x + y)
        [] d.op \in {"sub", "cmp"} -> Wrap(x - y)
        [] d.op = "adc"  -> Wrap(x + y + k)
        [] d.op = "sbc"  -> Wrap(x - y - (1 - k))
        [] d.op = "rsb"  -> Wrap(0 - x)
        [] d.op \in {"and", "tst"} -> And(x, y)
        [] d.op = "orr"  -> Or(x, y)
        [] d.op = "eor"  -> Xor(x, y)
        [] d.op = "bic"  -> And(x, Not(y))
        [] d.op \in Shifts -> IF d.hasImm THEN Shifted(d.op, Src(d.rm, a, c), d.imm)
                              ELSE Shifted(d.op, c.r[d.rd], Src(d.rm, a, c) % CountMod)
        [] d.op = "mul"  -> Wrap(c.r[d.rd] * Src(d.rm, a, c))
        [] d.op = "adr"  -> Wrap(Align(Wrap(a + 4)) + d.imm)
        [] d.op = "sxtb" -> vita_sxtb(Src(d.rm, a, c))
        [] d.op = "sxth" -> vita_sxth(Src(d.rm, a, c))
        [] d.op = "uxtb" -> vita_uxtb(Src(d.rm, a, c))
        [] d.op = "uxth" -> vita_uxth(Src(d.rm, a, c))
        [] d.op = "rev"  -> vita_rev(Src(d.rm, a, c))
        [] d.op = "ubfx" -> vita_ubfx(x, d.lsb, d.width)
        [] d.op = "sbfx" -> vita_sbfx(x, d.lsb, d.width)
        [] d.op = "bfi"  -> vita_bfi(c.r[d.rd], x, d.lsb, d.width)
        [] d.op = "bfc"  -> vita_bfi(c.r[d.rd], 0, d.lsb, d.width)

(* The flags it leaves. *)
FlagsSet(d, a, c, res) ==
  LET x == First(d, a, c)
      y == operand2(d, a, c)
      k == Carry(c.f.c)
  IN  CASE d.op \in {"add", "cmn"} -> vita_flags_add(x, y, res)
        [] d.op = "adc"            -> vita_flags_adc(x, y, k, res)
        [] d.op \in {"sub", "cmp"} -> vita_flags_sub(x, y, res)
        [] d.op = "sbc"            -> vita_flags_sub(x, Wrap(y + (1 - k)), res)
        [] d.op = "rsb"            -> vita_flags_sub(0, x, res)
        [] OTHER                   -> vita_flags_nz(c.f, res)

(* A literal is read from the module when it is translated. *)
LoadC(d, a, c) ==
  LET at == address(d, a, c)
      w  == Read(c.mem, at, Size(d.op))
      literal == Wrap(Align(Wrap(a + 4)) + d.imm)
  IN  CASE d.rn = "pc" /\ InMem(literal, 4) -> Read(Image, literal, 4)
        [] d.op = "ldrsb" -> vita_sxtb(w)
        [] d.op = "ldrsh" -> vita_sxth(w)
        [] OTHER          -> w

(* Two statements, each with the address spelled out. *)
DualC(d, a, c) ==
  LET low == address(d, a, c)
  IN  IF d.op = "ldrd"
        THEN LET first == SetReg(c, d.rd, Read(c.mem, low, 4))
             IN  SetReg(first, d.rt2, Read(c.mem, Wrap(address(d, a, first) + 4), 4))
        ELSE SetMem(c, Write(Write(c.mem, low, 4, c.r[d.rd]), Wrap(low + 4), 4, c.r[d.rt2]))

PushC(d, c) ==
  LET sp == Wrap(c.r["sp"] - 4 * Len(d.list))
  IN  SetMem(SetReg(c, "sp", sp), StoreList(c.mem, sp, d.list, c.r))

PopC(d, c) ==
  LET r == LoadList(c.mem, c.r["sp"], d.list, c.r)
  IN  SetRegs(c, [r EXCEPT !["sp"] = Wrap(@ + 4 * Len(d.list))])

Emitted(d, a, c) ==
  CASE d.op \in Loads  -> SetReg(c, d.rd, LoadC(d, a, c))
    [] d.op \in Stores -> SetMem(c, Write(c.mem, address(d, a, c), Size(d.op), c.r[d.rd]))
    [] d.op \in {"ldrd", "strd"} -> DualC(d, a, c)
    [] d.op = "push"   -> PushC(d, c)
    [] d.op = "pop"    -> PopC(d, c)
    [] d.op \in Compares -> SetFlags(c, FlagsSet(d, a, c, Value(d, a, c)))
    [] OTHER -> LET res == Value(d, a, c)
                IN  SetFlags(SetReg(c, d.rd, res), IF d.s THEN FlagsSet(d, a, c, res) ELSE c.f)

--------------------------------------------------------------------------------
(* The gaps: instructions that become something else, without a trap.      *)

(* LSR and ASR #0 shift by the width, ROR #0 is RRX; the C does not shift. *)
ZeroIsWidth(i) ==
  /\ i.amt = 0
  /\ \/ i.form = "shift imm" /\ i.op \in {"lsr", "asr"}
     \/ i.form = "alu.w" /\ ~i.hasImm /\ i.shift # "lsl"

(* A wide RSB is read as a negation, ORN as MVN, TEQ as TST, REVSH as REV, *)
(* a byte extend as a halfword one, and the rotation before it is dropped. *)
OtherOperation(i) ==
  \/ i.form = "alu.w" /\ i.op = "rsb" /\ ~(i.hasImm /\ ExpandImm(i) = 0)
  \/ i.op \in {"orn", "teq", "revsh"}
  \/ i.form = "other.w" /\ (i.op \in {"sxtb", "uxtb", "sxtb16", "uxtb16"} \/ i.rot # 0)

(* Shifts and products of three registers use the destination as a source. *)
SourceDropped(i) == i.form = "other.w" /\ i.op \in Shifts \cup {"mul"} /\ i.rd # i.rn

(* ADR with a wide immediate: the program counter is not aligned. *)
AdrUnaligned(i, a) == i.form = "wide" /\ i.rn = "pc" /\ a % 4 # 0

(* Pre- and post-indexing, shifted indexes, and the multiple forms on sp   *)
(* that are no push or pop.                                                *)
AddressDropped(i) ==
  \/ i.form \in {"mem.w", "dual"} /\ (i.index # "offset" \/ i.amt # 0)
  \/ i.form = "multiple" /\ (i.index = "offset" \/ i.add # (i.op = "ldm"))

(* A literal is a word of the file, whatever the size of the load and      *)
(* whatever the program has stored there.                                  *)
LiteralAsWord(i, a, s) ==
  /\ i.op \in Loads /\ i.rn = "pc"
  /\ Size(i.op) < 4 \/ Read(s.mem, Address(i, a, s), 4) # Read(Image, Address(i, a, s), 4)

(* The second half of a load pair is read through what the first loaded.   *)
BaseLoaded(i) == i.op = "ldrd" /\ i.rd = i.rn

Gap(i, a, s) ==
  \/ ZeroIsWidth(i) \/ OtherOperation(i) \/ SourceDropped(i) \/ AdrUnaligned(i, a)
  \/ AddressDropped(i) \/ LiteralBelow(i) \/ LiteralAsWord(i, a, s) \/ BaseLoaded(i)

(* Logical operations and shifts leave the carry alone; the machine's take *)
(* it from the shifter.                                                    *)
ShifterCarry(i, a, s) ==
  /\ i.s \/ i.op \in Compares
  /\ i.op \in Logic \cup Shifts
  /\ MachineStep(i, a, s).f.c # s.f.c

(* The borrow is added to the operand before it is compared.               *)
BorrowWraps(i, a, s) ==
  /\ i.op = "sbc" /\ i.s /\ ~s.f.c
  /\ Operand(i, a, s).val = Mod - 1

BorrowChangesSign(i, a, s) ==
  /\ i.op = "sbc" /\ i.s /\ ~s.f.c
  /\ Operand(i, a, s).val \in {Half - 1, Mod - 1}

(* What an instruction may write, here or on the machine.                  *)
Written(i) ==
  (({i.rd, i.rn, i.rt2} \cup {i.list[k] : k \in 1 .. Len(i.list)}) \cap Regs)
  \cup (IF i.s \/ i.op \in Compares THEN Flag ELSE {})
  \cup (IF i.op \in Stores \cup {"strd", "stm", "push"} THEN {"mem"} ELSE {})

Doubtful(i, a, s) ==
  IF Gap(i, a, s) THEN Written(i)
  ELSE {x \in {"c"} : ShifterCarry(i, a, s) \/ BorrowWraps(i, a, s)}
       \cup {x \in {"v"} : BorrowChangesSign(i, a, s)}

--------------------------------------------------------------------------------
Init ==
  /\ pc = 0 /\ steps = 0
  /\ \E r \in Starts :
       arm = [r |-> r, f |-> [n |-> FALSE, z |-> FALSE, c |-> FALSE, v |-> FALSE], mem |-> Image]
  /\ cpu = arm
  /\ doubt = {} /\ trapped = FALSE

Narrow == {"shift imm", "add/sub", "imm8", "reg", "hi", "sp/pc", "extend",
           "mem reg", "mem imm", "stack"}

(* Both go on while they agree. *)
Going == doubt = {} /\ ~trapped /\ steps < MaxSteps

(* An instruction the decoder did not give an operation. *)
Trap(i) ==
  /\ Going
  /\ Decode(i).op = "none"
  /\ trapped' = TRUE
  /\ UNCHANGED << pc, steps, arm, cpu, doubt >>

Execute(i) ==
  /\ Going
  /\ Fits(i, pc, arm)
  /\ Decode(i).op # "none"
  /\ arm' = MachineStep(i, pc, arm)
  /\ cpu' = Emitted(Decode(i), pc, cpu)
  /\ doubt' = Doubtful(i, pc, arm)
  /\ pc' = pc + (IF i.form \in Narrow THEN 2 ELSE 4)
  /\ steps' = steps + 1
  /\ UNCHANGED trapped

Next == \E i \in Insns : Trap(i) \/ Execute(i)

Spec == Init /\ [][Next]_vars

--------------------------------------------------------------------------------
(* What the C and the machine disagree on is within what a named gap has   *)
(* put in doubt, whatever ran before it: registers, flags and memory.      *)
StateKept ==
  /\ \A r \in Regs \ doubt : cpu.r[r] = arm.r[r]
  /\ \A x \in Flag \ doubt : cpu.f[x] = arm.f[x]
  /\ "mem" \in doubt \/ cpu.mem = arm.mem

(* A branch that follows goes the way it does on the machine, unless it    *)
(* reads a flag in doubt.                                                  *)
BranchesKept ==
  \A cc \in 0 .. 15 :
    FlagsRead(cc) \cap doubt = {} => vita_cond(cc, cpu.f) = Condition(cc, arm.f)
================================================================================
