------------------------------ MODULE MCTranslate ------------------------------
(* Four-bit registers, one-bit bytes and sixteen of them: every register   *)
(* holds the values the helpers turn on, and every encoding the decoder    *)
(* has a case for is there, with the operands that matter to it.           *)
EXTENDS Translate

MCRegs == {"r0", "r1", "sp"}

G(form, op) == [Guest EXCEPT !.form = form, !.op = op]

(* 16-bit. *)
ShiftImms ==
  { [G("shift imm", op) EXCEPT !.rd = "r0", !.rm = "r1", !.amt = n, !.s = TRUE] :
      op \in {"lsl", "lsr", "asr"}, n \in 0 .. 2 }

AddSub ==
  { [G("add/sub", op) EXCEPT !.rd = "r0", !.rn = "r1", !.rm = "r0", !.s = TRUE] :
      op \in {"add", "sub"} } \cup
  { [G("add/sub", op) EXCEPT !.rd = "r0", !.rn = "r1", !.imm = 3, !.hasImm = TRUE, !.s = TRUE] :
      op \in {"add", "sub"} }

Imm8s ==
  { [G("imm8", op) EXCEPT !.rd = "r1", !.rn = "r1", !.imm = n, !.hasImm = TRUE, !.s = TRUE] :
      op \in {"mov", "cmp", "add", "sub"}, n \in {0, 7} }

RegOps == {"and", "eor", "lsl", "lsr", "asr", "adc", "sbc", "ror", "tst", "cmp", "cmn",
           "orr", "mul", "bic", "mvn"}

RegForms ==
  { [G("reg", op) EXCEPT !.rd = "r0", !.rn = "r0", !.rm = "r1", !.s = TRUE] : op \in RegOps }
  \cup { [G("reg", "rsb") EXCEPT !.rd = "r0", !.rn = "r1", !.hasImm = TRUE, !.s = TRUE] }

High ==
  { [G("hi", op) EXCEPT !.rd = "r1", !.rn = "r1", !.rm = m, !.s = (op = "cmp")] :
      op \in {"add", "cmp", "mov"}, m \in {"sp", "pc"} }

SpPc ==
  { [G("sp/pc", op) EXCEPT !.rd = d, !.rn = "sp", !.imm = 1, !.hasImm = TRUE] :
      op \in {"add", "sub"}, d \in {"sp"} } \cup
  { [G("sp/pc", op) EXCEPT !.rd = "r0", !.rn = IF op = "adr" THEN "pc" ELSE "sp",
                           !.imm = 2, !.hasImm = TRUE] : op \in {"add", "adr"} }

Extends16 ==
  { [G("extend", op) EXCEPT !.rd = "r0", !.rm = "r1"] :
      op \in {"sxtb", "sxth", "uxtb", "uxth", "rev", "rev16", "revsh"} }

Mems16 ==
  { [G("mem reg", op) EXCEPT !.rd = "r0", !.rn = "sp", !.rm = "r1"] : op \in Loads \cup Stores }
  \cup { [G("mem imm", op) EXCEPT !.rd = "r0", !.rn = "r1", !.imm = n] :
           op \in {"ldr", "ldrb", "ldrh", "str", "strb", "strh"}, n \in 0 .. 1 }
  \cup { [G("mem imm", "ldr") EXCEPT !.rd = "r1", !.rn = "pc", !.imm = 1] }
  \cup { [G("stack", op) EXCEPT !.list = l] :
           op \in {"push", "pop"}, l \in { << "r1" >>, << "r0", "r1" >> } }

(* 32-bit. *)
DataOps == {"and", "bic", "orr", "orn", "eor", "mov", "mvn", "add", "adc", "sbc", "sub", "rsb"}

Source32(op) == IF op \in {"mov", "mvn"} THEN NoReg ELSE "r1"

AluWide ==
  { [G("alu.w", op) EXCEPT !.rd = "r1", !.rn = Source32(op), !.rm = "r0", !.s = f,
                           !.shift = t, !.amt = n] :
      op \in {"add", "sbc", "orr", "mov"}, f \in BOOLEAN, t \in Shifts, n \in {0, 1, 3} } \cup
  { [G("alu.w", op) EXCEPT !.rd = "r0", !.rn = Source32(op), !.imm = x, !.rot = k,
                           !.hasImm = TRUE, !.s = TRUE] :
      op \in DataOps, x \in 0 .. 1, k \in 0 .. 3 } \cup
  { [G("alu.w", op) EXCEPT !.rd = "r0", !.rn = Source32(op), !.rotated = TRUE, !.rot = k,
                           !.hasImm = TRUE, !.s = TRUE] :
      op \in DataOps, k \in 1 .. 3 } \cup
  { [G("alu.w", op) EXCEPT !.rn = "r0", !.rm = "r1", !.shift = "lsl", !.amt = n, !.s = TRUE] :
      op \in Compares, n \in 0 .. 1 } \cup
  { G("alu.w", "pkh") }

Wides ==
  { [G("wide", op) EXCEPT !.rd = "r1", !.imm = 3, !.hasImm = TRUE] : op \in {"mov", "movt"} } \cup
  { [G("wide", op) EXCEPT !.rd = "r1", !.rn = n, !.imm = 5, !.hasImm = TRUE] :
      op \in {"add", "sub"}, n \in {"r0", "pc"} } \cup
  { [G("wide", op) EXCEPT !.rd = "r0", !.rn = "r1", !.lsb = l, !.width = w] :
      op \in {"sbfx", "ubfx"}, l \in 0 .. 3, w \in 1 .. 4 } \cup
  { [G("wide", op) EXCEPT !.rd = "r0", !.rn = IF op = "bfi" THEN "r1" ELSE NoReg,
                          !.lsb = l, !.width = w] :
      op \in {"bfi", "bfc"}, l \in 0 .. 1, w \in 1 .. 3 } \cup
  { G("wide", "ssat") }

Mems32 ==
  { [G("mem.w", op) EXCEPT !.rd = "r0", !.rn = "r1", !.imm = n, !.hasImm = TRUE, !.add = up,
                           !.index = x] :
      op \in {"ldr", "str", "ldrsb"}, n \in {0, 3}, up \in BOOLEAN, x \in {"offset", "pre", "post"} } \cup
  { [G("mem.w", op) EXCEPT !.rd = "r1", !.rn = "sp", !.rm = "r0", !.amt = n] :
      op \in {"ldrsh", "strh"}, n \in 0 .. 1 } \cup
  { [G("mem.w", op) EXCEPT !.rd = "r0", !.rn = "pc", !.imm = 1, !.hasImm = TRUE, !.add = up] :
      op \in Loads, up \in BOOLEAN } \cup
  { [G("dual", op) EXCEPT !.rd = d, !.rt2 = "sp", !.rn = "r1", !.imm = 1, !.add = up, !.index = x] :
      op \in {"ldrd", "strd"}, d \in {"r0", "r1"}, up \in BOOLEAN, x \in {"offset", "pre", "post"} } \cup
  { [G("multiple", op) EXCEPT !.rn = n, !.list = << "r0", "r1" >>, !.add = up, !.index = x] :
      op \in {"ldm", "stm"}, n \in {"sp", "r1"}, up \in BOOLEAN, x \in {"offset", "pre"} }

Others ==
  { [G("other.w", op) EXCEPT !.rd = "r0", !.rm = "r1", !.rot = k] :
      op \in {"sxth", "uxth", "sxtb", "uxtb", "sxtb16", "uxtb16"}, k \in {0, 1} } \cup
  { [G("other.w", op) EXCEPT !.rd = "r0", !.rn = n, !.rm = "r1", !.s = (op \notin {"mul", "mla"})] :
      op \in Shifts \cup {"mul", "mla"}, n \in {"r0", "r1"} }

MCInsns ==
  ShiftImms \cup AddSub \cup Imm8s \cup RegForms \cup High \cup SpPc \cup Extends16 \cup Mems16
  \cup AluWide \cup Wides \cup Mems32 \cup Others

MCStarts ==
  { [r0 |-> x, r1 |-> y, sp |-> 8] : x \in {0, 3, 7, 8, 12, 15}, y \in {0, 1, 3, 8, 15} }

MCImage == [a \in Word |-> IF a \in {1, 3, 4, 8, 9, 11, 15} THEN 1 ELSE 0]
================================================================================
