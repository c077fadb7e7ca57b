--------------------------------- MODULE Arith ---------------------------------
(***************************************************************************)
(* include/vitarecomp/recomp_rt.h: the instructions whose C translation is *)
(* not obvious.  A register is a number of Width bits, a byte a quarter of *)
(* one; the flags are a record of booleans.                                *)
(***************************************************************************)
EXTENDS Integers

CONSTANT Width   (* 32 *)

Mod  == 2 ^ Width
Half == 2 ^ (Width - 1)
Word == 0 .. Mod - 1

(* The lowest bit of byte k.                                               *)
ByteAt(k) == 2 ^ (k * (Width \div 4))
ByteMod   == ByteAt(1)
ShortMod  == ByteAt(2)

(* A byte is a quarter of a word. *)
ASSUME WidthAssumption == Width \in Nat \ {0} /\ Width % 4 = 0

Wrap(x) == x % Mod
Sign(x) == IF x >= Half THEN 1 ELSE 0
Carry(b) == IF b THEN 1 ELSE 0

--------------------------------------------------------------------------------
(* C's bitwise operators. *)

BitAt(x, i) == (x \div 2 ^ i) % 2
FromBits(b) ==
  LET v[i \in 0 .. Width] == IF i = 0 THEN 0 ELSE v[i - 1] + b[i - 1] * 2 ^ (i - 1)
  IN  v[Width]

AndTable ==
  [p \in Word \X Word |->
     FromBits([i \in 0 .. Width - 1 |-> BitAt(p[1], i) * BitAt(p[2], i)])]

And(x, y) == AndTable[<< x, y >>]
Or(x, y)  == x + y - And(x, y)
Xor(x, y) == x + y - 2 * And(x, y)
Not(x)    == Mod - 1 - x

--------------------------------------------------------------------------------
(* Shifts; the count may be anything an instruction can ask for. *)

vita_lsl(v, n) == IF n >= Width THEN 0 ELSE Wrap(v * 2 ^ n)
vita_lsr(v, n) == IF n >= Width THEN 0 ELSE v \div 2 ^ n

vita_asr(v, n) ==
  CASE n >= Width -> IF Sign(v) = 1 THEN Mod - 1 ELSE 0
    [] n = 0      -> v
    [] OTHER      -> Or(v \div 2 ^ n, IF Sign(v) = 1 THEN Not((Mod - 1) \div 2 ^ n) ELSE 0)

vita_ror(v, n) ==
  LET k == n % Width
  IN  IF k = 0 THEN v ELSE Or(v \div 2 ^ k, Wrap(v * 2 ^ (Width - k)))

--------------------------------------------------------------------------------
(* Flags.  f is what they were. *)

vita_flags_nz(f, res) == [f EXCEPT !.n = (Sign(res) = 1), !.z = (res = 0)]

Flags(res, c, v) == [n |-> Sign(res) = 1, z |-> res = 0, c |-> c, v |-> v]

(* (x ^ y) >> 31 *)
SignsDiffer(x, y) == Sign(x) # Sign(y)

vita_flags_add(a, b, res) ==
  Flags(res, res < a, SignsDiffer(a, res) /\ SignsDiffer(b, res))

(* Mutant of vita_flags_adc: the carry in does not change the test. *)
AdcCarryPlain(a, b, carry, res) ==
  Flags(res, res < a, SignsDiffer(a, res) /\ SignsDiffer(b, res))

vita_flags_adc(a, b, carry, res) ==
  Flags(res, IF carry = 1 THEN res <= a ELSE res < a,
        SignsDiffer(a, res) /\ SignsDiffer(b, res))

vita_flags_sub(a, b, res) ==
  Flags(res, a >= b, SignsDiffer(a, b) /\ SignsDiffer(a, res))

(* Mutant of vita_cond: "higher" forgets that equal is not. *)
CondHigher(cc, f) ==
  CASE cc = 0  -> f.z    [] cc = 1  -> ~f.z
    [] cc = 2  -> f.c    [] cc = 3  -> ~f.c
    [] cc = 4  -> f.n    [] cc = 5  -> ~f.n
    [] cc = 6  -> f.v    [] cc = 7  -> ~f.v
    [] cc = 8  -> f.c    [] cc = 9  -> ~f.c \/ f.z
    [] cc = 10 -> f.n = f.v              [] cc = 11 -> f.n # f.v
    [] cc = 12 -> ~f.z /\ f.n = f.v      [] cc = 13 -> f.z \/ f.n # f.v
    [] OTHER -> TRUE

vita_cond(cc, f) ==
  CASE cc = 0  -> f.z    [] cc = 1  -> ~f.z
    [] cc = 2  -> f.c    [] cc = 3  -> ~f.c
    [] cc = 4  -> f.n    [] cc = 5  -> ~f.n
    [] cc = 6  -> f.v    [] cc = 7  -> ~f.v
    [] cc = 8  -> f.c /\ ~f.z            [] cc = 9  -> ~f.c \/ f.z
    [] cc = 10 -> f.n = f.v              [] cc = 11 -> f.n # f.v
    [] cc = 12 -> ~f.z /\ f.n = f.v      [] cc = 13 -> f.z \/ f.n # f.v
    [] OTHER -> TRUE

--------------------------------------------------------------------------------
(* Extension and bit fields. *)

(* The cast through int8_t or int16_t. *)
Extended(v, m) == IF v % m >= m \div 2 THEN (v % m) + Mod - m ELSE v % m

vita_sxtb(v) == Extended(v, ByteMod)
vita_sxth(v) == Extended(v, ShortMod)
vita_uxtb(v) == v % ByteMod
vita_uxth(v) == v % ShortMod

vita_rev(v) ==
  LET byte(k) == (v \div ByteAt(k)) % ByteMod
  IN  byte(0) * ByteAt(3) + byte(1) * ByteAt(2) + byte(2) * ByteAt(1) + byte(3)

vita_bf_mask(width) == IF width >= Width THEN Mod - 1 ELSE 2 ^ width - 1

vita_ubfx(v, lsb, width) == And(vita_lsr(v, lsb), vita_bf_mask(width))

vita_sbfx(v, lsb, width) ==
  LET f == vita_ubfx(v, lsb, width)
  IN  IF width \in 1 .. Width - 1 /\ BitAt(f, width - 1) = 1
        THEN Or(f, Not(vita_bf_mask(width))) ELSE f

vita_bfi(dst, src, lsb, width) ==
  LET m == vita_lsl(vita_bf_mask(width), lsb)
  IN  Or(And(dst, Not(m)), And(vita_lsl(src, lsb), m))
================================================================================
