------------------------------- MODULE MCEmission -------------------------------
(* Emission of the function at 2 in a segment of six halfwords, with      *)
(* another function at 1 before it and an import stub at 9, for every      *)
(* choice of instructions from a small set; limits low enough to be met.   *)
EXTENDS Emission

Ins(k, o, w, t, cond, fx, n) ==
  [cls |-> k, op |-> o, width |-> w, hasTarget |-> t # 0, target |-> t,
   conditional |-> cond, effect |-> fx, sum |-> FALSE, covers |-> n]

Plain  == Ins("other", "some", 1, 0, FALSE, TRUE, 0)
Wide   == Ins("other", "some", 2, 0, FALSE, TRUE, 0)
Simd   == Ins("other", "none", 1, 0, FALSE, TRUE, 0)
It     == Ins("other", "it", 1, 0, FALSE, FALSE, 1)
Pop    == Ins("return", "pop", 1, 0, FALSE, TRUE, 0)
PopW   == Ins("return", "none", 2, 0, FALSE, TRUE, 0)
BxLr   == Ins("return", "bx", 1, 0, FALSE, FALSE, 0)
Bx     == Ins("indirect", "bx", 1, 0, FALSE, FALSE, 0)
AddPc  == [Bx EXCEPT !.sum = TRUE]
B(t)   == Ins("branch", "b", 1, t, FALSE, FALSE, 0)
Bcc(t) == Ins("branch", "b", 1, t, TRUE, FALSE, 0)
Cbz(t) == Ins("branch", "cbz", 1, t, TRUE, FALSE, 0)
Bl(t)  == Ins("call", "none", 2, t, FALSE, TRUE, 0)
None   == Ins("other", "none", 0, 0, FALSE, FALSE, 0)

(* ARM: a condition on every instruction, no operands. *)
ABcc(t)  == Ins("branch", "none", 2, t, TRUE, FALSE, 0)
ABlcc(t) == Ins("call", "none", 2, t, TRUE, TRUE, 0)
ABxLr    == Ins("return", "none", 2, 0, FALSE, FALSE, 0)

Thumb(a) ==
  CASE a = 2 -> { Plain, Wide, It, Bcc(4), Cbz(5), Bl(1), B(3) }
    [] a = 3 -> { Plain, Simd, Bcc(5), Cbz(1), B(2), Pop, Bx, Wide }
    [] a = 4 -> { Plain, Bl(9), Bcc(9), Bcc(3), B(1), PopW, BxLr, AddPc, Wide }
    [] a = 5 -> { Plain, Pop, B(2), B(7), Bcc(3), Wide }
    [] OTHER -> { Plain, Pop, B(4), Bcc(3), None }

ThumbFunctions ==
  { [code |-> << Plain, i2, i3, i4, i5, i6 >>, addr |-> 2, end |-> e, funcs |-> {1, 2}, stubs |-> {9}] :
      i2 \in Thumb(2), i3 \in Thumb(3), i4 \in Thumb(4), i5 \in Thumb(5), i6 \in Thumb(6),
      e \in {0, 5, 7} }

(* Every second halfword of an ARM function is met only by overlap. *)
ArmFunctions ==
  { [code |-> << i1, None, i3, None, ABxLr, None >>, addr |-> 1, end |-> e, funcs |-> {1, 5}, stubs |-> {9}] :
      i1 \in { Wide, ABcc(5), ABlcc(5), ABcc(9) }, i3 \in { ABlcc(9), ABlcc(5), ABcc(1), ABxLr },
      e \in {0, 7} }

MCPrograms == ThumbFunctions \cup ArmFunctions

(* movs; pop.w {r4, pc} *)
WidePop ==
  { [code |-> << Plain, PopW, None, Plain, Plain, Pop >>, addr |-> 1, end |-> 4,
     funcs |-> {1}, stubs |-> {}] }

(* cmp; it eq; moveq; pop {pc} *)
ItBlock ==
  { [code |-> << Plain, It, Plain, Pop, Plain, Pop >>, addr |-> 1, end |-> 5,
     funcs |-> {1}, stubs |-> {}] }
================================================================================
