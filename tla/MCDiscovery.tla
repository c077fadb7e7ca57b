------------------------------ MODULE MCDiscovery ------------------------------
(* Discovery on a segment of four halfwords, addresses 1 to 4, with every  *)
(* choice of Thumb code from a small instruction set, in two modules: one  *)
(* with a start function, a stub and an ARM export whose code calls on,    *)
(* and one without, whose ARM export returns conditionally and whose       *)
(* pointers have no prologue.                                              *)
EXTENDS Discovery

Ins(c, w, t, cond, x) ==
  [cls |-> c, width |-> w, hasTarget |-> t # 0, target |-> t,
   conditional |-> cond, switches |-> x]

Nop    == Ins("plain", 1, 0, FALSE, FALSE)
Wide   == Ins("plain", 2, 0, FALSE, FALSE)
Bad    == Ins("unknown", 1, 0, FALSE, FALSE)
Ret    == Ins("return", 1, 0, FALSE, FALSE)
B(t)   == Ins("branch", 1, t, FALSE, FALSE)
Bcc(t) == Ins("branch", 1, t, TRUE, FALSE)
Bl(t)  == Ins("call", 2, t, FALSE, FALSE)
Blx(t) == Ins("call", 2, t, FALSE, TRUE)

Thumb == { Nop, Wide, Bad, Ret, B(3), Bcc(1), Bl(2), Bl(9), Blx(3) }

(* A wide instruction in the last halfword runs out of input. *)
ThumbAt(a) == { i \in Thumb : i.width = 1 \/ a < 4 } \cup
              (IF a = 4 THEN { Ins("plain", 0, 0, FALSE, FALSE) } ELSE {})

ArmAt(i) == [a \in 1 .. 4 |-> IF a < 4 THEN i ELSE Ins("plain", 0, 0, FALSE, FALSE)]

Codes(arm) ==
  { [m \in Mode |-> IF m = "T32" THEN << c1, c2, c3, c4 >> ELSE ArmAt(arm)] :
      c1 \in ThumbAt(1), c2 \in ThumbAt(2), c3 \in ThumbAt(3), c4 \in ThumbAt(4) }

WithStub ==
  { [code |-> c, entry |-> 1, exports |-> << [addr |-> 2, mode |-> "A32"] >>,
     stubs |-> {3}, words |-> << 4, 0, 1, 2, 4 >>, prologue |-> {4}] :
      c \in Codes(Ins("call", 2, 4, FALSE, FALSE)) }

WithoutStart ==
  { [code |-> c, entry |-> Nowhere,
     exports |-> << [addr |-> 9, mode |-> "T32"], [addr |-> 1, mode |-> "A32"] >>,
     stubs |-> {}, words |-> << 2, 4, 3, 0, 3 >>, prologue |-> {}] :
      c \in Codes(Ins("return", 2, 0, TRUE, FALSE)) }

MCPrograms == WithStub \cup WithoutStart

--------------------------------------------------------------------------------
(* A module a toolchain could produce, for a comment the code does not     *)
(* live up to.                                                             *)

Code(arm, thumb) == [m \in Mode |-> IF m = "T32" THEN thumb ELSE arm]

(* Static constructors at 3 and 5, known only from a table; the start      *)
(* function ends in a tail call to the first.                              *)
TailCallTable ==
  { [code |-> Code([a \in 1 .. 6 |-> Ins("return", 2, 0, FALSE, FALSE)],
                   << Nop, B(3), Nop, Ret, Nop, Ret >>),
     entry |-> 1, exports |-> <<>>, stubs |-> {}, words |-> << 3, 5 >>, prologue |-> {}] }
================================================================================
