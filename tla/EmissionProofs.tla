----------------------------- MODULE EmissionProofs -----------------------------
(***************************************************************************)
(* The emitter, for every program that decodes, every limit and every      *)
(* outcome of the conditions: a goto has its label, a walk no limit cut    *)
(* short is closed under control flow, and the C printed leaves the guest  *)
(* in silence only in the ways FlowKept lists.                             *)
(***************************************************************************)
EXTENDS Emission, TLAPS, SequenceTheorems, WellFoundedInduction

USE EmissionAssumption

(* collect goes nowhere below the entry. *)
AboveInv ==
  /\ \A b \in body : prog.addr <= b
  /\ \A k \in 1 .. Len(stack) : prog.addr <= stack[k]
  /\ cur # Nowhere => prog.addr <= cur

(* What visit_mark remembers is collected, or is no instruction. *)
SeenInv == \A v \in visited : Decodes(v) => v \in body

(* An address the walk owes its instruction: collected, or still to come. *)
Pending(t) == t = cur \/ \E k \in 1 .. Len(stack) : t = stack[k]
Owed(t) == Decodes(t) /\ t < Bound => t \in body \/ Pending(t)

ClosedInv ==
  ~cut => /\ Owed(prog.addr)
          /\ \A a \in body : \A t \in Followed(prog.code[a], a) : Owed(t)

(* Once collect is over nothing is pending unless a limit stopped it, and  *)
(* every label has its block.                                              *)
EndInv ==
  phase = "run" => cur = Nowhere /\ (~cut => stack = <<>>) /\ labels \subseteq body

EmitInv ==
  TypeOK /\ AboveInv /\ SeenInv /\ ClosedInv /\ EndInv /\ FlowKept

--------------------------------------------------------------------------------
(* What the types say of the program. *)
LEMMA ProgType ==
  ASSUME TypeOK
  PROVE  /\ prog.addr \in Nat /\ prog.end \in Nat /\ Bound \in Nat
         /\ prog.addr \in Text /\ Text \subseteq Nat \ {0}
         /\ \A a \in Text : prog.code[a] \in Insn
<1>1. prog \in Program
  BY DEF TypeOK
<1>2. Text \subseteq Nat \ {0}
  BY DEF Text
<1>3. prog.addr \in Text /\ prog.end \in Nat /\ prog.code \in [Text -> Insn]
  BY <1>1 DEF Program
<1>4. Bound \in Nat
  <2>1. ShortExtent \in Nat /\ Generous \in Nat
    BY EmissionAssumption
  <2>2. prog.addr \in Nat
    BY <1>2, <1>3
  <2>3. QED
    BY <1>3, <2>1, <2>2 DEF Bound
<1>5. QED
  BY <1>2, <1>3, <1>4

LEMMA InsnType ==
  ASSUME NEW i \in Insn
  PROVE  /\ i.width \in 0 .. 2 /\ i.target \in Nat /\ i.covers \in Nat
         /\ i.hasTarget \in BOOLEAN /\ i.conditional \in BOOLEAN
         /\ i.effect \in BOOLEAN /\ i.sum \in BOOLEAN
         /\ i.op \in {"b", "cbz"} => i.cls = "branch" /\ i.hasTarget
         /\ i.cls = "branch" => i.op \in {"none", "b", "cbz"} /\ ~i.effect
         /\ i.op = "bx" => i.cls \in {"return", "indirect"} /\ ~i.effect
         /\ i.cls = "indirect" => i.op \in {"none", "bx"}
         /\ i.cls = "return" => i.op \in {"none", "bx", "pop"}
  BY DEF Insn, Fields

LEMMA LocationType ==
  /\ \A a \in Nat \cup {Nowhere} : At(a) \in Location /\ Gone(a) \in Location
  /\ Returned \in Location /\ Computed \in Location
  /\ Summed \in Location /\ Trapped \in Location
  BY DEF Location, At, Gone, Returned, Computed, Summed, Trapped, Nowhere

(* What is printed next exists. *)
LEMMA AfterType ==
  ASSUME body \subseteq Nat, NEW a \in Int
  PROVE  After(a) \in Location
<1> DEFINE later == {b \in body : b > a}
<1>1. CASE \E b \in body : b > a
  <2>1. later \subseteq Nat /\ later # {}
    BY <1>1
  <2>2. PICK x \in later : \A y \in later : << y, x >> \notin OpToRel(<, Nat)
    BY <2>1, NatLessThanWellFounded, WFMin
  <2>3. \A y \in later : ~(y < x)
    BY <2>1, <2>2 DEF OpToRel
  <2>4. \A d \in body : d > a => x <= d
    <3>1. SUFFICES ASSUME NEW d \in body, d > a PROVE x <= d
      OBVIOUS
    <3>2. d \in later /\ d \in Nat /\ x \in Nat
      BY <2>1, <3>1
    <3>3. QED
      BY <2>3, <3>2
  <2>5. \E b \in body : b > a /\ \A d \in body : d > a => b <= d
    BY <2>4
  <2>6. (CHOOSE b \in body : b > a /\ \A d \in body : d > a => b <= d) \in Nat
    BY <2>5
  <2>7. QED
    BY <1>1, <2>6, LocationType DEF After
<1>2. CASE ~ \E b \in body : b > a
  BY <1>2, LocationType DEF After
<1>3. QED
  BY <1>1, <1>2

(* The C starts at the entry, when that was collected. *)
LEMMA StartsAtEntry ==
  ASSUME TypeOK, AboveInv, prog.addr \in body
  PROVE  After(Nowhere) = At(prog.addr)
<1>1. body \subseteq Nat /\ prog.addr \in Nat
  BY ProgType DEF TypeOK
<1>2. prog.addr > Nowhere /\ \A d \in body : prog.addr <= d
  BY <1>1 DEF AboveInv, Nowhere
<1> DEFINE least(b) == b > Nowhere /\ \A d \in body : d > Nowhere => b <= d
<1>3. least(prog.addr)
  BY <1>1, <1>2
<1>4. \A b \in body : least(b) => b = prog.addr
  BY <1>1, <1>2
<1>5. (CHOOSE b \in body : least(b)) = prog.addr
  BY <1>3, <1>4
<1>6. QED
  BY <1>2, <1>5 DEF After

--------------------------------------------------------------------------------
LEMMA InitEmit == Init => EmitInv
<1> SUFFICES ASSUME Init PROVE EmitInv
  OBVIOUS
<1>1. prog \in Program
  BY DEF Init
<1>2. prog.addr \in Text /\ Text \subseteq Nat
  BY <1>1 DEF Program, Text
<1>3. stack = << prog.addr >> /\ stack \in Seq(Nat) /\ Len(stack) = 1 /\ stack[1] = prog.addr
  <2>1. prog.addr \in Nat
    BY <1>2
  <2>2. stack = << prog.addr >>
    BY DEF Init
  <2>3. QED
    BY <2>1, <2>2
<1>4. TypeOK
  <2>1. Len(stack) <= StackSize
    BY <1>3, EmissionAssumption
  <2>2. c \in Location /\ g \in Location
    BY LocationType DEF Init
  <2>3. QED
    BY <1>1, <1>3, <2>1, <2>2 DEF Init, TypeOK
<1>5. AboveInv
  BY <1>2, <1>3 DEF Init, AboveInv
<1>6. SeenInv /\ EndInv /\ FlowKept
  BY DEF Init, SeenInv, EndInv, FlowKept
<1>7. ClosedInv
  BY <1>3 DEF Init, ClosedInv, Owed, Pending
<1>8. QED
  BY <1>4, <1>5, <1>6, <1>7 DEF EmitInv

(* Taking the next block from the stack. *)
LEMMA PopFacts ==
  ASSUME TypeOK, NextBlock
  PROVE  /\ Len(stack) \in Nat \ {0} /\ stack' \in Seq(Nat)
         /\ Len(stack') = Len(stack) - 1
         /\ \A k \in 1 .. Len(stack) - 1 : stack'[k] = stack[k]
         /\ cur' = stack[Len(stack)] /\ cur' \in Nat
<1> DEFINE n == Len(stack) - 1
<1>1. stack \in Seq(Nat) /\ stack # <<>>
  BY DEF TypeOK, NextBlock
<1>2. Len(stack) \in Nat \ {0} /\ \A k \in 1 .. Len(stack) : stack[k] \in Nat
  BY <1>1, EmptySeq, LenProperties
<1>3. stack' = SubSeq(stack, 1, n) /\ cur' = stack[Len(stack)]
  BY DEF NextBlock
<1>4. n \in Nat /\ \A k \in 1 .. n : stack[k] \in Nat
  BY <1>2
<1>5. /\ SubSeq(stack, 1, n) \in Seq(Nat)
      /\ Len(SubSeq(stack, 1, n)) = IF 1 <= n THEN n - 1 + 1 ELSE 0
      /\ \A k \in 1 .. n - 1 + 1 : SubSeq(stack, 1, n)[k] = stack[1 + k - 1]
  <2> HIDE DEF n
  <2>1. 1 \in Int /\ n \in Int
    BY <1>4
  <2>2. QED
    BY <1>4, <2>1, SubSeqProperties
<1>6. \A k \in 1 .. n : stack'[k] = stack[k]
  <2> SUFFICES ASSUME NEW k \in 1 .. n PROVE stack'[k] = stack[k]
    OBVIOUS
  <2>1. k \in 1 .. n - 1 + 1 /\ 1 + k - 1 = k
    BY <1>4
  <2>2. QED
    BY <1>3, <1>5, <2>1
<1>7. Len(stack') = n
  <2>1. Len(stack') = IF 1 <= n THEN n - 1 + 1 ELSE 0
    BY <1>3, <1>5
  <2>2. ASSUME NEW m \in Nat PROVE (IF 1 <= m THEN m - 1 + 1 ELSE 0) = m
    OBVIOUS
  <2>3. QED
    BY <1>4, <2>1, <2>2
<1>8. QED
  BY <1>2, <1>3, <1>5, <1>6, <1>7

LEMMA NextBlockStep == EmitInv /\ NextBlock => EmitInv'
<1> SUFFICES ASSUME EmitInv, NextBlock PROVE EmitInv'
  OBVIOUS
<1>0. TypeOK /\ AboveInv /\ SeenInv /\ ClosedInv
  BY DEF EmitInv
<1>1. /\ UNCHANGED << prog, phase, visited, body, labels, cut, c, g, it, last, governed, faithful >>
      /\ phase = "collect" /\ cur = Nowhere
  BY DEF NextBlock, runVars
<1>2. TypeOK'
  BY <1>0, <1>1, PopFacts DEF TypeOK
<1>3. AboveInv'
  BY <1>0, <1>1, PopFacts DEF AboveInv
<1>4. SeenInv' /\ EndInv' /\ FlowKept'
  BY <1>0, <1>1 DEF SeenInv, Decodes, EndInv, FlowKept
<1>5. Bound' = Bound /\ \A a \in body : Followed(prog.code[a], a)' = Followed(prog.code[a], a)
  BY <1>1 DEF Bound, Followed
<1>6. ASSUME NEW t, Owed(t) PROVE Owed(t)'
  <2>1. SUFFICES ASSUME Decodes(t), t < Bound, t \notin body PROVE Pending(t)'
    BY <1>1, <1>5 DEF Owed, Decodes
  <2>2. t # cur
    BY <1>0, <1>1, <2>1, ProgType DEF Decodes, Nowhere
  <2>3. PICK k \in 1 .. Len(stack) : t = stack[k]
    BY <1>6, <2>1, <2>2 DEF Owed, Pending
  <2>4. CASE k = Len(stack)
    BY <1>0, <2>3, <2>4, PopFacts DEF Pending
  <2>5. CASE k # Len(stack)
    <3>1. k \in 1 .. Len(stack) - 1 /\ k \in 1 .. Len(stack')
      BY <1>0, <2>3, <2>5, PopFacts
    <3>2. stack'[k] = stack[k]
      BY <1>0, <3>1, PopFacts
    <3>3. QED
      BY <2>3, <3>1, <3>2 DEF Pending
  <2>6. QED
    BY <2>4, <2>5
<1>7. ClosedInv'
  BY <1>0, <1>1, <1>5, <1>6 DEF ClosedInv
<1>8. QED
  BY <1>2, <1>3, <1>4, <1>7 DEF EmitInv

LEMMA StopStep == EmitInv /\ Stop => EmitInv'
<1> SUFFICES ASSUME EmitInv, Stop PROVE EmitInv'
  OBVIOUS
<1>0. TypeOK /\ AboveInv /\ SeenInv /\ ClosedInv
  BY DEF EmitInv
<1>1. /\ UNCHANGED << prog, phase, stack, body, labels, c, g, it, last, governed, faithful >>
      /\ phase = "collect" /\ cur # Nowhere /\ ~Fresh /\ cur' = Nowhere
      /\ visited' = (IF Within /\ ~Full THEN visited \cup {cur} ELSE visited)
      /\ cut' = (cut \/ (Within /\ cur \notin visited /\ Full))
  BY DEF Stop, runVars
<1>2. TypeOK'
  <2>1. visited' \subseteq Text /\ body' \subseteq visited'
    BY <1>0, <1>1 DEF TypeOK, Within
  <2>2. cut' \in BOOLEAN
    BY <1>0, <1>1 DEF TypeOK
  <2>3. QED
    BY <1>0, <1>1, <2>1, <2>2 DEF TypeOK
<1>3. AboveInv'
  BY <1>0, <1>1 DEF AboveInv
<1>4. EndInv' /\ FlowKept'
  BY <1>1 DEF EndInv, FlowKept
<1>5. Within /\ ~Full /\ cur \notin visited => ~Decodes(cur)
  BY <1>1 DEF Fresh, Decodes, Here
<1>6. SeenInv'
  <2>1. \A v \in visited' : v \in visited \/ (v = cur /\ ~Decodes(cur))
    BY <1>1, <1>5
  <2>2. QED
    BY <1>0, <1>1, <2>1 DEF SeenInv, Decodes
<1>7. Bound' = Bound /\ \A a \in body : Followed(prog.code[a], a)' = Followed(prog.code[a], a)
  BY <1>1 DEF Bound, Followed
<1>8. ASSUME ~cut', NEW t, Owed(t) PROVE Owed(t)'
  <2>1. SUFFICES ASSUME Decodes(t), t < Bound, t \notin body PROVE Pending(t)'
    BY <1>1, <1>7 DEF Owed, Decodes
  <2>2. t # cur
    <3>1. SUFFICES ASSUME t = cur PROVE FALSE
      OBVIOUS
    <3>2. Within /\ cur \notin visited
      BY <1>0, <2>1, <3>1 DEF SeenInv, Within, Decodes
    <3>3. ~Full
      BY <1>1, <1>8, <3>2
    <3>4. QED
      BY <1>5, <2>1, <3>1, <3>2, <3>3
  <2>3. QED
    BY <1>1, <1>8, <2>1, <2>2 DEF Owed, Pending
<1>9. ClosedInv'
  BY <1>0, <1>1, <1>7, <1>8 DEF ClosedInv
<1>10. QED
  BY <1>2, <1>3, <1>4, <1>6, <1>9 DEF EmitInv

--------------------------------------------------------------------------------
(* What collecting an instruction has in common. *)
LEMMA TakeFacts ==
  ASSUME TypeOK, Take
  PROVE  /\ cur \in Text /\ cur \in Nat /\ cur < Bound /\ Here \in Insn /\ Decodes(cur)
         /\ visited' = visited \cup {cur} /\ body' = body \cup {cur}
         /\ UNCHANGED << prog, phase, c, g, it, last, governed, faithful >>
         /\ phase = "collect" /\ cur # Nowhere
         /\ Bound' = Bound
         /\ \A i, a : Followed(i, a)' = Followed(i, a)
<1>1. Fresh /\ prog' = prog
  BY DEF Take
<1>2. cur \in Text /\ cur < Bound /\ Decodes(cur) /\ Here = prog.code[cur]
  BY <1>1 DEF Fresh, Within, Decodes, Here
<1>3. Here \in Insn /\ cur \in Nat
  BY <1>2, ProgType
<1>4. Bound' = Bound /\ \A i, a : Followed(i, a)' = Followed(i, a)
  BY <1>1 DEF Bound, Followed
<1>5. QED
  BY <1>2, <1>3, <1>4 DEF Take, runVars

LEMMA TakeTyped ==
  ASSUME EmitInv, Take, ClosedInv',
         stack' \in Seq(Nat), Len(stack') <= StackSize,
         \A k \in 1 .. Len(stack') : prog.addr <= stack'[k],
         cur' \in Nat \cup {Nowhere}, cur' # Nowhere => prog.addr <= cur',
         labels' \subseteq Nat, cut' \in BOOLEAN
  PROVE  EmitInv'
<1>1. TypeOK /\ AboveInv /\ SeenInv
  BY DEF EmitInv
<1>2. TypeOK'
  <2>1. visited' \subseteq Text /\ body' \subseteq visited'
    BY <1>1, TakeFacts DEF TypeOK
  <2>2. QED
    BY <1>1, <2>1, TakeFacts DEF TypeOK
<1>3. AboveInv'
  BY <1>1, TakeFacts DEF AboveInv
<1>4. SeenInv'
  BY <1>1, TakeFacts DEF SeenInv, Decodes
<1>5. EndInv' /\ FlowKept'
  BY <1>1, TakeFacts DEF EndInv, FlowKept
<1>6. QED
  BY <1>2, <1>3, <1>4, <1>5 DEF EmitInv

(* What was owed before an instruction is collected is owed after it, and  *)
(* what the instruction leads to is pending: the walk stays closed.        *)
LEMMA TakeClosed ==
  ASSUME EmitInv, Take,
         ~cut' => /\ ~cut
                  /\ \A k \in 1 .. Len(stack) :
                       k \in 1 .. Len(stack') /\ stack'[k] = stack[k]
                  /\ \A t \in Followed(Here, cur) : Pending(t)'
  PROVE  ClosedInv'
<1>1. TypeOK /\ ClosedInv
  BY DEF EmitInv
<1>2. SUFFICES ASSUME ~cut' PROVE Owed(prog.addr)' /\ \A a \in body' : \A t \in Followed(prog.code[a], a) : Owed(t)'
  BY <1>1, TakeFacts DEF ClosedInv
<1>3. ASSUME NEW t, Owed(t) PROVE Owed(t)'
  <2>1. SUFFICES ASSUME Decodes(t), t < Bound, t \notin body, t # cur PROVE Pending(t)'
    BY <1>1, TakeFacts DEF Owed, Decodes
  <2>2. PICK k \in 1 .. Len(stack) : t = stack[k]
    BY <1>3, <2>1 DEF Owed, Pending
  <2>3. k \in 1 .. Len(stack') /\ stack'[k] = t
    BY <1>2, <2>2
  <2>4. QED
    BY <2>3 DEF Pending
<1>4. Owed(prog.addr)'
  BY <1>1, <1>2, <1>3, TakeFacts DEF ClosedInv
<1>5. ASSUME NEW a \in body', NEW t \in Followed(prog.code[a], a) PROVE Owed(t)'
  <2>1. CASE a \in body
    BY <1>1, <1>2, <1>3, <2>1 DEF ClosedInv
  <2>2. CASE a = cur
    BY <1>2, <1>5, <2>2 DEF Owed, Here
  <2>3. QED
    BY <1>1, <2>1, <2>2, TakeFacts
<1>6. QED
  BY <1>4, <1>5

LEMMA TakeReturnStep == EmitInv /\ TakeReturn => EmitInv'
<1> SUFFICES ASSUME EmitInv, TakeReturn PROVE EmitInv'
  OBVIOUS
<1>1. TypeOK /\ AboveInv
  BY DEF EmitInv
<1>2. Take /\ Here.cls = "return" /\ cur' = Nowhere /\ UNCHANGED << stack, labels, cut >>
  BY DEF TakeReturn
<1>3. Followed(Here, cur) = {}
  BY <1>2 DEF Followed
<1>4. ClosedInv'
  BY <1>2, <1>3, TakeClosed
<1>5. QED
  BY <1>1, <1>2, <1>4, TakeTyped DEF TypeOK, AboveInv

LEMMA TakeTailStep == EmitInv /\ TakeTail => EmitInv'
<1> SUFFICES ASSUME EmitInv, TakeTail PROVE EmitInv'
  OBVIOUS
<1>1. TypeOK /\ AboveInv
  BY DEF EmitInv
<1>2. /\ Take /\ Here.cls = "branch" /\ ~Local /\ ~Here.conditional
      /\ cur' = Nowhere /\ UNCHANGED << stack, labels, cut >>
  BY DEF TakeTail, Jumps
<1>3. Followed(Here, cur) = {}
  BY <1>2 DEF Followed, Local, Jumps, Inside
<1>4. ClosedInv'
  BY <1>2, <1>3, TakeClosed
<1>5. QED
  BY <1>1, <1>2, <1>4, TakeTyped DEF TypeOK, AboveInv

LEMMA TakeOnStep == EmitInv /\ TakeOn => EmitInv'
<1> SUFFICES ASSUME EmitInv, TakeOn PROVE EmitInv'
  OBVIOUS
<1>1. TypeOK /\ AboveInv
  BY DEF EmitInv
<1>2. /\ Take /\ ~Local
      /\ cur' = cur + Here.width /\ UNCHANGED << stack, labels, cut >>
  BY DEF TakeOn
<1>3. \A t \in Followed(Here, cur) : t = cur'
  BY <1>2 DEF Followed, Local, Jumps, Inside
<1>4. ClosedInv'
  BY <1>2, <1>3, TakeClosed DEF Pending
<1>5. cur' \in Nat /\ prog.addr <= cur'
  <2>1. prog.addr \in Nat /\ prog.addr <= cur
    BY <1>1, <1>2, TakeFacts, ProgType DEF AboveInv
  <2>2. Here.width \in 0 .. 2 /\ cur \in Nat
    BY <1>1, <1>2, TakeFacts, InsnType
  <2>3. QED
    BY <1>2, <2>1, <2>2
<1>6. QED
  BY <1>1, <1>2, <1>4, <1>5, TakeTyped DEF TypeOK, AboveInv

LEMMA TakeLocalStep == EmitInv /\ TakeLocal => EmitInv'
<1> SUFFICES ASSUME EmitInv, TakeLocal PROVE EmitInv'
  OBVIOUS
<1>1. TypeOK /\ AboveInv
  BY DEF EmitInv
<1>2. /\ Take /\ Here.cls = "branch" /\ Inside(Here.target)
      /\ labels' = labels \cup {Here.target}
      /\ stack' = (IF Len(stack) < StackSize THEN Append(stack, Here.target) ELSE stack)
      /\ cut' = (cut \/ Len(stack) >= StackSize)
      /\ cur' = (IF Here.conditional THEN cur + Here.width ELSE Nowhere)
  BY DEF TakeLocal, Local, Jumps
<1>3. /\ Here.width \in 0 .. 2 /\ Here.target \in Nat /\ cur \in Nat
      /\ prog.addr \in Nat /\ prog.addr <= cur /\ prog.addr <= Here.target
      /\ Here.conditional \in BOOLEAN
  BY <1>1, <1>2, TakeFacts, InsnType, ProgType DEF AboveInv, Inside
<1>4. stack \in Seq(Nat) /\ Len(stack) \in Nat /\ StackSize \in Nat
  BY <1>1, LenProperties, EmissionAssumption DEF TypeOK
<1> DEFINE longer == Append(stack, Here.target)
<1>5. /\ longer \in Seq(Nat) /\ Len(longer) = Len(stack) + 1
      /\ \A k \in 1 .. Len(stack) : longer[k] = stack[k]
      /\ longer[Len(stack) + 1] = Here.target
  BY <1>3, <1>4, AppendProperties
<1>6. /\ \A k \in 1 .. Len(stack) : k \in 1 .. Len(stack') /\ stack'[k] = stack[k]
      /\ stack' \in Seq(Nat) /\ Len(stack') <= StackSize
      /\ \A k \in 1 .. Len(stack') : prog.addr <= stack'[k]
  <2>1. CASE Len(stack) < StackSize
    <3> HIDE DEF longer
    <3>1. stack' = longer
      BY <1>2, <2>1 DEF longer
    <3>2. \A k \in 1 .. Len(stack) : prog.addr <= stack[k]
      BY <1>1 DEF AboveInv
    <3>3. ASSUME NEW k \in 1 .. Len(stack') PROVE prog.addr <= stack'[k]
      <4>1. k \in 1 .. Len(stack) \/ k = Len(stack) + 1
        BY <1>4, <1>5, <3>1
      <4>2. QED
        BY <1>3, <1>5, <3>1, <3>2, <4>1
    <3>4. QED
      BY <1>4, <1>5, <2>1, <3>1, <3>3
  <2>2. CASE ~(Len(stack) < StackSize)
    BY <1>1, <1>2, <1>4, <2>2 DEF TypeOK, AboveInv
  <2>3. QED
    BY <2>1, <2>2
<1>7. ClosedInv'
  <2>1. ASSUME ~cut' PROVE \A t \in Followed(Here, cur) : Pending(t)'
    <3>1. Len(stack) < StackSize /\ stack' = longer
      <4>1. ~(Len(stack) >= StackSize)
        BY <1>2, <2>1
      <4>2. Len(stack) < StackSize
        BY <1>4, <4>1
      <4>3. QED
        BY <1>2, <4>2
    <3>2. Len(stack) + 1 \in 1 .. Len(stack') /\ stack'[Len(stack) + 1] = Here.target
      <4> HIDE DEF longer
      <4>1. QED
        BY <1>4, <1>5, <3>1
    <3>3. ASSUME NEW t \in Followed(Here, cur)
          PROVE  t = Here.target \/ (Here.conditional /\ t = cur + Here.width)
      BY <1>2, <3>3 DEF Followed
    <3>4. ASSUME NEW t \in Followed(Here, cur) PROVE t = cur' \/ t = stack'[Len(stack) + 1]
      BY <1>2, <3>2, <3>3
    <3>5. QED
      BY <3>2, <3>4 DEF Pending
  <2>2. ~cut' => ~cut
    BY <1>2
  <2>3. QED
    BY <1>2, <1>6, <2>1, <2>2, TakeClosed
<1>8. cur' \in Nat \cup {Nowhere} /\ (cur' # Nowhere => prog.addr <= cur')
  BY <1>2, <1>3
<1>9. labels' \subseteq Nat /\ cut' \in BOOLEAN
  BY <1>1, <1>2, <1>3 DEF TypeOK
<1>10. QED
  BY <1>2, <1>6, <1>7, <1>8, <1>9, TakeTyped

LEMMA EndCollectStep == EmitInv /\ EndCollect => EmitInv'
<1> SUFFICES ASSUME EmitInv, EndCollect PROVE EmitInv'
  OBVIOUS
<1>1. TypeOK /\ AboveInv /\ SeenInv /\ ClosedInv
  BY DEF EmitInv
<1>2. /\ cur = Nowhere /\ phase' = "run" /\ labels' = labels \cap body
      /\ cut' = (cut \/ stack # <<>>)
      /\ c' = After(Nowhere) /\ g' = At(prog.addr) /\ faithful' = (c' = g')
      /\ UNCHANGED << prog, stack, cur, visited, body, it, last, governed >>
  BY DEF EndCollect
<1>3. TypeOK'
  <2>1. body \subseteq Nat /\ prog.addr \in Nat /\ Nowhere \in Int
    BY <1>1, ProgType DEF TypeOK, Nowhere
  <2>2. c' \in Location /\ g' \in Location
    BY <1>2, <2>1, AfterType, LocationType
  <2>3. labels' \subseteq Nat /\ cut' \in BOOLEAN /\ faithful' \in BOOLEAN
    BY <1>1, <1>2 DEF TypeOK
  <2>4. QED
    BY <1>1, <1>2, <2>2, <2>3 DEF TypeOK
<1>4. AboveInv' /\ SeenInv' /\ EndInv'
  BY <1>1, <1>2 DEF AboveInv, SeenInv, Decodes, EndInv
<1>5. ClosedInv'
  <2>1. Bound' = Bound
    BY <1>2 DEF Bound
  <2>2. \A t : Owed(t)' <=> Owed(t)
    BY <1>2, <2>1 DEF Owed, Pending, Decodes
  <2>3. \A i, a : Followed(i, a)' = Followed(i, a)
    BY <1>2, <2>1 DEF Followed
  <2>4. QED
    BY <1>1, <1>2, <2>2, <2>3 DEF ClosedInv
<1>6. FlowKept'
  <2>1. prog.addr \in body => faithful'
    BY <1>1, <1>2, StartsAtEntry
  <2>2. QED
    BY <1>2, <2>1 DEF FlowKept
<1>7. QED
  BY <1>3, <1>4, <1>5, <1>6 DEF EmitInv

--------------------------------------------------------------------------------
(* The C of an instruction goes somewhere. *)
LEMMA GoesSomewhere ==
  ASSUME TypeOK, NEW a \in Text, NEW i \in Insn, NEW holds \in BOOLEAN
  PROVE  CGoes(i, a, holds) \in Location /\ GuestGoes(i, a, holds) \in Location
<1>1. /\ i.target \in Nat /\ i.width \in 0 .. 2 /\ a \in Nat /\ a + i.width \in Nat
      /\ body \subseteq Nat
  BY InsnType, ProgType DEF TypeOK
<1>2. After(a) \in Location
  BY <1>1, AfterType
<1>3. CGoes(i, a, holds) \in Location
  BY <1>1, <1>2, LocationType DEF CGoes, Goes
<1>4. GuestGoes(i, a, holds) \in Location
  BY <1>1, LocationType DEF GuestGoes
<1>5. QED
  BY <1>3, <1>4

(* One instruction, whose condition an IT instruction has no part in: the  *)
(* C goes where the guest goes and does what it does, traps, or leaves it  *)
(* in one of the listed ways.                                              *)
LEMMA OneInstruction ==
  ASSUME NEW i \in Insn, NEW a, NEW holds \in BOOLEAN,
         i.conditional \/ holds,
         CGoes(i, a, holds) # Trapped,
         ~ConditionLost(i), ~ReturnBare(i), ~ReturnByLink(i), ~SumDropped(i),
         ~(CGoes(i, a, holds) = After(a) /\ After(a) # At(a + i.width))
  PROVE  /\ Same(CGoes(i, a, holds), GuestGoes(i, a, holds))
         /\ i.effect => (CDoes(i) <=> holds)
<1>1. /\ i.op \in {"b", "cbz"} => i.cls = "branch" /\ i.hasTarget
      /\ i.cls = "branch" => i.op \in {"none", "b", "cbz"} /\ ~i.effect
      /\ i.op = "bx" => i.cls \in {"return", "indirect"} /\ ~i.effect
      /\ i.cls = "indirect" => i.op \in {"none", "bx"}
      /\ i.cls = "return" => i.op \in {"none", "bx", "pop"}
  BY InsnType
<1>2. \A t : Same(Gone(t), At(t))
  BY DEF Same, Gone, At
<1>3. CASE Bind(i)
  <2>1. holds /\ i.cls \in {"call", "branch"} /\ i.hasTarget
    BY <1>3 DEF ConditionLost, Bind
  <2>2. CASE i.cls = "call"
    BY <1>3, <2>1, <2>2 DEF CGoes, GuestGoes, CDoes, Same
  <2>3. CASE i.cls = "branch"
    BY <1>1, <1>2, <1>3, <2>1, <2>3 DEF CGoes, GuestGoes
  <2>4. QED
    BY <2>1, <2>2, <2>3
<1>4. CASE ~Bind(i) /\ Branches(i)
  <2>1. i.cls = "branch" /\ i.hasTarget /\ ~i.effect
    BY <1>1, <1>4 DEF Branches
  <2>2. Goes(i) # Trapped => Goes(i) \in {At(i.target), Gone(i.target)}
    BY DEF Goes
  <2>3. CASE holds
    BY <1>2, <1>4, <2>1, <2>2, <2>3 DEF CGoes, GuestGoes, Same
  <2>4. CASE ~holds
    BY <1>4, <2>1, <2>2, <2>4 DEF CGoes, GuestGoes, Same
  <2>5. QED
    BY <2>1, <2>3, <2>4
<1>5. CASE ~Bind(i) /\ ~Branches(i)
  <2>1. holds /\ ~Untranslated(i)
    BY <1>5 DEF ConditionLost, CGoes
  <2>2. CASE i.op = "bx"
    <3>1. i.cls = "indirect" /\ ~i.sum /\ ~i.effect
      BY <1>1, <2>2 DEF ReturnByLink, SumDropped
    <3>2. CGoes(i, a, holds) = Computed /\ GuestGoes(i, a, holds) = Computed
      BY <1>5, <2>1, <2>2, <3>1 DEF CGoes, GuestGoes
    <3>3. QED
      BY <3>1, <3>2 DEF Same
  <2>3. CASE i.op # "bx" /\ i.cls = "return"
    <3>1. CGoes(i, a, holds) = Returned /\ GuestGoes(i, a, holds) = Returned
      BY <1>5, <2>1, <2>3 DEF CGoes, GuestGoes
    <3>2. i.effect => CDoes(i)
      BY <2>3 DEF ReturnBare, CDoes
    <3>3. QED
      BY <2>1, <3>1, <3>2 DEF Same
  <2>4. CASE i.op # "bx" /\ i.cls # "return"
    <3>1. CGoes(i, a, holds) = After(a)
      BY <1>5, <2>1, <2>4 DEF CGoes
    <3>2. i.cls \notin {"branch", "indirect"}
      BY <1>1, <1>5, <2>1, <2>4 DEF Untranslated, Branches
    <3>3. GuestGoes(i, a, holds) = At(a + i.width)
      BY <2>1, <2>4, <3>2 DEF GuestGoes
    <3>4. CDoes(i)
      BY <2>1, <2>4 DEF Untranslated, CDoes
    <3>5. QED
      BY <2>1, <3>1, <3>3, <3>4 DEF Same
  <2>5. QED
    BY <2>2, <2>3, <2>4
<1>6. QED
  BY <1>3, <1>4, <1>5

LEMMA RunStep == EmitInv /\ (\E holds \in BOOLEAN : Run(holds)) => EmitInv'
<1> SUFFICES ASSUME EmitInv, NEW holds \in BOOLEAN, Run(holds),
                    NEW CONSTANT a, a = c.addr, NEW CONSTANT i, i = prog.code[a]
             PROVE  EmitInv'
  OBVIOUS
<1>0. TypeOK /\ AboveInv /\ SeenInv /\ ClosedInv /\ EndInv
  BY DEF EmitInv
<1>1. /\ phase = "run" /\ a \in body
      /\ Conditional(i) \/ holds
      /\ c' = CGoes(i, a, holds) /\ g' = GuestGoes(i, a, holds)
      /\ it' = (IF i.op = "it" THEN i.covers ELSE IF it > 0 THEN it - 1 ELSE 0)
      /\ last' = a /\ governed' = (it > 0)
      /\ faithful' = (Same(c', g') /\ (i.effect => (CDoes(i) <=> holds)))
      /\ UNCHANGED << prog, phase, stack, cur, visited, body, labels, cut >>
  BY DEF Run, walkVars
<1>2. a \in Text /\ i \in Insn
  BY <1>0, <1>1, ProgType DEF TypeOK
<1>3. TypeOK'
  <2>1. c' \in Location /\ g' \in Location
    BY <1>0, <1>1, <1>2, GoesSomewhere
  <2>2. it' \in Nat
    BY <1>0, <1>1, <1>2, InsnType DEF TypeOK
  <2>3. governed' \in BOOLEAN /\ faithful' \in BOOLEAN
    BY <1>1
  <2>4. QED
    BY <1>0, <1>1, <1>2, <2>1, <2>2, <2>3 DEF TypeOK
<1>4. AboveInv' /\ SeenInv' /\ EndInv'
  BY <1>0, <1>1 DEF AboveInv, SeenInv, Decodes, EndInv
<1>5. ClosedInv'
  <2>1. Bound' = Bound
    BY <1>1 DEF Bound
  <2>2. \A t : Owed(t)' <=> Owed(t)
    BY <1>1, <2>1 DEF Owed, Pending, Decodes
  <2>3. \A j, b : Followed(j, b)' = Followed(j, b)
    BY <1>1, <2>1 DEF Followed
  <2>4. QED
    BY <1>0, <1>1, <2>2, <2>3 DEF ClosedInv
<1>6. FlowKept'
  <2>1. SUFFICES ASSUME ~faithful', c' # Trapped, ~governed'
                 PROVE  \/ ConditionLost(i) \/ ReturnBare(i) \/ ReturnByLink(i) \/ SumDropped(i)
                        \/ (c' = After(a) /\ After(a) # At(a + i.width))
    <3>1. last' # Nowhere
      <4>1. a # Nowhere
        BY <1>0, <1>2, ProgType DEF Nowhere
      <4>2. QED
        BY <1>1, <4>1
    <3>2. prog'.code[last'] = i
      BY <1>1
    <3>3. ASSUME NEW j
          PROVE  /\ ConditionLost(j)' <=> ConditionLost(j)
                 /\ ReturnBare(j)' <=> ReturnBare(j)
                 /\ ReturnByLink(j)' <=> ReturnByLink(j)
                 /\ SumDropped(j)' <=> SumDropped(j)
      BY <1>1 DEF ConditionLost, ReturnBare, ReturnByLink, SumDropped, Bind, Branches
    <3>4. ASSUME NEW j, NEW b
          PROVE  RunsOn(j, b)' <=> c' = After(b) /\ c' # At(b + j.width)
      BY <1>1 DEF RunsOn, After
    <3>5. SUFFICES ASSUME ~faithful', c' # Trapped, ~governed'
                   PROVE  \/ ConditionLost(i)' \/ ReturnBare(i)' \/ ReturnByLink(i)' \/ SumDropped(i)'
                          \/ RunsOn(i, a)'
      <4>1. last' = a
        BY <1>1
      <4>2. QED
        BY <3>1, <3>2, <4>1 DEF FlowKept, Trapped
    <3>6. \/ ConditionLost(i) \/ ReturnBare(i) \/ ReturnByLink(i) \/ SumDropped(i)
          \/ (c' = After(a) /\ After(a) # At(a + i.width))
      BY <3>5
    <3>7. QED
      BY <3>3, <3>4, <3>6
  <2>2. i.conditional \/ holds
    <3>1. ~(it > 0)
      BY <1>1, <2>1
    <3>2. QED
      BY <1>1, <3>1 DEF Conditional
  <2>3. ~(Same(CGoes(i, a, holds), GuestGoes(i, a, holds)) /\ (i.effect => (CDoes(i) <=> holds)))
    BY <1>1, <2>1
  <2>4. QED
    BY <1>1, <1>2, <2>1, <2>2, <2>3, OneInstruction
<1>7. QED
  BY <1>3, <1>4, <1>5, <1>6 DEF EmitInv

LEMMA EmitStep == EmitInv /\ [Next]_vars => EmitInv'
<1> SUFFICES ASSUME EmitInv, [Next]_vars PROVE EmitInv'
  OBVIOUS
<1>1. CASE NextBlock
  BY <1>1, NextBlockStep
<1>2. CASE Stop
  BY <1>2, StopStep
<1>3. CASE TakeReturn
  BY <1>3, TakeReturnStep
<1>4. CASE TakeLocal
  BY <1>4, TakeLocalStep
<1>5. CASE TakeTail
  BY <1>5, TakeTailStep
<1>6. CASE TakeOn
  BY <1>6, TakeOnStep
<1>7. CASE EndCollect
  BY <1>7, EndCollectStep
<1>8. CASE \E holds \in BOOLEAN : Run(holds)
  BY <1>8, RunStep
<1>9. CASE UNCHANGED vars
  <2>1. UNCHANGED << prog, phase, stack, cur, visited, body, labels, cut,
                     c, g, it, last, governed, faithful >>
    BY <1>9 DEF vars, walkVars, runVars
  <2>2. Bound' = Bound
    BY <2>1 DEF Bound
  <2>3. TypeOK' /\ AboveInv' /\ SeenInv' /\ EndInv'
    BY <2>1 DEF EmitInv, TypeOK, AboveInv, SeenInv, Decodes, EndInv
  <2>4. ClosedInv'
    BY <2>1, <2>2 DEF EmitInv, ClosedInv, Owed, Pending, Decodes, Followed
  <2>5. FlowKept'
    BY <2>1 DEF EmitInv, FlowKept, ConditionLost, ReturnBare, ReturnByLink, SumDropped,
                RunsOn, After, Bind, Branches
  <2>6. QED
    BY <2>3, <2>4, <2>5 DEF EmitInv
<1>10. QED
  BY <1>1, <1>2, <1>3, <1>4, <1>5, <1>6, <1>7, <1>8, <1>9 DEF Next, Collect

--------------------------------------------------------------------------------
(* The walk and the run of the C keep their invariant for ever. *)
THEOREM EmitInvariant == Spec => []EmitInv
  BY InitEmit, EmitStep, PTL DEF Spec

(* Every variable of Emission keeps its type: collect stays in its stack   *)
(* and in the segment, and collects nothing it has not marked.             *)
THEOREM TypeCorrect == Spec => []TypeOK
<1>1. EmitInv => TypeOK
  BY DEF EmitInv
<1>2. QED
  BY <1>1, EmitInvariant, PTL

(* Every goto printed has its label, whatever the limits of collect.       *)
THEOREM GotosAlwaysLand == Spec => []GotosLand
<1>1. EmitInv => GotosLand
  <2> SUFFICES ASSUME EmitInv, phase = "run", NEW a \in body,
                      Goes(prog.code[a]).way = "at"
               PROVE  prog.code[a].target \in body
    BY DEF GotosLand
  <2>1. prog.code[a].target \in labels
    BY DEF Goes, At, Gone, Trapped
  <2>2. labels \subseteq body
    BY DEF EmitInv, EndInv
  <2>3. QED
    BY <2>1, <2>2
<1>2. QED
  BY <1>1, EmitInvariant, PTL

(* A walk no limit stopped has collected everything control reaches inside *)
(* the bound.                                                              *)
THEOREM BodyIsClosed == Spec => []BodyClosed
<1>1. EmitInv => BodyClosed
  <2> SUFFICES ASSUME EmitInv, phase = "run", ~cut PROVE BodyClosed
    BY DEF BodyClosed
  <2>1. cur = Nowhere /\ stack = <<>> /\ TypeOK /\ ClosedInv
    BY DEF EmitInv, EndInv
  <2>2. ASSUME NEW t, Owed(t), Decodes(t), t < Bound PROVE t \in body
    <3>1. t # Nowhere
      BY <2>1, <2>2, ProgType DEF Decodes, Nowhere
    <3>2. Len(stack) = 0
      BY <2>1, EmptySeq
    <3>3. ~Pending(t)
      BY <2>1, <3>1, <3>2 DEF Pending
    <3>4. QED
      BY <2>2, <3>3 DEF Owed
  <2>3. QED
    BY <2>1, <2>2 DEF BodyClosed, ClosedInv
<1>2. QED
  BY <1>1, EmitInvariant, PTL

(* Outside IT blocks and the listed gaps the C printed is where the guest  *)
(* is and has done what the guest did, or has trapped.                     *)
THEOREM FlowIsKept == Spec => []FlowKept
<1>1. EmitInv => FlowKept
  BY DEF EmitInv
<1>2. QED
  BY <1>1, EmitInvariant, PTL
================================================================================
