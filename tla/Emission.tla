-------------------------------- MODULE Emission --------------------------------
(***************************************************************************)
(* One function becomes C: src/tools/armrecomp/emit.c.  collect walks the  *)
(* function again within fixed limits and records the blocks that need a   *)
(* label; em_emit prints the instructions in address order, each as the C  *)
(* emit_insn gives it.  The second half of the module runs that C next to  *)
(* the guest's own control flow.                                           *)
(*                                                                         *)
(* One unit of address is a halfword.  A call of a function or of an       *)
(* import is one step: its callee is taken to return.                      *)
(***************************************************************************)
EXTENDS Integers, Sequences, FiniteSets

CONSTANTS
  Base, Size,    (* seg_vaddr, seg_len                                     *)
  ShortExtent,   (* an extent up to here is no bound: 16 bytes             *)
  Generous,      (* the bound used instead: 8192 bytes                     *)
  VisitSlots,    (* VISIT_SLOTS                                            *)
  StackSize,     (* entries of collect's stack: 512                        *)
  MaxInsns,      (* MAX_INSNS_PER_FUNC                                     *)
  Programs

Text == Base .. Base + Size - 1
Nowhere == -1

(* arm_insn as far as control depends on it, and what the guest does that  *)
(* arm_insn does not say.  op: "none" when the decoder left the operands   *)
(* unfilled or emit_insn refuses them (a write to pc), "some" for a        *)
(* translated operation with no part in control.                           *)
Fields ==
  [cls : {"call", "return", "indirect", "branch", "other"},
   op : {"none", "some", "it", "b", "cbz", "bx", "blx", "pop"},
   width : 0 .. 2, hasTarget : BOOLEAN, target : Nat,
   conditional : BOOLEAN,   (* it carries a condition of its own           *)
   effect : BOOLEAN,        (* it changes more than the program counter    *)
   sum : BOOLEAN,           (* add pc, rm: it goes to pc + rm              *)
   covers : Nat]            (* an IT instruction: how many it governs      *)

(* What the decoder keeps to: which classes go with which operations. *)
Insn ==
  { i \in Fields :
      /\ i.op \in {"b", "cbz"} => i.cls = "branch" /\ i.hasTarget
      /\ i.cls = "branch" => i.op \in {"none", "b", "cbz"} /\ ~i.effect
      /\ i.op = "bx" => i.cls \in {"return", "indirect"} /\ ~i.effect
      /\ i.cls = "indirect" => i.op \in {"none", "bx"}
      /\ i.cls = "return" => i.op \in {"none", "bx", "pop"} }

(* A function of a module: how addresses decode in its mode, its entry and *)
(* recorded extent, every discovered function, every import stub.          *)
Program ==
  [code : [Text -> Insn], addr : Text, end : Nat, funcs : SUBSET Text, stubs : SUBSET Nat]

ASSUME EmissionAssumption ==
  /\ Base \in Nat \ {0} /\ Size \in Nat
  /\ ShortExtent \in Nat /\ Generous \in Nat
  /\ VisitSlots \in Nat \ {0} /\ StackSize \in Nat \ {0} /\ MaxInsns \in Nat \ {0}
  /\ Programs \subseteq Program

VARIABLES
  prog,
  phase,      (* "collect", then "run"                                     *)
  stack, cur, (* blocks still to collect, and the address collect is at    *)
  visited,    (* keys of the visited table                                 *)
  body,       (* addresses of the instructions collected                   *)
  labels,
  cut,        (* one of the three limits stopped collect; not in the code  *)
  c,          (* where the C is                                            *)
  g,          (* where the guest would be                                  *)
  it,         (* instructions the guest's IT state still governs           *)
  last,       (* address of the last instruction run, for the properties   *)
  governed,   (* an IT instruction governed it                             *)
  faithful    (* so far the C has done what the guest does                 *)

walkVars == << stack, cur, visited, body, labels, cut >>
runVars  == << c, g, it, last, governed, faithful >>
vars     == << prog, phase, walkVars, runVars >>

Here == prog.code[cur]

--------------------------------------------------------------------------------
(* collect *)

(* The walk and the labels share this notion of inside the function. *)
Bound ==
  IF prog.end > prog.addr + ShortExtent THEN prog.end ELSE prog.addr + Generous

(* The next block, unless the cap on instructions is reached. *)
NextBlock ==
  /\ phase = "collect" /\ cur = Nowhere
  /\ stack # <<>> /\ Cardinality(body) < MaxInsns
  /\ cur' = stack[Len(stack)]
  /\ stack' = SubSeq(stack, 1, Len(stack) - 1)
  /\ UNCHANGED << prog, phase, visited, body, labels, cut, runVars >>

Within == cur \in Text /\ cur < Bound
Full   == Cardinality(visited) >= VisitSlots

(* Mutant of Fresh: what was met before is collected again. *)
FreshAgain == Within /\ ~Full /\ Here.width # 0

(* visit_mark returns 1, and the instruction decodes. *)
Fresh == Within /\ cur \notin visited /\ ~Full /\ Here.width # 0

(* The block ends here: outside, met before, no room to remember it, or    *)
(* input runs out.                                                         *)
Stop ==
  /\ phase = "collect" /\ cur # Nowhere /\ ~Fresh
  /\ visited' = IF Within /\ ~Full THEN visited \cup {cur} ELSE visited
  /\ cut' = (cut \/ (Within /\ cur \notin visited /\ Full))
  /\ cur' = Nowhere
  /\ UNCHANGED << prog, phase, stack, body, labels, runVars >>

(* The instruction is collected. *)
Take ==
  /\ phase = "collect" /\ cur # Nowhere /\ Fresh
  /\ visited' = visited \cup {cur}
  /\ body' = body \cup {cur}
  /\ UNCHANGED << prog, phase, runVars >>

Jumps == Here.cls = "branch"

(* Mutant of Inside: labels stop at the recorded extent. *)
InsideExtent(t) == prog.addr <= t /\ t < prog.end

Inside(t) == prog.addr <= t /\ t < Bound
Local == Jumps /\ Here.hasTarget /\ Inside(Here.target)

TakeReturn ==
  /\ Take
  /\ Here.cls = "return"
  /\ cur' = Nowhere
  /\ UNCHANGED << stack, labels, cut >>

(* Mutant of TakeLocal: the stack has always room. *)
TakeLocalUnchecked ==
  /\ Take
  /\ Local
  /\ labels' = labels \cup {Here.target}
  /\ stack' = Append(stack, Here.target)
  /\ cur' = IF Here.conditional THEN cur + Here.width ELSE Nowhere
  /\ UNCHANGED cut

(* A branch within the function: a label, and its block when the stack has *)
(* room.                                                                   *)
TakeLocal ==
  /\ Take
  /\ Local
  /\ labels' = labels \cup {Here.target}
  /\ stack' = IF Len(stack) < StackSize THEN Append(stack, Here.target) ELSE stack
  /\ cut' = (cut \/ Len(stack) >= StackSize)
  /\ cur' = IF Here.conditional THEN cur + Here.width ELSE Nowhere

(* A branch out of the function that is always taken. *)
TakeTail ==
  /\ Take
  /\ Jumps /\ ~Local /\ ~Here.conditional
  /\ cur' = Nowhere
  /\ UNCHANGED << stack, labels, cut >>

(* Anything else goes on, an indirect transfer too. *)
TakeOn ==
  /\ Take
  /\ Here.cls # "return" /\ ~Local /\ ~(Jumps /\ ~Here.conditional)
  /\ cur' = cur + Here.width
  /\ UNCHANGED << stack, labels, cut >>

At(a)    == [way |-> "at", addr |-> a]
Gone(a)  == [way |-> "gone", addr |-> a]     (* tail call of what is at a  *)
Returned == [way |-> "returned", addr |-> Nowhere]
Computed == [way |-> "computed", addr |-> Nowhere]   (* what a register holds *)
Summed   == [way |-> "summed", addr |-> Nowhere]     (* a sum with the pc     *)
Trapped  == [way |-> "trapped", addr |-> Nowhere]

(* The statement printed after those up to a, or the closing brace. *)
After(a) ==
  IF \E b \in body : b > a
    THEN At(CHOOSE b \in body : b > a /\ \A d \in body : d > a => b <= d)
    ELSE Returned

(* Mutant of EndCollect: labels without a block stay. *)
EndUnpruned ==
  /\ phase = "collect" /\ cur = Nowhere
  /\ stack = <<>> \/ Cardinality(body) >= MaxInsns
  /\ phase' = "run"
  /\ cut' = (cut \/ stack # <<>>)
  /\ c' = After(Nowhere) /\ g' = At(prog.addr)
  /\ faithful' = (c' = g')
  /\ UNCHANGED << prog, stack, cur, visited, body, labels, it, last, governed >>

(* The walk is over; labels whose block was not collected are dropped.     *)
(* The C starts at the first instruction in address order.                 *)
EndCollect ==
  /\ phase = "collect" /\ cur = Nowhere
  /\ stack = <<>> \/ Cardinality(body) >= MaxInsns
  /\ phase' = "run"
  /\ labels' = labels \cap body
  /\ cut' = (cut \/ stack # <<>>)
  /\ c' = After(Nowhere) /\ g' = At(prog.addr)
  /\ faithful' = (c' = g')
  /\ UNCHANGED << prog, stack, cur, visited, body, it, last, governed >>

--------------------------------------------------------------------------------
(* emit_insn: where the C of the instruction i at a goes, and whether it   *)
(* does what i does.  A condition is tested on the guest's own flags.      *)

(* A transfer to an import stub is bound before anything else is looked at. *)
Bind(i) == i.cls \in {"call", "branch"} /\ i.hasTarget /\ i.target \in prog.stubs

(* fs_has: the emitter names no function that is not defined. *)
Named(t) == t \in prog.funcs

(* Mutant of Goes: a branch that leads nowhere known is passed over. *)
GoesSilently(i) ==
  IF i.target \in labels THEN At(i.target)
  ELSE IF Named(i.target) THEN Gone(i.target) ELSE Returned

(* A branch: a goto, a tail call, or a trap that tests no condition. *)
Goes(i) ==
  IF i.target \in labels THEN At(i.target)
  ELSE IF Named(i.target) THEN Gone(i.target) ELSE Trapped

Branches(i) == i.op \in {"b", "cbz"}

(* Nothing fills its operands: the fallback by class, which for a return   *)
(* is a plain `return` and for the rest is a trap.                         *)
Untranslated(i) ==
  i.op = "none" /\ i.cls # "return" /\ ~(i.cls = "call" /\ i.hasTarget /\ Named(i.target))

CGoes(i, a, holds) ==
  IF Bind(i) THEN (IF i.cls = "call" THEN After(a) ELSE Gone(i.target))
  ELSE IF Branches(i) THEN (IF Goes(i) = Trapped \/ holds THEN Goes(i) ELSE After(a))
  ELSE IF Untranslated(i) THEN Trapped
  ELSE IF i.op = "bx" THEN Computed
  ELSE IF i.cls = "return" THEN Returned
  ELSE After(a)

CDoes(i) == i.op # "none" \/ i.cls = "call"

(* What the guest does. *)
GuestGoes(i, a, holds) ==
  IF ~holds THEN At(a + i.width)
  ELSE IF i.cls = "branch" /\ i.hasTarget THEN At(i.target)
  ELSE IF i.cls = "return" THEN Returned
  ELSE IF i.cls = "indirect" THEN (IF i.sum THEN Summed ELSE Computed)
  ELSE At(a + i.width)

(* A tail call of what is at an address is the guest at that address. *)
Same(p, q) == p = q \/ (p.way = "gone" /\ q = At(p.addr))

(* Does a condition decide whether the guest executes i? *)
Conditional(i) == i.conditional \/ it > 0

(* One instruction, in C and on the guest. *)
Run(holds) ==
  /\ phase = "run" /\ faithful /\ c.way = "at" /\ c.addr \in body
  /\ LET a == c.addr
         i == prog.code[a]
     IN  /\ Conditional(i) \/ holds
         /\ c' = CGoes(i, a, holds)
         /\ g' = GuestGoes(i, a, holds)
         /\ it' = IF i.op = "it" THEN i.covers ELSE IF it > 0 THEN it - 1 ELSE 0
         /\ last' = a /\ governed' = (it > 0)
         /\ faithful' = (Same(c', g') /\ (i.effect => (CDoes(i) <=> holds)))
  /\ UNCHANGED << prog, phase, walkVars >>

Init ==
  /\ prog \in Programs
  /\ phase = "collect"
  /\ stack = << prog.addr >> /\ cur = Nowhere
  /\ visited = {} /\ body = {} /\ labels = {} /\ cut = FALSE
  /\ c = At(Nowhere) /\ g = At(Nowhere) /\ it = 0
  /\ last = Nowhere /\ governed = FALSE /\ faithful = TRUE

Collect == NextBlock \/ Stop \/ TakeReturn \/ TakeLocal \/ TakeTail \/ TakeOn \/ EndCollect

Next == Collect \/ \E holds \in BOOLEAN : Run(holds)

Spec == Init /\ [][Next]_vars

(* The emitter runs until the function is printed; nothing makes the       *)
(* program run.                                                            *)
FairSpec == Spec /\ WF_vars(Collect)

--------------------------------------------------------------------------------
Location ==
  [way : {"at", "gone", "returned", "computed", "summed", "trapped"}, addr : Nat \cup {Nowhere}]

(* Types; the stack stays inside its array. *)
TypeOK ==
  /\ prog \in Program
  /\ phase \in {"collect", "run"}
  /\ stack \in Seq(Nat) /\ Len(stack) <= StackSize
  /\ cur \in Nat \cup {Nowhere}
  /\ visited \subseteq Text /\ body \subseteq visited
  /\ labels \subseteq Nat /\ cut \in BOOLEAN
  /\ c \in Location /\ g \in Location
  /\ it \in Nat /\ last \in Text \cup {Nowhere}
  /\ governed \in BOOLEAN /\ faithful \in BOOLEAN

(* Every goto has its label, whichever limit stopped the walk before it    *)
(* reached the block (the pruning comment in collect).                     *)
GotosLand ==
  phase = "run" =>
    \A a \in body :
      LET i == prog.code[a]
      IN  Branches(i) /\ Goes(i).way = "at" => i.target \in body

(* Where collect means to go on from the instruction i at a. *)
Followed(i, a) ==
  { t \in {i.target} : i.cls = "branch" /\ i.hasTarget /\ prog.addr <= t /\ t < Bound }
  \cup
  { t \in {a + i.width} : i.cls # "return" /\ (i.cls = "branch" => i.conditional) }

Decodes(a) == a \in Text /\ prog.code[a].width # 0

(* Unless a limit stopped it, the walk collects every instruction that     *)
(* control reaches inside the bound, also when discovery left the function *)
(* no extent (the two comments on `bound`).                                *)
BodyClosed ==
  phase = "run" /\ ~cut =>
    /\ Decodes(prog.addr) /\ prog.addr < Bound => prog.addr \in body
    /\ \A a \in body : \A t \in Followed(prog.code[a], a) :
         Decodes(t) /\ t < Bound => t \in body

(* The ways in which the C is known to leave the guest in silence.         *)

(* A condition that is not printed: that of an ARM instruction, or of a    *)
(* branch bound to an import.                                              *)
ConditionLost(i) == i.conditional /\ (Bind(i) \/ ~Branches(i))

(* `return` for a return whose registers the decoder did not fill in. *)
ReturnBare(i) == i.cls = "return" /\ i.op = "none" /\ i.effect

(* bx lr is looked up like any other transfer. *)
ReturnByLink(i) == i.cls = "return" /\ i.op = "bx"

(* add pc, rm is printed as bx rm. *)
SumDropped(i) == i.op = "bx" /\ i.sum

(* What follows was not collected, or an instruction that overlaps this    *)
(* one is printed before it.                                               *)
RunsOn(i, a) == c = After(a) /\ c # At(a + i.width)

(* Everywhere else, and but for instructions an IT instruction governs,    *)
(* the C is where the guest is and has done what the guest did, or has     *)
(* trapped: through gotos, tail calls, calls and both outcomes of every    *)
(* condition (the header of emit.c).                                       *)
FlowKept ==
  phase = "run" /\ ~faithful /\ c # Trapped =>
    \/ governed
    \/ prog.addr \notin body
    \/ /\ last # Nowhere
       /\ LET i == prog.code[last]
          IN  ConditionLost(i) \/ ReturnBare(i) \/ ReturnByLink(i) \/ SumDropped(i) \/ RunsOn(i, last)

(* The walk over a function ends, whatever the code (the bound on every    *)
(* list, and the visited table).                                           *)
CollectEnds == <>(phase = "run")

(* emit.c:411: "An instruction made conditional by an IT block ... is       *)
(* wrapped", and emit.c:900 on how it is known.                            *)
ItHonoured == phase = "run" /\ governed => faithful \/ c = Trapped

(* emit.c:10: "It does not guess.  An instruction whose operands the       *)
(* decoder did not fill becomes a named trap, never an approximation."     *)
NothingGuessed == phase = "run" => faithful \/ c = Trapped
================================================================================
