------------------------------- MODULE Discovery -------------------------------
(***************************************************************************)
(* Function discovery: vf_discover of src/tools/armrecomp/analyze.c, the   *)
(* recursive descent that carries the instruction set (ARM or Thumb) with  *)
(* every address it reaches.                                               *)
(*                                                                         *)
(* A program is what the walk can learn of a module: how each address      *)
(* decodes in each mode, module_start, the exports, the import stubs, and  *)
(* the words the shape scan reads.  One unit of address is a halfword, the *)
(* finest granularity an instruction can start on.  Deterministic as the C *)
(* code is: only the choice of the program is open.                        *)
(***************************************************************************)
EXTENDS Integers, Sequences, FiniteSets

CONSTANTS
  Base,       (* seg_vaddr: first address of the executable segment        *)
  Size,       (* seg_len                                                   *)
  RunMin,     (* SHAPE_RUN_MIN: adjacent pointers that make a table        *)
  Programs    (* the modules discovery is run on                           *)

Mode  == {"A32", "T32"}
Class == {"plain", "unknown", "call", "return", "indirect", "branch"}
Text  == Base .. Base + Size - 1

Nowhere == -1   (* no address: module_start 0xFFFFFFFF, no current address *)

(* arm_insn and the width arm_decode returns, 0 when input runs out.       *)
(* "unknown" is A_UNKNOWN and A_UNDEF, "plain" every class not named here. *)
Insn == [cls : Class, width : 0 .. 2, hasTarget : BOOLEAN, target : Nat,
         conditional : BOOLEAN, switches : BOOLEAN]

(* words: the segment, then each data segment inside the file, end to end  *)
(* with a word that is no pointer between them.  A word with the Thumb bit *)
(* is the address it points at, any other word is 0.                       *)
Program ==
  [code : [Mode -> [Text -> Insn]], entry : Nat \cup {Nowhere},
   exports : Seq([addr : Nat, mode : Mode]), stubs : SUBSET Nat,
   words : Seq(Nat), prologue : SUBSET Text]

ASSUME TextAssumption == Base \in Nat \ {0} /\ Size \in Nat
ASSUME ScanAssumption == RunMin \in Nat \ {0}
ASSUME ProgramAssumption == Programs \subseteq Program

VARIABLES
  prog,
  phase,    (* which part of vf_discover is running                        *)
  pos,      (* cursor of the loop over exports, halfwords or words         *)
  q, head,  (* the seeds, and the next one to take                         *)
  funcs,    (* vf_func registry, in order of registration                  *)
  seen,     (* 0, or the number of the function whose walk decoded the     *)
            (* address; the code keeps only the bit                        *)
  local,    (* blocks of the current function still to walk, a stack       *)
  cur       (* address the walk is at, or Nowhere                          *)

vars == << prog, phase, pos, q, head, funcs, seen, local, cur >>

Phase == {"entry", "exports", "harvest", "drain", "scan", "redrain", "done"}
Seed  == [addr : Nat, mode : Mode, heur : BOOLEAN]
Func  == [addr : Text, mode : Mode, heur : BOOLEAN, end : Nat, insns : Nat]

MaxOf(x, y) == IF x > y THEN x ELSE y

Decode(a, m) == prog.code[m][a]
Decodes(a, m) == a \in Text /\ Decode(a, m).width # 0
Decoded == { a \in Text : seen[a] # 0 }
FuncAddrs == { funcs[i].addr : i \in DOMAIN funcs }

Sq(a, m, h) == [addr |-> a, mode |-> m, heur |-> h]

--------------------------------------------------------------------------------
(* Seeds. *)

(* Mutant of Followed: a mode switch is followed wherever it goes. *)
FollowedAnywhere(i, m) == i.cls = "call" /\ i.hasTarget

(* A call seeds its target unless it switches from Thumb to ARM and the    *)
(* target is not an import stub (arm_seed_ok).                             *)
Followed(i, m) ==
  /\ i.cls = "call" /\ i.hasTarget
  /\ i.switches /\ m = "T32" => i.target \in prog.stubs

(* The mode a call's target is entered in. *)
CalleeMode(i, m) ==
  IF ~i.switches THEN m ELSE IF m = "T32" THEN "A32" ELSE "T32"

SeedEntry ==
  /\ phase = "entry"
  /\ q' = IF prog.entry # Nowhere THEN Append(q, Sq(prog.entry, "T32", FALSE)) ELSE q
  /\ phase' = "exports" /\ pos' = 1
  /\ UNCHANGED << prog, head, funcs, seen, local, cur >>

SeedExport ==
  /\ phase = "exports" /\ pos <= Len(prog.exports)
  /\ LET e == prog.exports[pos]
     IN  q' = IF e.addr \in Text THEN Append(q, Sq(e.addr, e.mode, FALSE)) ELSE q
  /\ pos' = pos + 1
  /\ UNCHANGED << prog, phase, head, funcs, seen, local, cur >>

EndExports ==
  /\ phase = "exports" /\ pos > Len(prog.exports)
  /\ phase' = "harvest" /\ pos' = Base
  /\ UNCHANGED << prog, q, head, funcs, seen, local, cur >>

(* What the linear sweep takes from the halfword at a, decoded as Thumb    *)
(* whatever it is.                                                         *)
Harvests(a) ==
  LET i == Decode(a, "T32")
  IN  i.width # 0 /\ Followed(i, "T32") /\ i.target \in Text

Harvest ==
  /\ phase = "harvest" /\ pos + 2 <= Base + Size
  /\ LET i == Decode(pos, "T32")
     IN  q' = IF Harvests(pos)
                THEN Append(q, Sq(i.target, CalleeMode(i, "T32"), FALSE))
                ELSE q
  /\ pos' = pos + 1
  /\ UNCHANGED << prog, phase, head, funcs, seen, local, cur >>

EndHarvest ==
  /\ phase = "harvest" /\ pos + 2 > Base + Size
  /\ phase' = "drain"
  /\ UNCHANGED << prog, pos, q, head, funcs, seen, local, cur >>

--------------------------------------------------------------------------------
(* The loop over the seeds, run once before the shape scan and once after. *)

Draining == phase \in {"drain", "redrain"}
Walking  == cur # Nowhere \/ local # <<>>
Taking   == Draining /\ ~Walking /\ head <= Len(q)

(* Mutant of Known: an address some walk went through is not a function. *)
KnownBySeen(a) == a \in Decoded

(* Mutant of Known: the registry tells the two modes of an address apart. *)
KnownInMode(a) ==
  \E n \in DOMAIN funcs : funcs[n].addr = a /\ funcs[n].mode = q[head].mode

(* FN_TEST: a registry of entries, apart from the map of instructions.     *)
Known(a) == a \in FuncAddrs

(* Mutant of Skip: a seed that is passed over stays at the head. *)
SkipStuck ==
  /\ Taking
  /\ q[head].addr \notin Text \/ Known(q[head].addr)
  /\ UNCHANGED vars

Skip ==
  /\ Taking
  /\ q[head].addr \notin Text \/ Known(q[head].addr)
  /\ head' = head + 1
  /\ UNCHANGED << prog, phase, pos, q, funcs, seen, local, cur >>

(* add_func of a seed. *)
NewFunc(s) ==
  [addr |-> s.addr, mode |-> s.mode, heur |-> s.heur, end |-> 0, insns |-> 0]

(* Mutant of Register: the seed may lie outside the segment. *)
RegisterAnywhere ==
  /\ Taking
  /\ ~Known(q[head].addr)
  /\ funcs' = Append(funcs, NewFunc(q[head]))
  /\ local' = << q[head].addr >>
  /\ head' = head + 1
  /\ UNCHANGED << prog, phase, pos, q, seen, cur >>

(* add_func, and the start of walk. *)
Register ==
  /\ Taking
  /\ q[head].addr \in Text /\ ~Known(q[head].addr)
  /\ funcs' = Append(funcs, NewFunc(q[head]))
  /\ local' = << q[head].addr >>
  /\ head' = head + 1
  /\ UNCHANGED << prog, phase, pos, q, seen, cur >>

EndDrain ==
  /\ Draining /\ ~Walking /\ head > Len(q)
  /\ phase' = IF phase = "drain" THEN "scan" ELSE "done"
  /\ pos' = 1
  /\ UNCHANGED << prog, q, head, funcs, seen, local, cur >>

--------------------------------------------------------------------------------
(* walk: one step per iteration of its two loops, on the last function.    *)

N == Len(funcs)
Here == Decode(cur, funcs[N].mode)

(* The next block of the function. *)
Resume ==
  /\ cur = Nowhere /\ local # <<>>
  /\ cur' = local[Len(local)]
  /\ local' = SubSeq(local, 1, Len(local) - 1)
  /\ UNCHANGED << prog, phase, pos, q, head, funcs, seen >>

(* The address is in the segment, not decoded before, and decodes. *)
Fresh == cur \in Text /\ seen[cur] = 0 /\ Decodes(cur, funcs[N].mode)

Stop ==
  /\ cur # Nowhere /\ ~Fresh
  /\ cur' = Nowhere
  /\ UNCHANGED << prog, phase, pos, q, head, funcs, seen, local >>

(* Mutant of Extent: every instruction is taken to be wide. *)
ExtentWide(f) == [f EXCEPT !.insns = @ + 1, !.end = MaxOf(@, cur + 2)]

Extent(f) == [f EXCEPT !.insns = @ + 1, !.end = MaxOf(@, cur + Here.width)]

(* The instruction at cur is decoded for the first time. *)
Visit ==
  /\ cur # Nowhere /\ Fresh
  /\ seen' = [seen EXCEPT ![cur] = N]
  /\ funcs' = [funcs EXCEPT ![N] = Extent(@)]
  /\ UNCHANGED << prog, phase, pos, head >>

(* Mutant of Call: what follows the call is not walked. *)
CallEnds ==
  /\ Visit
  /\ Here.cls = "call"
  /\ q' = IF Followed(Here, funcs[N].mode)
            THEN Append(q, Sq(Here.target, CalleeMode(Here, funcs[N].mode), FALSE))
            ELSE q
  /\ cur' = Nowhere
  /\ UNCHANGED local

Call ==
  /\ Visit
  /\ Here.cls = "call"
  /\ q' = IF Followed(Here, funcs[N].mode)
            THEN Append(q, Sq(Here.target, CalleeMode(Here, funcs[N].mode), FALSE))
            ELSE q
  /\ cur' = cur + Here.width
  /\ UNCHANGED local

Leave ==
  /\ Visit
  /\ Here.cls \in {"return", "indirect"}
  /\ cur' = Nowhere
  /\ UNCHANGED << q, local >>

Branches == Here.cls = "branch" /\ Here.hasTarget

Branch ==
  /\ Visit
  /\ Branches
  /\ local' = Append(local, Here.target)
  /\ cur' = IF Here.conditional THEN cur + Here.width ELSE Nowhere
  /\ UNCHANGED q

Plain ==
  /\ Visit
  /\ Here.cls \notin {"call", "return", "indirect"} /\ ~Branches
  /\ cur' = cur + Here.width
  /\ UNCHANGED << q, local >>

--------------------------------------------------------------------------------
(* shape_scan: one step per word.                                          *)

(* code_ptr_shape *)
Shaped(k) == prog.words[k] \in Text

(* The word is one of RunMin or more adjacent pointers: run_left # 0.      *)
InTable(k) ==
  \E i \in 1 .. k, j \in k .. Len(prog.words) :
    j - i + 1 >= RunMin /\ \A w \in i .. j : Shaped(w)

(* Something known decodes at the address. *)
Plausible(a) == Decodes(a, "T32") /\ Decode(a, "T32").cls # "unknown"

(* Mutant of Accepts: what was walked already is seeded again. *)
AcceptsSeen(k) ==
  LET a == prog.words[k]
  IN  Shaped(k) /\ Plausible(a) /\ (a \in prog.prologue \/ InTable(k))

(* Mutant of Accepts: a table entry needs a prologue too. *)
AcceptsPrologue(k) ==
  LET a == prog.words[k]
  IN  Shaped(k) /\ a \notin Decoded /\ Plausible(a) /\ a \in prog.prologue

Accepts(k) ==
  LET a == prog.words[k]
  IN  /\ Shaped(k) /\ a \notin Decoded
      /\ Plausible(a)
      /\ a \in prog.prologue \/ InTable(k)

Scan ==
  /\ phase = "scan" /\ pos <= Len(prog.words)
  /\ q' = IF Accepts(pos) THEN Append(q, Sq(prog.words[pos], "T32", TRUE)) ELSE q
  /\ pos' = pos + 1
  /\ UNCHANGED << prog, phase, head, funcs, seen, local, cur >>

EndScan ==
  /\ phase = "scan" /\ pos > Len(prog.words)
  /\ phase' = "redrain"
  /\ UNCHANGED << prog, pos, q, head, funcs, seen, local, cur >>

--------------------------------------------------------------------------------
Init ==
  /\ prog \in Programs
  /\ phase = "entry" /\ pos = 1
  /\ q = <<>> /\ head = 1
  /\ funcs = <<>>
  /\ seen = [a \in Text |-> 0]
  /\ local = <<>> /\ cur = Nowhere

Walk == Resume \/ Stop \/ Call \/ Leave \/ Branch \/ Plain

Next ==
  \/ SeedEntry \/ SeedExport \/ EndExports \/ Harvest \/ EndHarvest
  \/ Skip \/ Register \/ EndDrain
  \/ Walk
  \/ Scan \/ EndScan

Spec == Init /\ [][Next]_vars

(* One thread, which goes on running until vf_discover returns. *)
FairSpec == Spec /\ WF_vars(Next)

--------------------------------------------------------------------------------
(* The types of the variables. *)
TypeOK ==
  /\ prog \in Program
  /\ phase \in Phase
  /\ pos \in Nat \ {0} /\ (phase = "harvest" => pos >= Base)
  /\ q \in Seq(Seed) /\ head \in 1 .. Len(q) + 1
  /\ funcs \in Seq(Func)
  /\ seen \in [Text -> 0 .. Len(funcs)]
  /\ local \in Seq(Nat) /\ cur \in Nat \cup {Nowhere}

(* Where the walk goes on after the instruction i at a. *)
Successors(i, a) ==
  (IF i.cls = "branch" /\ i.hasTarget THEN {i.target} ELSE {})
  \cup
  (IF i.cls \in {"return", "indirect"} \/
      (i.cls = "branch" /\ i.hasTarget /\ ~i.conditional)
     THEN {} ELSE {a + i.width})

(* a still has to be looked at by the walk of function n. *)
Pending(a, n) == n = N /\ (a = cur \/ \E k \in DOMAIN local : local[k] = a)

(* No block is lost: the entry of every function, and every address its    *)
(* instructions lead to, is decoded or still on the walk's stack.  Blocks  *)
(* another function's walk reached first count as decoded (analyze.c:76).  *)
FlowClosed ==
  /\ \A n \in DOMAIN funcs :
       Decodes(funcs[n].addr, funcs[n].mode) =>
         funcs[n].addr \in Decoded \/ Pending(funcs[n].addr, n)
  /\ \A a \in Decoded :
       LET m == funcs[seen[a]].mode
       IN  \A b \in Successors(Decode(a, m), a) :
             Decodes(b, m) => b \in Decoded \/ Pending(b, seen[a])

(* A seed for a waits in the queue. *)
Queued(a) == \E k \in head .. Len(q) : q[k].addr = a

(* The emitter names a function for every call it can name: the target of  *)
(* each call decoded by a walk, and of each call the sweep met, is a       *)
(* function when discovery ends, also when some walk went through it first *)
(* (the registry comment of vf_discover).                                  *)
CalleesRegistered ==
  /\ \A a \in Decoded :
       LET m == funcs[seen[a]].mode
           i == Decode(a, m)
       IN  Followed(i, m) /\ i.target \in Text =>
             i.target \in FuncAddrs \/ Queued(i.target)
  /\ phase \notin {"entry", "exports", "harvest"} =>
       \A a \in Text :
         a + 2 <= Base + Size /\ Harvests(a) =>
           Decode(a, "T32").target \in FuncAddrs \/ Queued(Decode(a, "T32").target)

(* No address is two functions: the emitter would define a symbol twice.   *)
FunctionsDistinct ==
  \A i, j \in DOMAIN funcs : i # j => funcs[i].addr # funcs[j].addr

(* ARM is entered only where something other than a Thumb instruction      *)
(* vouches for it: an import stub, an even export, or a call in ARM code.  *)
(* One bad ARM seed walks data for ever (the comment at arm_seed_ok).      *)
ArmJustified ==
  \A n \in DOMAIN funcs : funcs[n].mode = "A32" =>
    \/ funcs[n].addr \in prog.stubs
    \/ \E k \in DOMAIN prog.exports :
         prog.exports[k] = [addr |-> funcs[n].addr, mode |-> "A32"]
    \/ \E a \in Decoded :
         LET i == Decode(a, "A32")
         IN  /\ funcs[seen[a]].mode = "A32"
             /\ i.cls = "call" /\ ~i.switches /\ i.target = funcs[n].addr

(* What the walk of function n decoded, and where each of it ends. *)
Own(n)  == { a \in Text : seen[a] = n }
Ends(n) == { a + Decode(a, funcs[n].mode).width : a \in Own(n) }

(* A function's count is that of the instructions its own walk decoded,    *)
(* each of them once, and its extent ends where the furthest of them does, *)
(* or is 0 when there are none (vf_func's end in walk): neither a block    *)
(* another walk took first nor one that did not decode stretches it.       *)
ExtentExact ==
  \A n \in DOMAIN funcs :
    /\ funcs[n].insns = Cardinality(Own(n))
    /\ IF Own(n) = {} THEN funcs[n].end = 0
       ELSE funcs[n].end \in Ends(n) /\ \A e \in Ends(n) : e <= funcs[n].end

(* The heuristic only adds: a function found by shape was not walked on    *)
(* behalf of any function the reliable seeds found.                        *)
HeuristicOnlyAdds ==
  \A n \in DOMAIN funcs : funcs[n].heur /\ seen[funcs[n].addr] # 0 =>
    \E k \in 1 .. seen[funcs[n].addr] : funcs[k].heur

(* Every plausible entry of a pointer table has been decoded when          *)
(* discovery ends, prologue or not (the comment in shape_scan_region),     *)
(* unless a reliable seed made it an ARM function that ARM cannot decode.  *)
TablesWalked ==
  phase = "done" =>
    \A k \in DOMAIN prog.words :
      InTable(k) /\ Plausible(prog.words[k]) =>
        \/ prog.words[k] \in Decoded
        \/ \E n \in DOMAIN funcs :
             /\ funcs[n].addr = prog.words[k] /\ funcs[n].mode = "A32"
             /\ ~Decodes(funcs[n].addr, "A32")

(* Discovery ends on every module: each step decodes something new or      *)
(* uses up a block, a seed or a word.                                      *)
Terminates == <>(phase = "done")

--------------------------------------------------------------------------------
(* What the comments say and the code does not do.                         *)

(* analyze.c:267: a word in a run is a function pointer and "each one      *)
(* missed is a run-time trap": every plausible entry is a function.        *)
TablesRegistered ==
  phase = "done" =>
    \A k \in DOMAIN prog.words :
      InTable(k) /\ Plausible(prog.words[k]) => prog.words[k] \in FuncAddrs
================================================================================
