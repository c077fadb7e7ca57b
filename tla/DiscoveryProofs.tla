--------------------------- MODULE DiscoveryProofs ---------------------------
(***************************************************************************)
(* What discovery guarantees for every program: no block is lost, no call  *)
(* the emitter can name is left without a function, ARM is entered only    *)
(* where it is vouched for, extents are exact, and the shape scan adds to  *)
(* what the reliable seeds found and misses no entry of a table.           *)
(***************************************************************************)
EXTENDS Discovery, SequenceTheorems, FiniteSetTheorems, TLAPS

USE TextAssumption

(* A walk belongs to the function registered last. *)
WalkInv == Walking => funcs # <<>>

(* While the sweep runs, what it has passed is queued. *)
HarvestInv ==
  phase = "harvest" =>
    \A a \in Text :
      a < pos /\ a + 2 <= Base + Size /\ Harvests(a) =>
        Decode(a, "T32").target \in FuncAddrs \/ Queued(Decode(a, "T32").target)

DiscInv ==
  TypeOK /\ WalkInv /\ FunctionsDistinct /\ FlowClosed /\ HarvestInv /\ CalleesRegistered

--------------------------------------------------------------------------------
(* Types.                                                                  *)

LEMMA DecodeType ==
  ASSUME TypeOK, NEW a \in Text, NEW m \in Mode
  PROVE  /\ Decode(a, m).width \in 0 .. 2
         /\ Decode(a, m).target \in Nat
         /\ Decode(a, m).cls \in Class
  BY DEF TypeOK, Program, Decode, Insn

LEMMA FuncType ==
  ASSUME TypeOK, NEW n \in DOMAIN funcs
  PROVE  /\ funcs[n] \in Func
         /\ funcs[n].addr \in Text /\ funcs[n].mode \in Mode
         /\ funcs[n].end \in Nat /\ funcs[n].insns \in Nat
<1>1. funcs \in Seq(Func) /\ n \in 1 .. Len(funcs)
  BY LenProperties DEF TypeOK
<1>2. funcs[n] \in Func
  BY <1>1, ElementOfSeq
<1>3. QED
  BY <1>2 DEF Func

(* What decoding the instruction at cur changes. *)
LEMMA VisitStep ==
  ASSUME TypeOK, WalkInv, Visit
  PROVE  /\ cur \in Text /\ cur \in Nat /\ N \in DOMAIN funcs
         /\ Here.width \in 0 .. 2 /\ Here.target \in Nat
         /\ funcs' \in Seq(Func) /\ Len(funcs') = Len(funcs)
         /\ DOMAIN funcs' = DOMAIN funcs
         /\ \A n \in DOMAIN funcs :
              funcs'[n].addr = funcs[n].addr /\ funcs'[n].mode = funcs[n].mode
         /\ seen[cur] = 0 /\ seen' = [seen EXCEPT ![cur] = N]
         /\ seen' \in [Text -> 0 .. Len(funcs)]
<1>1. /\ cur \in Text /\ cur \in Nat /\ seen[cur] = 0
      /\ seen' = [seen EXCEPT ![cur] = N]
  BY DEF Visit, Fresh, Text
<1>2. funcs # <<>> /\ funcs \in Seq(Func) /\ seen \in [Text -> 0 .. Len(funcs)]
  BY DEF Visit, WalkInv, Walking, TypeOK
<1>3. N \in DOMAIN funcs /\ N \in Nat \ {0}
  BY <1>2 DEF N
<1>4. Here.width \in 0 .. 2 /\ Here.target \in Nat
  BY <1>1, <1>3, FuncType, DecodeType DEF Here
<1>5. /\ Extent(funcs[N]) \in Func
      /\ Extent(funcs[N]).addr = funcs[N].addr
      /\ Extent(funcs[N]).mode = funcs[N].mode
  <2>1. funcs[N] \in Func /\ funcs[N].end \in Nat /\ funcs[N].insns \in Nat
    BY <1>3, FuncType
  <2>2. cur + Here.width \in Nat
    BY <1>1, <1>4
  <2>3. MaxOf(funcs[N].end, cur + Here.width) \in Nat
    BY <2>1, <2>2 DEF MaxOf
  <2>4. funcs[N].insns + 1 \in Nat
    BY <2>1
  <2> DEFINE f == funcs[N]
             end == MaxOf(f.end, cur + Here.width)
             count == f.insns + 1
  <2>5. Extent(f) = [[f EXCEPT !.insns = count] EXCEPT !.end = end]
    BY DEF Extent
  <2> HIDE DEF f, end, count
  <2>6. f \in Func /\ end \in Nat /\ count \in Nat
    BY <2>1, <2>3, <2>4 DEF f, end, count
  <2>7. /\ [[f EXCEPT !.insns = count] EXCEPT !.end = end] \in Func
        /\ [[f EXCEPT !.insns = count] EXCEPT !.end = end].addr = f.addr
        /\ [[f EXCEPT !.insns = count] EXCEPT !.end = end].mode = f.mode
    BY <2>6 DEF Func
  <2>8. QED
    BY <2>5, <2>7 DEF f
<1>6. funcs' = [funcs EXCEPT ![N] = Extent(funcs[N])]
  BY DEF Visit
<1>7. funcs' \in Seq(Func) /\ Len(funcs') = Len(funcs) /\ DOMAIN funcs' = DOMAIN funcs
  BY <1>2, <1>3, <1>5, <1>6
<1>8. \A n \in DOMAIN funcs :
        funcs'[n].addr = funcs[n].addr /\ funcs'[n].mode = funcs[n].mode
  BY <1>2, <1>3, <1>5, <1>6
<1>9. seen' \in [Text -> 0 .. Len(funcs)]
  BY <1>1, <1>2, <1>3 DEF N
<1>10. QED
  BY <1>1, <1>3, <1>4, <1>7, <1>8, <1>9

(* q is unchanged, or one seed longer. *)
Queues == q' = q \/ \E s \in Seed : q' = Append(q, s)

LEMMA QueueGrows ==
  ASSUME TypeOK, Queues
  PROVE  /\ q' \in Seq(Seed) /\ Len(q') >= Len(q)
         /\ \A k \in 1 .. Len(q) : q'[k] = q[k]
         /\ head \in 1 .. Len(q') + 1
<1>1. q \in Seq(Seed) /\ Len(q) \in Nat /\ head \in 1 .. Len(q) + 1
  BY LenProperties DEF TypeOK
<1>2. CASE q' = q
  BY <1>1, <1>2
<1>3. ASSUME NEW s \in Seed, q' = Append(q, s)
      PROVE  /\ q' \in Seq(Seed) /\ Len(q') = Len(q) + 1
             /\ \A k \in 1 .. Len(q) : q'[k] = q[k]
  BY <1>1, <1>3, AppendProperties
<1>4. QED
  BY <1>1, <1>2, <1>3 DEF Queues

LEMMA SeedType ==
  ASSUME NEW a \in Nat, NEW m \in Mode, NEW h \in BOOLEAN
  PROVE  Sq(a, m, h) \in Seed /\ Sq(a, m, h).addr = a
  BY DEF Sq, Seed

LEMMA CalleeModeType ==
  ASSUME NEW i, NEW m \in Mode
  PROVE  CalleeMode(i, m) \in Mode
  BY DEF CalleeMode, Mode

(* Every action that touches the queue puts well formed seeds at its end.  *)
LEMMA ActionQueues ==
  ASSUME TypeOK, WalkInv,
         \/ SeedEntry \/ SeedExport \/ Harvest \/ Scan \/ Call
  PROVE  Queues
<1>0. prog \in Program /\ pos \in Nat \ {0}
  BY DEF TypeOK
<1>1. CASE SeedEntry
  <2>1. prog.entry \in Nat \cup {Nowhere}
    BY <1>0 DEF Program
  <2>2. prog.entry # Nowhere => Sq(prog.entry, "T32", FALSE) \in Seed
    BY <2>1, SeedType DEF Mode
  <2>3. QED
    BY <1>1, <2>2 DEF SeedEntry, Queues
<1>2. CASE SeedExport
  <2>1. prog.exports \in Seq([addr : Nat, mode : Mode])
    BY <1>0 DEF Program
  <2>2. pos \in DOMAIN prog.exports
    BY <1>0, <1>2, <2>1 DEF SeedExport
  <2>3. prog.exports[pos] \in [addr : Nat, mode : Mode]
    BY <2>1, <2>2, LenProperties, ElementOfSeq
  <2>4. Sq(prog.exports[pos].addr, prog.exports[pos].mode, FALSE) \in Seed
    BY <2>3, SeedType
  <2>5. QED
    BY <1>2, <2>4 DEF SeedExport, Queues
<1>3. CASE Harvest
  <2>1. pos \in Text
    BY <1>0, <1>3 DEF Harvest, Text, TypeOK
  <2>2. "T32" \in Mode
    BY DEF Mode
  <2>3. Sq(Decode(pos, "T32").target, CalleeMode(Decode(pos, "T32"), "T32"), FALSE) \in Seed
    BY <2>1, <2>2, DecodeType, CalleeModeType, SeedType
  <2>4. QED
    BY <1>3, <2>3 DEF Harvest, Queues
<1>4. CASE Scan
  <2>1. prog.words \in Seq(Nat) /\ "T32" \in Mode
    BY <1>0 DEF Program, Mode
  <2>2. prog.words[pos] \in Nat
    BY <1>0, <1>4, <2>1 DEF Scan
  <2>3. Sq(prog.words[pos], "T32", TRUE) \in Seed
    BY <2>1, <2>2, SeedType
  <2>4. QED
    BY <1>4, <2>3 DEF Scan, Queues
<1>5. CASE Call
  <2>1. Here.target \in Nat /\ N \in DOMAIN funcs
    BY <1>5, VisitStep DEF Call
  <2>2. CalleeMode(Here, funcs[N].mode) \in Mode
    BY <2>1, FuncType, CalleeModeType
  <2>3. Sq(Here.target, CalleeMode(Here, funcs[N].mode), FALSE) \in Seed
    BY <2>1, <2>2, SeedType
  <2>4. QED
    BY <1>5, <2>3 DEF Call, Queues
<1>6. QED
  BY <1>1, <1>2, <1>3, <1>4, <1>5

LEMMA InitInv == Init => DiscInv
<1> SUFFICES ASSUME Init PROVE DiscInv
  OBVIOUS
<1>1. TypeOK
  BY ProgramAssumption DEF Init, TypeOK, Phase, Nowhere
<1>2. FuncAddrs = {} /\ Decoded = {} /\ funcs = <<>>
  BY DEF Init, FuncAddrs, Decoded
<1>3. WalkInv /\ HarvestInv
  BY DEF Init, WalkInv, Walking, HarvestInv
<1>4. FunctionsDistinct /\ FlowClosed /\ CalleesRegistered
  BY <1>2 DEF FunctionsDistinct, FlowClosed, CalleesRegistered, Init
<1>5. QED
  BY <1>1, <1>3, <1>4 DEF DiscInv

LEMMA TypeStep ==
  ASSUME TypeOK, WalkInv, [Next]_vars
  PROVE  TypeOK' /\ WalkInv'
<1> USE DEF Phase
<1>0. /\ q \in Seq(Seed) /\ head \in 1 .. Len(q) + 1
      /\ pos \in Nat \ {0} /\ (phase = "harvest" => pos >= Base)
      /\ funcs \in Seq(Func) /\ seen \in [Text -> 0 .. Len(funcs)]
      /\ local \in Seq(Nat) /\ cur \in Nat \cup {Nowhere} /\ prog \in Program
      /\ phase \in Phase
  BY DEF TypeOK
<1>1. CASE SeedEntry \/ SeedExport \/ Harvest \/ Scan
  <2>1. q' \in Seq(Seed) /\ head \in 1 .. Len(q') + 1
    BY <1>1, ActionQueues, QueueGrows
  <2>2. /\ pos' \in Nat \ {0} /\ (phase' = "harvest" => pos' >= Base)
        /\ phase' \in Phase
    <3>1. \/ phase' = "exports" /\ pos' = 1
          \/ phase' = phase /\ pos' = pos + 1
      BY <1>1 DEF SeedEntry, SeedExport, Harvest, Scan
    <3>2. pos \in Nat /\ pos + 1 \in Nat \ {0} /\ (pos >= Base => pos + 1 >= Base)
      BY <1>0
    <3>3. QED
      BY <1>0, <3>1, <3>2
  <2>3. UNCHANGED << prog, head, funcs, seen, local, cur >>
    BY <1>1 DEF SeedEntry, SeedExport, Harvest, Scan
  <2>4. QED
    BY <1>0, <2>1, <2>2, <2>3 DEF TypeOK, WalkInv, Walking
<1>2. CASE EndExports \/ EndHarvest \/ EndDrain \/ EndScan
  BY SMTT(30), <1>0, <1>2 DEF EndExports, EndHarvest, EndDrain, EndScan, TypeOK, WalkInv, Walking
<1>3. CASE Skip
  BY <1>0, <1>3 DEF Skip, Taking, TypeOK, WalkInv, Walking
<1>4. CASE Register
  <2>1. q[head] \in Seed /\ q[head].addr \in Text
    BY <1>0, <1>4 DEF Register, Taking
  <2>2. NewFunc(q[head]) \in Func /\ << q[head].addr >> \in Seq(Nat)
    BY <2>1 DEF NewFunc, Func, Seed
  <2>3. /\ funcs' \in Seq(Func) /\ Len(funcs') = Len(funcs) + 1
        /\ seen' \in [Text -> 0 .. Len(funcs')]
    BY <1>0, <1>4, <2>2 DEF Register
  <2>4. head' \in 1 .. Len(q') + 1 /\ funcs' # <<>>
    BY <1>0, <1>4, <2>3 DEF Register, Taking
  <2>5. QED
    BY <1>0, <1>4, <2>2, <2>3, <2>4 DEF Register, TypeOK, WalkInv
<1>5. CASE Resume
  <2>1. local[Len(local)] \in Nat /\ SubSeq(local, 1, Len(local) - 1) \in Seq(Nat)
    BY SMTT(30), <1>0, <1>5 DEF Resume
  <2>2. funcs # <<>>
    BY <1>5 DEF Resume, WalkInv, Walking
  <2>3. QED
    BY <1>0, <1>5, <2>1, <2>2 DEF Resume, TypeOK, WalkInv
<1>6. CASE Stop
  BY <1>0, <1>6 DEF Stop, TypeOK, WalkInv, Walking
<1>7. CASE Call \/ Leave \/ Branch \/ Plain
  <2>1. Visit
    BY <1>7 DEF Call, Leave, Branch, Plain
  <2>2. q' \in Seq(Seed) /\ head \in 1 .. Len(q') + 1
    <3>1. CASE Call
      BY <3>1, ActionQueues, QueueGrows
    <3>2. CASE Leave \/ Branch \/ Plain
      BY <3>2, <1>0 DEF Leave, Branch, Plain
    <3>3. QED
      BY <1>7, <3>1, <3>2
  <2>3. /\ Here.width \in 0 .. 2 /\ Here.target \in Nat /\ cur \in Nat
        /\ funcs' \in Seq(Func) /\ Len(funcs') = Len(funcs) /\ funcs # <<>>
        /\ seen' \in [Text -> 0 .. Len(funcs')]
    BY <2>1, VisitStep
  <2>4. local' \in Seq(Nat) /\ cur' \in Nat \cup {Nowhere}
    <3>1. cur + Here.width \in Nat
      BY <2>3
    <3>2. cur' \in {cur + Here.width, Nowhere}
      BY <1>7 DEF Call, Leave, Branch, Plain
    <3>3. local' = local \/ local' = Append(local, Here.target)
      BY <1>7 DEF Call, Leave, Branch, Plain
    <3>4. Append(local, Here.target) \in Seq(Nat)
      BY <1>0, <2>3, AppendProperties
    <3>5. QED
      BY <1>0, <3>1, <3>2, <3>3, <3>4
  <2>5. funcs' # <<>>
    BY <1>0, <2>3
  <2>6. UNCHANGED << prog, phase, pos, head >>
    BY <2>1 DEF Visit
  <2>7. QED
    BY <1>0, <2>2, <2>3, <2>4, <2>5, <2>6 DEF TypeOK, WalkInv
<1>8. CASE UNCHANGED vars
  BY <1>0, <1>8 DEF vars, TypeOK, WalkInv, Walking
<1>9. QED
  BY <1>1, <1>2, <1>3, <1>4, <1>5, <1>6, <1>7, <1>8 DEF Next, Walk

(* Every variable keeps its type, for every segment and program. *)
THEOREM TypeCorrect == Spec => []TypeOK
<1>1. Init => TypeOK /\ WalkInv
  BY InitInv DEF DiscInv
<1>2. TypeOK /\ WalkInv /\ [Next]_vars => (TypeOK /\ WalkInv)'
  BY TypeStep
<1>3. QED
  BY <1>1, <1>2, PTL DEF Spec

--------------------------------------------------------------------------------
(* Registration.                                                           *)

(* A registered function is a new last element of funcs. *)
LEMMA RegisterStep ==
  ASSUME TypeOK, Register
  PROVE  /\ q[head] \in Seed /\ q[head].addr \in Text /\ q[head].addr \notin FuncAddrs
         /\ Len(funcs) \in Nat /\ Len(funcs') = Len(funcs) + 1
         /\ \A n \in DOMAIN funcs : n \in DOMAIN funcs' /\ funcs'[n] = funcs[n]
         /\ \A n \in DOMAIN funcs' : n \in DOMAIN funcs \/ n = Len(funcs) + 1
         /\ funcs'[Len(funcs) + 1].addr = q[head].addr
         /\ local' = << q[head].addr >>
<1>1. /\ funcs \in Seq(Func) /\ q \in Seq(Seed) /\ head \in 1 .. Len(q) + 1
  BY DEF TypeOK
<1>2. /\ head \in 1 .. Len(q) /\ q[head].addr \in Text /\ ~Known(q[head].addr)
  BY <1>1 DEF Register, Taking
<1>3. q[head] \in Seed
  BY <1>1, <1>2, ElementOfSeq
<1>4. NewFunc(q[head]) \in Func /\ NewFunc(q[head]).addr = q[head].addr
  BY <1>2, <1>3 DEF NewFunc, Func, Seed
<1>5. funcs' = Append(funcs, NewFunc(q[head])) /\ local' = << q[head].addr >>
  BY DEF Register
<1>6. /\ funcs' \in Seq(Func) /\ Len(funcs') = Len(funcs) + 1
      /\ \A n \in 1 .. Len(funcs) : funcs'[n] = funcs[n]
      /\ funcs'[Len(funcs) + 1] = NewFunc(q[head])
  BY <1>1, <1>4, <1>5, AppendProperties
<1>7. /\ DOMAIN funcs = 1 .. Len(funcs) /\ DOMAIN funcs' = 1 .. Len(funcs')
      /\ Len(funcs) \in Nat
  BY <1>1, <1>6, LenProperties
<1>8. QED
  BY <1>2, <1>3, <1>4, <1>5, <1>6, <1>7 DEF Known

(* Steps that leave the registry alone, or only update an extent. *)
SameFuncs ==
  /\ DOMAIN funcs' = DOMAIN funcs
  /\ \A n \in DOMAIN funcs :
       funcs'[n].addr = funcs[n].addr /\ funcs'[n].mode = funcs[n].mode

LEMMA OtherSteps ==
  ASSUME TypeOK, WalkInv, [Next]_vars, ~Register
  PROVE  SameFuncs
<1>1. CASE Call \/ Leave \/ Branch \/ Plain
  <2>1. Visit
    BY <1>1 DEF Call, Leave, Branch, Plain
  <2>2. QED
    BY <2>1, VisitStep DEF SameFuncs
<1>2. CASE ~(Call \/ Leave \/ Branch \/ Plain)
  <2>1. funcs' = funcs
    BY <1>2 DEF Next, Walk, vars, SeedEntry, SeedExport, EndExports, Harvest, EndHarvest,
                Skip, EndDrain, Resume, Stop, Scan, EndScan
  <2>2. QED
    BY <2>1 DEF SameFuncs
<1>3. QED
  BY <1>1, <1>2

LEMMA DistinctStep ==
  ASSUME TypeOK, WalkInv, FunctionsDistinct, [Next]_vars
  PROVE  FunctionsDistinct'
<1>1. CASE Register
  BY <1>1, RegisterStep DEF FunctionsDistinct, FuncAddrs
<1>2. CASE ~Register
  BY <1>2, OtherSteps DEF FunctionsDistinct, SameFuncs
<1>3. QED
  BY <1>1, <1>2

(* No address is registered as two functions. *)
THEOREM FunctionsStayDistinct == Spec => []FunctionsDistinct
<1>1. Init => TypeOK /\ WalkInv /\ FunctionsDistinct
  BY InitInv DEF DiscInv
<1>2. TypeOK /\ WalkInv /\ FunctionsDistinct /\ [Next]_vars
        => (TypeOK /\ WalkInv /\ FunctionsDistinct)'
  BY TypeStep, DistinctStep
<1>3. QED
  BY <1>1, <1>2, PTL DEF Spec

--------------------------------------------------------------------------------
(* No block is lost.                                                       *)

LEMMA OwnerType ==
  ASSUME TypeOK, NEW a \in Decoded
  PROVE  a \in Text /\ seen[a] \in DOMAIN funcs /\ funcs[seen[a]].mode \in Mode
<1>1. seen \in [Text -> 0 .. Len(funcs)] /\ funcs \in Seq(Func)
  BY DEF TypeOK
<1>2. a \in Text /\ seen[a] \in 1 .. Len(funcs)
  BY <1>1 DEF Decoded
<1>3. seen[a] \in DOMAIN funcs
  BY <1>1, <1>2, LenProperties
<1>4. QED
  BY <1>2, <1>3, FuncType

(* Steps that decode nothing may drop only what need not be walked.        *)
LEMMA FlowKept ==
  ASSUME TypeOK, FlowClosed, UNCHANGED << prog, seen >>, SameFuncs,
         \A n \in DOMAIN funcs, b \in Text :
           Decodes(b, funcs[n].mode) /\ Pending(b, n) => b \in Decoded \/ Pending(b, n)'
  PROVE  FlowClosed'
<1>1. /\ Decoded' = Decoded
      /\ \A a, m : Decode(a, m)' = Decode(a, m) /\ Decodes(a, m)' = Decodes(a, m)
  BY DEF Decoded, Decode, Decodes
<1>2. ASSUME NEW n \in DOMAIN funcs', Decodes(funcs[n].addr, funcs[n].mode)'
      PROVE  funcs'[n].addr \in Decoded' \/ Pending(funcs[n].addr, n)'
  <2>1. n \in DOMAIN funcs /\ funcs'[n].addr = funcs[n].addr /\ funcs'[n].mode = funcs[n].mode
    BY DEF SameFuncs
  <2>2. Decodes(funcs[n].addr, funcs[n].mode) /\ funcs[n].addr \in Text
    BY <1>1, <1>2, <2>1 DEF Decodes
  <2>3. funcs[n].addr \in Decoded \/ Pending(funcs[n].addr, n)
    BY <2>1, <2>2 DEF FlowClosed
  <2>4. QED
    BY <1>1, <2>1, <2>2, <2>3
<1>3. ASSUME NEW a \in Decoded',
             NEW b \in Successors(Decode(a, funcs[seen[a]].mode), a)',
             Decodes(b, funcs[seen[a]].mode)'
      PROVE  b \in Decoded' \/ Pending(b, seen[a])'
  <2>1. a \in Decoded /\ seen'[a] = seen[a] /\ seen[a] \in DOMAIN funcs
    BY <1>1, OwnerType
  <2>2. funcs'[seen'[a]].mode = funcs[seen[a]].mode
    BY <2>1 DEF SameFuncs
  <2>3. /\ b \in Successors(Decode(a, funcs[seen[a]].mode), a)
        /\ Decodes(b, funcs[seen[a]].mode) /\ b \in Text
    BY <1>1, <1>3, <2>2 DEF Decodes
  <2>4. b \in Decoded \/ Pending(b, seen[a])
    BY <2>1, <2>3 DEF FlowClosed
  <2>5. QED
    BY <1>1, <2>1, <2>3, <2>4
<1>4. QED
  BY <1>2, <1>3 DEF FlowClosed

LEMMA FlowRegister ==
  ASSUME TypeOK, FlowClosed, Register
  PROVE  FlowClosed'
<1>1. /\ cur = Nowhere /\ local = <<>> /\ UNCHANGED << prog, seen >>
  BY DEF Register, Taking, Walking
<1>2. /\ Decoded' = Decoded
      /\ \A a, m : Decode(a, m)' = Decode(a, m) /\ Decodes(a, m)' = Decodes(a, m)
  BY <1>1 DEF Decoded, Decode, Decodes
<1>3. ASSUME NEW b \in Text, NEW n, Pending(b, n)
      PROVE  FALSE
  BY <1>1, <1>3 DEF Pending, Nowhere, Text
<1>4. ASSUME NEW n \in DOMAIN funcs', Decodes(funcs[n].addr, funcs[n].mode)'
      PROVE  funcs'[n].addr \in Decoded' \/ Pending(funcs[n].addr, n)'
  <2>1. CASE n \in DOMAIN funcs
    <3>1. Decodes(funcs[n].addr, funcs[n].mode) /\ funcs[n].addr \in Text
      BY <1>2, <1>4, <2>1, RegisterStep DEF Decodes
    <3>2. funcs[n].addr \in Decoded
      BY <1>3, <2>1, <3>1 DEF FlowClosed
    <3>3. QED
      BY <1>2, <2>1, <3>2, RegisterStep
  <2>2. CASE n = Len(funcs) + 1
    <3>1. n = N' /\ local' = << funcs'[n].addr >>
      BY <2>2, RegisterStep DEF N
    <3>2. 1 \in DOMAIN local' /\ local'[1] = funcs'[n].addr
      BY <3>1
    <3>3. QED
      BY <3>1, <3>2 DEF Pending
  <2>3. QED
    BY <2>1, <2>2, RegisterStep
<1>5. ASSUME NEW a \in Decoded',
             NEW b \in Successors(Decode(a, funcs[seen[a]].mode), a)',
             Decodes(b, funcs[seen[a]].mode)'
      PROVE  b \in Decoded'
  <2>1. a \in Decoded /\ seen'[a] = seen[a] /\ seen[a] \in DOMAIN funcs
    BY <1>1, <1>2, OwnerType
  <2>2. funcs'[seen'[a]] = funcs[seen[a]]
    BY <2>1, RegisterStep
  <2>3. /\ b \in Successors(Decode(a, funcs[seen[a]].mode), a)
        /\ Decodes(b, funcs[seen[a]].mode) /\ b \in Text
    BY <1>2, <1>5, <2>2 DEF Decodes
  <2>4. b \in Decoded
    BY <1>3, <2>1, <2>3 DEF FlowClosed
  <2>5. QED
    BY <1>2, <2>4
<1>6. QED
  BY <1>4, <1>5 DEF FlowClosed

(* An instruction is decoded, and what it leads to is put on the walk.     *)
LEMMA FlowVisit ==
  ASSUME TypeOK, WalkInv, FlowClosed, Visit,
         \A k \in DOMAIN local : \E j \in DOMAIN local' : local'[j] = local[k],
         \A b \in Successors(Here, cur) :
           b = cur' \/ \E j \in DOMAIN local' : local'[j] = b
  PROVE  FlowClosed'
<1>1. /\ cur \in Text /\ N \in DOMAIN funcs /\ seen[cur] = 0
      /\ seen' = [seen EXCEPT ![cur] = N] /\ seen \in [Text -> 0 .. Len(funcs)]
      /\ DOMAIN funcs' = DOMAIN funcs /\ N' = N /\ UNCHANGED prog
  BY VisitStep DEF N, Visit, TypeOK
<1>2. \A n \in DOMAIN funcs :
        funcs'[n].addr = funcs[n].addr /\ funcs'[n].mode = funcs[n].mode
  BY VisitStep
<1>3. N # 0
  BY <1>1 DEF TypeOK
<1>4. /\ Decoded' = Decoded \cup {cur} /\ seen'[cur] = N
      /\ \A a \in Decoded : a # cur /\ seen'[a] = seen[a]
  BY <1>1, <1>3 DEF Decoded
<1>5. \A a, m : Decode(a, m)' = Decode(a, m) /\ Decodes(a, m)' = Decodes(a, m)
  BY <1>1 DEF Decode, Decodes
<1>6. ASSUME NEW b, NEW n, Pending(b, n)
      PROVE  b \in Decoded' \/ Pending(b, n)'
  BY <1>1, <1>4, <1>6 DEF Pending
<1>7. ASSUME NEW n \in DOMAIN funcs', Decodes(funcs[n].addr, funcs[n].mode)'
      PROVE  funcs'[n].addr \in Decoded' \/ Pending(funcs[n].addr, n)'
  <2>1. n \in DOMAIN funcs /\ Decodes(funcs[n].addr, funcs[n].mode)
    BY <1>1, <1>2, <1>5, <1>7
  <2>2. funcs[n].addr \in Decoded \/ Pending(funcs[n].addr, n)
    BY <2>1 DEF FlowClosed
  <2>3. QED
    BY <1>2, <1>4, <1>6, <2>1, <2>2
<1>8. ASSUME NEW a \in Decoded',
             NEW b \in Successors(Decode(a, funcs[seen[a]].mode), a)',
             Decodes(b, funcs[seen[a]].mode)'
      PROVE  b \in Decoded' \/ Pending(b, seen[a])'
  <2>1. CASE a = cur
    <3>1. seen'[a] = N /\ funcs'[seen'[a]].mode = funcs[N].mode
      BY <1>1, <1>2, <1>4, <2>1
    <3>2. b \in Successors(Here, cur)
      BY <1>5, <1>8, <2>1, <3>1 DEF Here
    <3>3. QED
      BY <1>1, <3>1, <3>2 DEF Pending
  <2>2. CASE a \in Decoded
    <3>1. seen'[a] = seen[a] /\ seen[a] \in DOMAIN funcs
      BY <1>4, <2>2, OwnerType
    <3>2. /\ b \in Successors(Decode(a, funcs[seen[a]].mode), a)
          /\ Decodes(b, funcs[seen[a]].mode)
      BY <1>2, <1>5, <1>8, <3>1
    <3>3. b \in Decoded \/ Pending(b, seen[a])
      BY <2>2, <3>2 DEF FlowClosed
    <3>4. QED
      BY <1>4, <1>6, <3>1, <3>3
  <2>3. QED
    BY <1>4, <2>1, <2>2
<1>9. QED
  BY <1>7, <1>8 DEF FlowClosed

LEMMA FlowStep ==
  ASSUME TypeOK, WalkInv, FlowClosed, [Next]_vars
  PROVE  FlowClosed'
<1>0. local \in Seq(Nat)
  BY DEF TypeOK
<1>1. CASE Register
  BY <1>1, FlowRegister
<1>2. CASE Resume
  <2>1. Len(local) \in Nat \ {0} /\ DOMAIN local = 1 .. Len(local)
    BY <1>0, <1>2 DEF Resume
  <2>2. /\ Len(local') = Len(local) - 1 /\ DOMAIN local' = 1 .. Len(local')
        /\ \A k \in 1 .. Len(local) - 1 : local'[k] = local[k]
    <3>1. \A k \in 1 .. Len(local) - 1 : local[k] \in Nat
      BY <1>0, <2>1
    <3>2. local' = SubSeq(local, 1, Len(local) - 1)
      BY <1>2 DEF Resume
    <3>3. QED
      BY <2>1, <3>1, <3>2
  <2>3. cur = Nowhere /\ cur' = local[Len(local)] /\ UNCHANGED << prog, funcs, seen >>
    BY <1>2 DEF Resume
  <2>4. \A n \in DOMAIN funcs, b \in Text : Pending(b, n) => Pending(b, n)'
    <3>1. SUFFICES ASSUME NEW n \in DOMAIN funcs, NEW b \in Text, Pending(b, n)
                   PROVE  Pending(b, n)'
      OBVIOUS
    <3>2. n = N' /\ b # cur
      BY <2>3, <3>1 DEF Pending, N, Nowhere, Text
    <3>3. PICK k \in 1 .. Len(local) : local[k] = b
      BY <2>1, <3>1, <3>2 DEF Pending
    <3>4. CASE k = Len(local)
      BY <2>3, <3>2, <3>3, <3>4 DEF Pending
    <3>5. CASE k \in 1 .. Len(local) - 1
      BY <2>2, <3>2, <3>3, <3>5 DEF Pending
    <3>6. k = Len(local) \/ k \in 1 .. Len(local) - 1
      <4> DEFINE n0 == Len(local)
      <4>1. n0 \in Nat \ {0} /\ k \in 1 .. n0
        BY <2>1, <3>3
      <4> HIDE DEF n0
      <4>2. k = n0 \/ k \in 1 .. n0 - 1
        BY <4>1
      <4>3. QED
        BY <4>2 DEF n0
    <3>7. QED
      BY <3>4, <3>5, <3>6
  <2>5. QED
    BY <2>3, <2>4, FlowKept DEF SameFuncs
<1>3. CASE Stop
  <2>1. ~Fresh /\ UNCHANGED << prog, funcs, seen, local >>
    BY <1>3 DEF Stop
  <2>2. \A n \in DOMAIN funcs, b \in Text :
          Decodes(b, funcs[n].mode) /\ Pending(b, n) => b \in Decoded \/ Pending(b, n)'
    BY <2>1 DEF Pending, Fresh, Decoded, N
  <2>3. QED
    BY <2>1, <2>2, FlowKept DEF SameFuncs
<1>4. CASE Call \/ Leave \/ Branch \/ Plain
  <2>1. Visit
    BY <1>4 DEF Call, Leave, Branch, Plain
  <2>2. Here.target \in Nat
    BY <2>1, VisitStep
  <2>3. /\ \A k \in DOMAIN local : \E j \in DOMAIN local' : local'[j] = local[k]
        /\ Here.cls = "branch" /\ Here.hasTarget =>
             \E j \in DOMAIN local' : local'[j] = Here.target
    <3>1. CASE Call \/ Leave \/ Plain
      BY <3>1 DEF Call, Leave, Plain, Branches
    <3>2. CASE Branch
      <4>1. local' = Append(local, Here.target)
        BY <3>2 DEF Branch
      <4>2. /\ local' \in Seq(Nat) /\ Len(local') = Len(local) + 1
            /\ \A j \in 1 .. Len(local) : local'[j] = local[j]
            /\ local'[Len(local) + 1] = Here.target
        BY <1>0, <2>2, <4>1, AppendProperties
      <4>3. DOMAIN local = 1 .. Len(local) /\ DOMAIN local' = 1 .. Len(local')
            /\ Len(local) \in Nat
        BY <1>0, <4>2, LenProperties
      <4>4. QED
        BY <4>2, <4>3
    <3>3. QED
      BY <1>4, <3>1, <3>2
  <2>4. \A b \in Successors(Here, cur) :
          b = cur' \/ (Here.cls = "branch" /\ Here.hasTarget /\ b = Here.target)
    BY <1>4 DEF Successors, Call, Leave, Branch, Plain, Branches
  <2>5. QED
    BY <2>1, <2>3, <2>4, FlowVisit
<1>5. CASE ~(Register \/ Resume \/ Stop \/ Call \/ Leave \/ Branch \/ Plain)
  <2>1. UNCHANGED << prog, funcs, seen, local, cur >>
    BY <1>5 DEF Next, Walk, vars, SeedEntry, SeedExport, EndExports, Harvest, EndHarvest,
                Skip, EndDrain, Scan, EndScan
  <2>2. \A n, b : Pending(b, n)' = Pending(b, n)
    BY <2>1 DEF Pending, N
  <2>3. QED
    BY <2>1, <2>2, FlowKept DEF SameFuncs
<1>6. QED
  BY <1>1, <1>2, <1>3, <1>4, <1>5

(* Every address a decoded instruction leads to is decoded too, or still   *)
(* on the stack of the walk that decoded it.                               *)
THEOREM NoBlockLost == Spec => []FlowClosed
<1>1. Init => TypeOK /\ WalkInv /\ FlowClosed
  BY InitInv DEF DiscInv
<1>2. TypeOK /\ WalkInv /\ FlowClosed /\ [Next]_vars
        => (TypeOK /\ WalkInv /\ FlowClosed)'
  BY TypeStep, FlowStep
<1>3. QED
  BY <1>1, <1>2, PTL DEF Spec

--------------------------------------------------------------------------------
(* Every call the emitter can name has a function.                         *)

(* A call target that is a function or a seed.                             *)
Promised(a) == a \in FuncAddrs \/ Queued(a)

(* No step takes a promise back. *)
LEMMA PromisesKept ==
  ASSUME TypeOK, WalkInv, [Next]_vars, NEW a \in Text, Promised(a)
  PROVE  Promised(a)'
<1>0. q \in Seq(Seed) /\ Len(q) \in Nat /\ head \in 1 .. Len(q) + 1
  BY LenProperties DEF TypeOK
<1>1. CASE Register
  <2>1. FuncAddrs \subseteq FuncAddrs'
    BY <1>1, RegisterStep DEF FuncAddrs
  <2>2. q[head].addr \in FuncAddrs'
    <3>1. /\ funcs'[Len(funcs) + 1].addr = q[head].addr
          /\ Len(funcs) + 1 \in DOMAIN funcs'
      BY SMTT(30), <1>1, RegisterStep, TypeStep, LenProperties DEF TypeOK
    <3>2. QED
      BY <3>1 DEF FuncAddrs
  <2>3. UNCHANGED q /\ head' = head + 1
    BY <1>1 DEF Register
  <2>4. Queued(a) => a = q[head].addr \/ Queued(a)'
    BY <1>0, <2>3 DEF Queued
  <2>5. QED
    BY <2>1, <2>2, <2>4 DEF Promised
<1>2. CASE Skip
  <2>1. q[head].addr \notin Text \/ q[head].addr \in FuncAddrs
    BY <1>2 DEF Skip, Known
  <2>2. UNCHANGED << q, funcs >> /\ head' = head + 1
    BY <1>2 DEF Skip
  <2>3. Queued(a) => a = q[head].addr \/ Queued(a)'
    BY <1>0, <2>2 DEF Queued
  <2>4. FuncAddrs' = FuncAddrs
    BY <2>2 DEF FuncAddrs
  <2>5. QED
    BY <2>1, <2>3, <2>4 DEF Promised
<1>3. CASE ~Register /\ ~Skip
  <2>1. FuncAddrs' = FuncAddrs
    BY <1>3, OtherSteps DEF FuncAddrs, SameFuncs
  <2>2. head' = head
    BY <1>3 DEF Next, Walk, vars, SeedEntry, SeedExport, EndExports, Harvest, EndHarvest,
                EndDrain, Resume, Stop, Scan, EndScan, Call, Leave, Branch, Plain, Visit
  <2>3. Len(q') \in Nat /\ Len(q') >= Len(q) /\ \A k \in 1 .. Len(q) : q'[k] = q[k]
    <3>1. CASE SeedEntry \/ SeedExport \/ Harvest \/ Scan \/ Call
      <4>1. Queues
        BY <3>1, ActionQueues
      <4>2. QED
        BY <4>1, QueueGrows, LenProperties
    <3>2. CASE ~(SeedEntry \/ SeedExport \/ Harvest \/ Scan \/ Call)
      <4>1. q' = q
        BY <1>3, <3>2 DEF Next, Walk, vars, EndExports, EndHarvest, EndDrain, Resume, Stop,
                          EndScan, Leave, Branch, Plain
      <4>2. QED
        BY <1>0, <4>1
    <3>3. QED
      BY <3>1, <3>2
  <2>4. Queued(a) => Queued(a)'
    BY <1>0, <2>2, <2>3 DEF Queued
  <2>5. QED
    BY <2>1, <2>4 DEF Promised
<1>4. QED
  BY <1>1, <1>2, <1>3

LEMMA SweepStep ==
  ASSUME TypeOK, WalkInv, HarvestInv, CalleesRegistered, [Next]_vars
  PROVE  /\ HarvestInv'
         /\ phase' \notin {"entry", "exports", "harvest"} =>
              \A a \in Text :
                a + 2 <= Base + Size /\ Harvests(a)' => Promised(Decode(a, "T32").target)'
<1>0. /\ UNCHANGED prog /\ \A a, m : Decode(a, m)' = Decode(a, m)
      /\ \A a : Harvests(a)' = Harvests(a)
  <2>1. UNCHANGED prog
    BY DEF Next, Walk, vars, SeedEntry, SeedExport, EndExports, Harvest, EndHarvest, Skip,
           Register, EndDrain, Resume, Stop, Scan, EndScan, Call, Leave, Branch, Plain, Visit
  <2>2. QED
    BY <2>1 DEF Decode, Harvests, Followed
<1> DEFINE Swept(a) == a + 2 <= Base + Size /\ Harvests(a) => Promised(Decode(a, "T32").target)
<1>1. ASSUME NEW a \in Text, Swept(a)
      PROVE  Swept(a)'
  <2>1. Decode(a, "T32").target \in Text \/ ~Harvests(a)
    BY DEF Harvests
  <2>2. QED
    BY <1>0, <1>1, <2>1, PromisesKept
<1> HIDE DEF Swept
<1>2. ASSUME phase = "harvest", NEW a \in Text, a < pos
      PROVE  Swept(a)
  BY <1>2 DEF Swept, HarvestInv, Promised
<1>3. ASSUME phase \notin {"entry", "exports", "harvest"}, NEW a \in Text
      PROVE  Swept(a)
  BY <1>3 DEF Swept, CalleesRegistered, Promised
<1>4. HarvestInv' <=> (phase' = "harvest" => \A a \in Text : a < pos' => Swept(a)')
  BY DEF HarvestInv, Swept, Promised
<1>5. SUFFICES /\ phase' = "harvest" => \A a \in Text : a < pos' => Swept(a)'
               /\ phase' \notin {"entry", "exports", "harvest"} => \A a \in Text : Swept(a)'
  BY <1>4 DEF Swept
<1>6. CASE Harvest
  <2>1. /\ phase = "harvest" /\ phase' = "harvest" /\ pos' = pos + 1
        /\ pos \in Text /\ pos \in Nat
    BY <1>6 DEF Harvest, TypeOK, Text
  <2>2. ASSUME NEW a \in Text, a = pos
        PROVE  Swept(a)'
    <3>1. SUFFICES ASSUME Harvests(a)
                   PROVE  Promised(Decode(a, "T32").target)'
      BY <1>0 DEF Swept
    <3>2. Decode(a, "T32").target \in Nat
      BY <3>1 DEF Harvests, Text
    <3> DEFINE s == Sq(Decode(a, "T32").target, CalleeMode(Decode(a, "T32"), "T32"), FALSE)
    <3>3. s \in Seed /\ s.addr = Decode(a, "T32").target
      BY <3>2, SeedType, CalleeModeType DEF Mode
    <3>4. q' = Append(q, s) /\ head' = head /\ q \in Seq(Seed) /\ head \in 1 .. Len(q) + 1
      BY <1>6, <2>2, <3>1 DEF Harvest, TypeOK
    <3> HIDE DEF s
    <3>5. Len(q') = Len(q) + 1 /\ q'[Len(q) + 1] = s /\ Len(q) \in Nat
      BY <3>3, <3>4, AppendProperties, LenProperties
    <3>6. \E k \in head' .. Len(q') : q'[k].addr = Decode(a, "T32").target
      BY <3>3, <3>4, <3>5
    <3>7. Queued(Decode(a, "T32").target)'
      BY <1>0, <3>6 DEF Queued
    <3>8. QED
      BY <3>7 DEF Promised
  <2>3. \A a \in Text : a < pos + 1 => a = pos \/ a < pos
    BY <2>1 DEF Text
  <2>4. QED
    BY <1>1, <1>2, <2>1, <2>2, <2>3
<1>7. CASE EndHarvest
  <2>1. \A a \in Text : a + 2 <= Base + Size => a < pos
    BY <1>7 DEF EndHarvest, TypeOK, Text
  <2>2. \A a \in Text : Swept(a)
    BY <1>2, <1>7, <2>1 DEF EndHarvest, Swept
  <2>3. phase' # "harvest"
    BY <1>7 DEF EndHarvest
  <2>4. QED
    BY <1>1, <2>2, <2>3
<1>8. CASE EndExports
  <2>1. \A a \in Text : ~(a < pos')
    BY <1>8 DEF EndExports, Text
  <2>2. phase' = "harvest"
    BY <1>8 DEF EndExports
  <2>3. QED
    BY <2>1, <2>2
<1>9. CASE SeedEntry \/ SeedExport
  BY <1>9 DEF SeedEntry, SeedExport
<1>10. CASE EndDrain \/ Scan \/ EndScan \/ Skip \/ Register
  <2>1. phase \notin {"entry", "exports", "harvest"} /\ phase' # "harvest"
    BY <1>10 DEF EndDrain, Scan, EndScan, Skip, Register, Taking, Draining
  <2>2. QED
    BY <1>1, <1>3, <2>1
<1>11. CASE Walk \/ UNCHANGED vars
  <2>1. phase' = phase /\ pos' = pos
    BY <1>11 DEF Walk, vars, Resume, Stop, Call, Leave, Branch, Plain, Visit
  <2>2. QED
    BY <1>1, <1>2, <1>3, <2>1
<1>12. QED
  BY <1>6, <1>7, <1>8, <1>9, <1>10, <1>11 DEF Next

LEMMA WalkedStep ==
  ASSUME TypeOK, WalkInv, CalleesRegistered, [Next]_vars,
         NEW a \in Decoded',
         Followed(Decode(a, funcs[seen[a]].mode), funcs[seen[a]].mode)',
         Decode(a, funcs[seen[a]].mode).target' \in Text
  PROVE  Promised(Decode(a, funcs[seen[a]].mode).target)'
<1>0. UNCHANGED prog /\ (\A b, m : Decode(b, m)' = Decode(b, m))
      /\ \A i, m : Followed(i, m)' = Followed(i, m)
  <2>1. UNCHANGED prog
    BY DEF Next, Walk, vars, SeedEntry, SeedExport, EndExports, Harvest, EndHarvest, Skip,
           Register, EndDrain, Resume, Stop, Scan, EndScan, Call, Leave, Branch, Plain, Visit
  <2>2. QED
    BY <2>1 DEF Decode, Followed
<1> DEFINE m == funcs[seen[a]].mode
<1>1. ASSUME a \in Decoded, seen'[a] = seen[a]
      PROVE  Promised(Decode(a, funcs[seen[a]].mode).target)'
  <2>1. seen[a] \in DOMAIN funcs
    BY <1>1, OwnerType
  <2>2. m' = m
    <3>1. CASE Register
      BY <1>1, <2>1, <3>1, RegisterStep
    <3>2. CASE ~Register
      BY <1>1, <2>1, <3>2, OtherSteps DEF SameFuncs
    <3>3. QED
      BY <3>1, <3>2
  <2>3. Followed(Decode(a, m), m) /\ Decode(a, m).target \in Text
    BY <1>0, <2>2
  <2>4. Promised(Decode(a, m).target)
    BY <1>1, <2>3 DEF CalleesRegistered, Promised
  <2>5. QED
    BY <1>0, <2>2, <2>3, <2>4, PromisesKept
<1>2. CASE Call \/ Leave \/ Branch \/ Plain
  <2>1. Visit
    BY <1>2 DEF Call, Leave, Branch, Plain
  <2>2. /\ cur \in Text /\ N \in DOMAIN funcs /\ seen' = [seen EXCEPT ![cur] = N]
        /\ seen \in [Text -> 0 .. Len(funcs)] /\ Here.target \in Nat
        /\ funcs'[N].mode = funcs[N].mode /\ a \in Text
    BY <2>1, VisitStep DEF TypeOK, Decoded
  <2>3. CASE a # cur
    <3>1. a \in Decoded /\ seen'[a] = seen[a]
      BY <2>2, <2>3 DEF Decoded
    <3>2. QED
      BY <1>1, <3>1
  <2>4. CASE a = cur
    <3>1. m' = funcs[N].mode /\ Decode(a, m)' = Here
      BY <1>0, <2>2, <2>4 DEF Here
    <3>2. Followed(Here, funcs[N].mode) /\ Here.target \in Text
      BY <1>0, <3>1
    <3>3. Call
      BY <1>2, <3>2 DEF Followed, Leave, Branch, Plain, Branches
    <3> DEFINE s == Sq(Here.target, CalleeMode(Here, funcs[N].mode), FALSE)
    <3>4. s \in Seed /\ s.addr = Here.target
      BY <2>2, FuncType, SeedType, CalleeModeType
    <3>5. q' = Append(q, s) /\ head' = head /\ q \in Seq(Seed) /\ head \in 1 .. Len(q) + 1
      BY <2>1, <3>2, <3>3 DEF Call, Visit, TypeOK
    <3> HIDE DEF s
    <3>6. Len(q') = Len(q) + 1 /\ q'[Len(q) + 1] = s /\ Len(q) \in Nat
      BY <3>4, <3>5, AppendProperties, LenProperties
    <3>7. \E k \in head' .. Len(q') : q'[k].addr = Here.target
      BY <3>4, <3>5, <3>6
    <3>8. Queued(Decode(a, m).target)'
      BY <3>1, <3>7 DEF Queued
    <3>9. QED
      BY <3>8 DEF Promised
  <2>5. QED
    BY <2>3, <2>4
<1>3. CASE ~(Call \/ Leave \/ Branch \/ Plain)
  <2>1. UNCHANGED seen
    BY <1>3 DEF Next, Walk, vars, SeedEntry, SeedExport, EndExports, Harvest, EndHarvest,
                Skip, Register, EndDrain, Resume, Stop, Scan, EndScan
  <2>2. QED
    BY <1>1, <2>1 DEF Decoded
<1>4. QED
  BY <1>2, <1>3

(* When discovery ends the queue is empty, so every target is a function.  *)
THEOREM CallsHaveFunctions == Spec => []CalleesRegistered
<1> DEFINE Inv == TypeOK /\ WalkInv /\ HarvestInv /\ CalleesRegistered
<1>1. Init => Inv
  BY InitInv DEF DiscInv
<1>2. Inv /\ [Next]_vars => Inv'
  <2> SUFFICES ASSUME Inv, [Next]_vars PROVE Inv'
    OBVIOUS
  <2>1. TypeOK' /\ WalkInv'
    BY TypeStep
  <2>2. HarvestInv'
    BY SweepStep
  <2>3. CalleesRegistered'
    BY SweepStep, WalkedStep DEF CalleesRegistered, Promised
  <2>4. QED
    BY <2>1, <2>2, <2>3
<1>3. Inv => CalleesRegistered
  OBVIOUS
<1>4. QED
  BY <1>1, <1>2, <1>3, PTL DEF Spec

--------------------------------------------------------------------------------
(* What every step keeps.                                                  *)

(* The function being walked gains one instruction and reaches its end.    *)
LEMMA ExtentStep ==
  ASSUME TypeOK, WalkInv, Visit
  PROVE  /\ \A n \in DOMAIN funcs : n # N => funcs'[n] = funcs[n]
         /\ funcs'[N].heur = funcs[N].heur
         /\ funcs'[N].insns = funcs[N].insns + 1
         /\ funcs'[N].end = MaxOf(funcs[N].end, cur + Here.width)
<1>1. N \in DOMAIN funcs /\ funcs \in Seq(Func)
  BY VisitStep DEF TypeOK
<1>2. funcs[N] \in Func
  BY <1>1, FuncType
<1>3. funcs' = [funcs EXCEPT ![N] = Extent(funcs[N])]
  BY DEF Visit
<1> DEFINE f == funcs[N]
           end == MaxOf(f.end, cur + Here.width)
           count == f.insns + 1
<1>4. Extent(f) = [[f EXCEPT !.insns = count] EXCEPT !.end = end]
  BY DEF Extent
<1> HIDE DEF f, end, count
<1>5. f \in Func
  BY <1>2 DEF f
<1>6. Extent(f).heur = f.heur /\ Extent(f).insns = count /\ Extent(f).end = end
  BY <1>4, <1>5 DEF Func
<1>7. QED
  BY <1>1, <1>3, <1>6 DEF f, end, count

(* A decoded address keeps its owner, a function what it was registered as. *)
LEMMA OwnersKept ==
  ASSUME TypeOK, WalkInv, [Next]_vars
  PROVE  /\ UNCHANGED prog
         /\ \A n \in DOMAIN funcs :
              /\ n \in DOMAIN funcs'
              /\ funcs'[n].addr = funcs[n].addr /\ funcs'[n].mode = funcs[n].mode
              /\ funcs'[n].heur = funcs[n].heur
         /\ \A a \in Decoded : a \in Decoded' /\ seen'[a] = seen[a]
<1>1. UNCHANGED prog
  BY DEF Next, Walk, vars, SeedEntry, SeedExport, EndExports, Harvest, EndHarvest, Skip,
         Register, EndDrain, Resume, Stop, Scan, EndScan, Call, Leave, Branch, Plain, Visit
<1>2. CASE Visit
  <2>1. /\ seen[cur] = 0 /\ seen' = [seen EXCEPT ![cur] = N] /\ DOMAIN funcs' = DOMAIN funcs
        /\ \A n \in DOMAIN funcs :
             funcs'[n].addr = funcs[n].addr /\ funcs'[n].mode = funcs[n].mode
    BY <1>2, VisitStep
  <2>2. \A n \in DOMAIN funcs : funcs'[n].heur = funcs[n].heur
    BY <1>2, ExtentStep
  <2>3. seen \in [Text -> 0 .. Len(funcs)]
    BY DEF TypeOK
  <2>4. \A a \in Decoded : a \in Decoded' /\ seen'[a] = seen[a]
    BY <2>1, <2>3 DEF Decoded
  <2>5. QED
    BY <1>1, <2>1, <2>2, <2>4
<1>3. CASE Register
  <2>1. \A n \in DOMAIN funcs : n \in DOMAIN funcs' /\ funcs'[n] = funcs[n]
    BY <1>3, RegisterStep
  <2>2. seen' = seen
    BY <1>3 DEF Register
  <2>3. QED
    BY <1>1, <2>1, <2>2 DEF Decoded
<1>4. CASE ~Visit /\ ~Register
  <2>1. funcs' = funcs /\ seen' = seen
    BY <1>4 DEF Next, Walk, vars, SeedEntry, SeedExport, EndExports, Harvest, EndHarvest,
                Skip, EndDrain, Resume, Stop, Scan, EndScan, Call, Leave, Branch, Plain
  <2>2. QED
    BY <1>1, <2>1 DEF Decoded
<1>5. QED
  BY <1>2, <1>3, <1>4

(* The seeds of a longer queue. *)
LEMMA QueueAdds ==
  ASSUME q \in Seq(Seed), NEW s \in Seed, q' = Append(q, s)
  PROVE  /\ Len(q) \in Nat /\ Len(q') = Len(q) + 1
         /\ \A k \in DOMAIN q' : \/ k \in DOMAIN q /\ q'[k] = q[k]
                                 \/ k = Len(q) + 1 /\ q'[k] = s
<1>1. /\ q' \in Seq(Seed) /\ Len(q') = Len(q) + 1 /\ Len(q) \in Nat
      /\ \A k \in 1 .. Len(q) : q'[k] = q[k]
      /\ q'[Len(q) + 1] = s
  BY AppendProperties, LenProperties
<1>2. DOMAIN q = 1 .. Len(q) /\ DOMAIN q' = 1 .. Len(q')
  BY <1>1, LenProperties
<1>3. QED
  BY <1>1, <1>2

(* The steps that may lengthen the queue, with the seed they add. *)
LEMMA SeedAdded ==
  ASSUME TypeOK, WalkInv, [Next]_vars, q' # q
  PROVE  \E s \in Seed :
           /\ q' = Append(q, s) /\ head' = head
           /\ \/ SeedEntry /\ s = Sq(prog.entry, "T32", FALSE)
              \/ SeedExport /\ s = Sq(prog.exports[pos].addr, prog.exports[pos].mode, FALSE)
              \/ /\ Harvest /\ Harvests(pos)
                 /\ s = Sq(Decode(pos, "T32").target,
                           CalleeMode(Decode(pos, "T32"), "T32"), FALSE)
              \/ Scan /\ Accepts(pos) /\ s = Sq(prog.words[pos], "T32", TRUE)
              \/ /\ Call /\ Followed(Here, funcs[N].mode)
                 /\ s = Sq(Here.target, CalleeMode(Here, funcs[N].mode), FALSE)
<1>0. prog \in Program /\ pos \in Nat \ {0}
  BY DEF TypeOK
<1>1. CASE SeedEntry
  <2>1. prog.entry \in Nat \cup {Nowhere}
    BY <1>0 DEF Program
  <2>2. prog.entry # Nowhere => Sq(prog.entry, "T32", FALSE) \in Seed
    BY <2>1, SeedType DEF Mode
  <2>3. QED
    BY <1>1, <2>2 DEF SeedEntry
<1>2. CASE SeedExport
  <2>1. prog.exports \in Seq([addr : Nat, mode : Mode])
    BY <1>0 DEF Program
  <2>2. pos \in DOMAIN prog.exports
    BY <1>0, <1>2, <2>1 DEF SeedExport
  <2>3. prog.exports[pos] \in [addr : Nat, mode : Mode]
    BY <2>1, <2>2, LenProperties, ElementOfSeq
  <2>4. Sq(prog.exports[pos].addr, prog.exports[pos].mode, FALSE) \in Seed
    BY <2>3, SeedType
  <2>5. QED
    BY <1>2, <2>4 DEF SeedExport
<1>3. CASE Harvest
  <2>1. pos \in Text
    BY <1>0, <1>3 DEF Harvest, Text, TypeOK
  <2>2. "T32" \in Mode
    BY DEF Mode
  <2>3. Sq(Decode(pos, "T32").target, CalleeMode(Decode(pos, "T32"), "T32"), FALSE) \in Seed
    BY <2>1, <2>2, DecodeType, CalleeModeType, SeedType
  <2>4. QED
    BY <1>3, <2>3 DEF Harvest
<1>4. CASE Scan
  <2>1. prog.words \in Seq(Nat) /\ "T32" \in Mode
    BY <1>0 DEF Program, Mode
  <2>2. prog.words[pos] \in Nat
    BY <1>0, <1>4, <2>1 DEF Scan
  <2>3. Sq(prog.words[pos], "T32", TRUE) \in Seed
    BY <2>1, <2>2, SeedType
  <2>4. QED
    BY <1>4, <2>3 DEF Scan
<1>5. CASE Call
  <2>1. Visit
    BY <1>5 DEF Call
  <2>2. Here.target \in Nat /\ N \in DOMAIN funcs
    BY <2>1, VisitStep
  <2>3. CalleeMode(Here, funcs[N].mode) \in Mode
    BY <2>2, FuncType, CalleeModeType
  <2>4. Sq(Here.target, CalleeMode(Here, funcs[N].mode), FALSE) \in Seed
    BY <2>2, <2>3, SeedType
  <2>5. QED
    BY <1>5, <2>1, <2>4 DEF Call, Visit
<1>6. CASE ~(SeedEntry \/ SeedExport \/ Harvest \/ Scan \/ Call)
  BY <1>6 DEF Next, Walk, vars, EndExports, EndHarvest, EndDrain, Resume, Stop,
              EndScan, Leave, Branch, Plain, Skip, Register
<1>7. QED
  BY <1>1, <1>2, <1>3, <1>4, <1>5, <1>6

--------------------------------------------------------------------------------
(* ARM is entered only where it is vouched for.                            *)

(* What may vouch for a being ARM. *)
Vouched(a) ==
  \/ a \in prog.stubs
  \/ \E k \in DOMAIN prog.exports : prog.exports[k] = [addr |-> a, mode |-> "A32"]
  \/ \E b \in Decoded :
       LET i == Decode(b, "A32")
       IN  /\ funcs[seen[b]].mode = "A32"
           /\ i.cls = "call" /\ ~i.switches /\ i.target = a

(* The seeds are held to what the functions they become are. *)
ArmInv == \A k \in DOMAIN q : q[k].mode = "A32" => Vouched(q[k].addr)

LEMMA VouchedKept ==
  ASSUME TypeOK, WalkInv, [Next]_vars, NEW a, Vouched(a)
  PROVE  Vouched(a)'
<1>1. UNCHANGED prog /\ \A b, m : Decode(b, m)' = Decode(b, m)
  BY OwnersKept DEF Decode
<1>2. ASSUME NEW b \in Decoded, funcs[seen[b]].mode = "A32"
      PROVE  b \in Decoded' /\ funcs'[seen'[b]].mode = "A32"
  BY <1>2, OwnerType, OwnersKept
<1>3. QED
  BY <1>1, <1>2 DEF Vouched

LEMMA ArmSeedStep ==
  ASSUME TypeOK, WalkInv, ArmInv, [Next]_vars
  PROVE  ArmInv'
<1>1. q \in Seq(Seed) /\ prog \in Program
  BY DEF TypeOK
<1>2. CASE q' = q
  BY <1>2, VouchedKept DEF ArmInv
<1>3. CASE q' # q
  <2> DEFINE New(s) ==
               \/ SeedEntry /\ s = Sq(prog.entry, "T32", FALSE)
               \/ SeedExport /\ s = Sq(prog.exports[pos].addr, prog.exports[pos].mode, FALSE)
               \/ /\ Harvest /\ Harvests(pos)
                  /\ s = Sq(Decode(pos, "T32").target,
                            CalleeMode(Decode(pos, "T32"), "T32"), FALSE)
               \/ Scan /\ Accepts(pos) /\ s = Sq(prog.words[pos], "T32", TRUE)
               \/ /\ Call /\ Followed(Here, funcs[N].mode)
                  /\ s = Sq(Here.target, CalleeMode(Here, funcs[N].mode), FALSE)
  <2>1. PICK s \in Seed : q' = Append(q, s) /\ New(s)
    BY <1>3, SeedAdded
  <2>2. ASSUME s.mode = "A32"
        PROVE  Vouched(s.addr)'
    <3>1. CASE SeedExport /\ s = Sq(prog.exports[pos].addr, prog.exports[pos].mode, FALSE)
      <4>1. pos \in DOMAIN prog.exports /\ prog.exports \in Seq([addr : Nat, mode : Mode])
        BY <1>1, <3>1 DEF SeedExport, Program, TypeOK
      <4>2. prog.exports[pos] \in [addr : Nat, mode : Mode]
        BY <4>1, LenProperties, ElementOfSeq
      <4>3. prog.exports[pos] = [addr |-> s.addr, mode |-> "A32"]
        BY <2>2, <3>1, <4>2 DEF Sq
      <4>4. QED
        BY <4>1, <4>3, VouchedKept DEF Vouched
    <3>2. CASE /\ Harvest /\ Harvests(pos)
               /\ s = Sq(Decode(pos, "T32").target,
                         CalleeMode(Decode(pos, "T32"), "T32"), FALSE)
      <4>1. s.addr \in prog.stubs
        BY <2>2, <3>2 DEF Harvests, Followed, CalleeMode, Sq
      <4>2. QED
        BY <4>1, VouchedKept DEF Vouched
    <3>3. CASE /\ Call /\ Followed(Here, funcs[N].mode)
               /\ s = Sq(Here.target, CalleeMode(Here, funcs[N].mode), FALSE)
      <4>0. Visit
        BY <3>3 DEF Call
      <4>1. /\ cur \in Text /\ N \in DOMAIN funcs /\ N \in Nat
            /\ seen' = [seen EXCEPT ![cur] = N] /\ seen \in [Text -> 0 .. Len(funcs)]
            /\ funcs'[N].mode = funcs[N].mode /\ funcs[N].mode \in Mode
        BY <4>0, VisitStep, FuncType DEF TypeOK
      <4>2. CASE Here.switches
        <5>1. funcs[N].mode = "T32"
          BY <2>2, <3>3, <4>1, <4>2 DEF CalleeMode, Sq, Mode
        <5>2. s.addr \in prog.stubs
          BY <3>3, <4>2, <5>1 DEF Followed, Sq
        <5>3. QED
          BY <5>2, VouchedKept DEF Vouched
      <4>3. CASE ~Here.switches
        <5>1. funcs[N].mode = "A32"
          BY <2>2, <3>3, <4>3 DEF CalleeMode, Sq
        <5>2. N # 0
          BY <4>1, LenProperties DEF N, TypeOK
        <5>3. cur \in Decoded' /\ seen'[cur] = N
          BY <4>1, <5>2 DEF Decoded
        <5>4. /\ Here = Decode(cur, "A32") /\ Here.cls = "call" /\ Here.target = s.addr
          BY <3>3, <5>1 DEF Here, Followed, Sq
        <5>5. \A b, m : Decode(b, m)' = prog.code[m][b]
          BY OwnersKept DEF Decode
        <5>6. QED
          BY <4>1, <4>3, <5>1, <5>3, <5>4, <5>5 DEF Vouched, Decode
      <4>4. QED
        BY <4>2, <4>3
    <3>4. CASE \/ SeedEntry /\ s = Sq(prog.entry, "T32", FALSE)
               \/ Scan /\ s = Sq(prog.words[pos], "T32", TRUE)
      BY <2>2, <3>4 DEF Sq
    <3>5. QED
      BY <2>1, <3>1, <3>2, <3>3, <3>4
  <2>3. ASSUME NEW k \in DOMAIN q', q'[k].mode = "A32"
        PROVE  Vouched(q[k].addr)'
    <3>1. CASE k \in DOMAIN q /\ q'[k] = q[k]
      BY <2>3, <3>1, VouchedKept DEF ArmInv
    <3>2. CASE k = Len(q) + 1 /\ q'[k] = s
      BY <2>2, <2>3, <3>2
    <3>3. QED
      BY <1>1, <2>1, <3>1, <3>2, QueueAdds
  <2>4. QED
    BY <2>3 DEF ArmInv
<1>4. QED
  BY <1>2, <1>3

LEMMA ArmStep ==
  ASSUME TypeOK, WalkInv, ArmInv, ArmJustified, [Next]_vars
  PROVE  ArmJustified'
<1>1. ASSUME NEW n \in DOMAIN funcs, funcs'[n].mode = "A32"
      PROVE  Vouched(funcs[n].addr)'
  <2>1. funcs'[n].addr = funcs[n].addr /\ funcs'[n].mode = funcs[n].mode
    BY OwnersKept
  <2>2. Vouched(funcs[n].addr)
    BY <1>1, <2>1 DEF ArmJustified, Vouched
  <2>3. QED
    BY <2>1, <2>2, VouchedKept
<1>2. CASE Register
  <2>1. /\ q[head] \in Seed /\ head \in DOMAIN q /\ head' = head + 1
        /\ funcs' = Append(funcs, NewFunc(q[head]))
        /\ \A n \in DOMAIN funcs' : n \in DOMAIN funcs \/ n = Len(funcs) + 1
    BY <1>2, RegisterStep DEF Register, Taking, TypeOK
  <2>2. funcs \in Seq(Func)
    BY DEF TypeOK
  <2>3. funcs'[Len(funcs) + 1] = NewFunc(q[head])
    BY <2>1, <2>2
  <2>4. /\ funcs'[Len(funcs) + 1].addr = q[head].addr
        /\ funcs'[Len(funcs) + 1].mode = q[head].mode
    BY <2>3 DEF NewFunc
  <2>5. ASSUME NEW n \in DOMAIN funcs', n = Len(funcs) + 1, funcs'[n].mode = "A32"
        PROVE  Vouched(funcs[n].addr)'
    <3>1. Vouched(q[head].addr)
      BY <2>1, <2>4, <2>5 DEF ArmInv
    <3>2. funcs'[n].addr = q[head].addr
      BY <2>4, <2>5
    <3>3. QED
      BY <3>1, <3>2, VouchedKept
  <2>6. \A n \in DOMAIN funcs' : funcs'[n].mode = "A32" => Vouched(funcs[n].addr)'
    BY <1>1, <2>1, <2>5
  <2>7. QED
    BY <2>6 DEF ArmJustified, Vouched
<1>3. CASE ~Register
  <2>1. DOMAIN funcs' = DOMAIN funcs
    BY <1>3, OtherSteps DEF SameFuncs
  <2>2. \A n \in DOMAIN funcs' : funcs'[n].mode = "A32" => Vouched(funcs[n].addr)'
    BY <1>1, <2>1
  <2>3. QED
    BY <2>2 DEF ArmJustified, Vouched
<1>4. QED
  BY <1>2, <1>3

(* Every ARM function is an import stub, an even export or the target of a *)
(* call in ARM code, whatever the module and the order of the seeds.       *)
THEOREM ArmIsJustified == Spec => []ArmJustified
<1> DEFINE Inv == TypeOK /\ WalkInv /\ ArmInv /\ ArmJustified
<1>1. Init => Inv
  <2>1. Init => TypeOK /\ WalkInv
    BY InitInv DEF DiscInv
  <2>2. Init => ArmInv /\ ArmJustified
    BY DEF Init, ArmInv, ArmJustified
  <2>3. QED
    BY <2>1, <2>2
<1>2. Inv /\ [Next]_vars => Inv'
  BY TypeStep, ArmSeedStep, ArmStep
<1>3. Inv => ArmJustified
  OBVIOUS
<1>4. QED
  BY <1>1, <1>2, <1>3, PTL DEF Spec

--------------------------------------------------------------------------------
(* Counts and extents.                                                     *)

LEMMA OwnFinite ==
  ASSUME NEW n
  PROVE  IsFiniteSet(Own(n)) /\ Cardinality(Own(n)) \in Nat
<1>1. Base \in Int /\ Base + Size - 1 \in Int /\ Text = Base .. Base + Size - 1
  BY DEF Text
<1>2. IsFiniteSet(Text)
  BY <1>1, FS_Interval
<1>3. Own(n) \subseteq Text
  BY DEF Own
<1>4. QED
  BY <1>2, <1>3, FS_Subset, FS_CardinalityType

LEMMA ExtentExactStep ==
  ASSUME TypeOK, WalkInv, ExtentExact, [Next]_vars
  PROVE  ExtentExact'
<1> DEFINE End(a, m) == a + Decode(a, m).width
           Fits(S, m, e) == \A a \in S : End(a, m) <= e
           Tight(S, m, e) == IF S = {} THEN e = 0 ELSE \E a \in S : e = End(a, m)
<1>0. /\ seen \in [Text -> 0 .. Len(funcs)] /\ funcs \in Seq(Func)
      /\ \A n \in DOMAIN funcs : n \in Nat \ {0}
      /\ \A a, m : Decode(a, m)' = Decode(a, m)
  BY OwnersKept DEF TypeOK, Decode
<1>1. \A n \in DOMAIN funcs : /\ funcs[n].insns = Cardinality(Own(n))
                             /\ Fits(Own(n), funcs[n].mode, funcs[n].end)
                             /\ Tight(Own(n), funcs[n].mode, funcs[n].end)
  BY DEF ExtentExact, Ends
<1>2. SUFFICES ASSUME NEW n \in DOMAIN funcs'
               PROVE  /\ funcs'[n].insns = Cardinality(Own(n)')
                      /\ Fits(Own(n)', funcs'[n].mode, funcs'[n].end)
                      /\ Tight(Own(n)', funcs'[n].mode, funcs'[n].end)
  <2>1. SUFFICES ASSUME NEW n \in DOMAIN funcs'
                 PROVE  /\ funcs'[n].insns = Cardinality(Own(n)')
                        /\ IF Own(n)' = {} THEN funcs'[n].end = 0
                           ELSE /\ funcs'[n].end \in Ends(n)'
                                /\ \A e \in Ends(n)' : e <= funcs'[n].end
    BY DEF ExtentExact
  <2>2. /\ funcs'[n].insns = Cardinality(Own(n)')
        /\ Fits(Own(n)', funcs'[n].mode, funcs'[n].end)
        /\ Tight(Own(n)', funcs'[n].mode, funcs'[n].end)
    BY <1>2
  <2>3. Ends(n)' = { End(a, funcs'[n].mode) : a \in Own(n)' }
    BY <1>0 DEF Ends
  <2> QED
    BY <2>2, <2>3
<1>3. CASE Visit
  <2>1. /\ cur \in Text /\ cur \in Nat /\ seen[cur] = 0 /\ seen' = [seen EXCEPT ![cur] = N]
        /\ N \in DOMAIN funcs /\ n \in DOMAIN funcs /\ funcs'[n].mode = funcs[n].mode
        /\ Here.width \in 0 .. 2
    BY <1>3, VisitStep
  <2>2. CASE n # N
    <3>1. Own(n)' = Own(n)
      BY <1>0, <2>1, <2>2 DEF Own
    <3>2. funcs'[n] = funcs[n]
      BY <1>3, <2>1, <2>2, ExtentStep
    <3>3. QED
      BY <1>1, <2>1, <3>1, <3>2
  <2>3. CASE n = N
    <3> DEFINE m == funcs[n].mode
               e == funcs[n].end
               e2 == funcs'[n].end
    <3>1. Own(n)' = Own(n) \cup {cur} /\ cur \notin Own(n)
      BY <1>0, <2>1, <2>3 DEF Own
    <3>2. Cardinality(Own(n)') = Cardinality(Own(n)) + 1
      BY <3>1, OwnFinite, FS_AddElement
    <3>3. funcs'[n].insns = funcs[n].insns + 1 /\ e2 = MaxOf(e, cur + Here.width)
      BY <1>3, <2>3, ExtentStep
    <3>4. e \in Nat /\ cur + Here.width \in Nat /\ m \in Mode
      BY <2>1, FuncType
    <3>5. End(cur, m) = cur + Here.width
      BY <2>3 DEF Here
    <3>6. /\ e2 \in Nat /\ e <= e2 /\ End(cur, m) <= e2
          /\ e2 = End(cur, m) \/ (e2 = e /\ End(cur, m) < e)
      BY <3>3, <3>4, <3>5 DEF MaxOf
    <3>7. ASSUME NEW a \in Own(n)
          PROVE  End(a, m) \in Nat
      <4>1. a \in Text /\ a \in Nat
        BY <3>7 DEF Own, Text
      <4> QED
        BY <3>4, <4>1, DecodeType
    <3>8. Fits(Own(n), m, e) /\ Tight(Own(n), m, e)
      BY <1>1, <2>1
    <3>9. Fits(Own(n)', m, e2)
      <4> HIDE DEF End, m, e, e2
      <4> QED
        BY <3>1, <3>4, <3>6, <3>7, <3>8
    <3>10. Tight(Own(n)', m, e2)
      <4>1. CASE e2 = End(cur, m)
        BY <3>1, <4>1
      <4>2. CASE e2 = e /\ End(cur, m) < e
        <5>1. Own(n) # {}
          BY <3>4, <3>5, <3>8, <4>2
        <5>2. PICK a \in Own(n) : e = End(a, m)
          BY <3>8, <5>1
        <5> HIDE DEF End, m, e, e2
        <5>3. a \in Own(n)' /\ e2 = End(a, m)
          BY <3>1, <4>2, <5>2
        <5> QED
          BY <5>3
      <4> QED
        BY <3>6, <4>1, <4>2
    <3> QED
      BY <1>1, <2>1, <3>2, <3>3, <3>9, <3>10
  <2>4. QED
    BY <2>2, <2>3
<1>4. CASE Register
  <2>1. seen' = seen /\ Own(n)' = Own(n)
    BY <1>4 DEF Register, Own
  <2>2. CASE n \in DOMAIN funcs
    <3>1. funcs'[n] = funcs[n]
      BY <1>4, <2>2, RegisterStep
    <3>2. QED
      BY <1>1, <2>1, <2>2, <3>1
  <2>3. CASE n = Len(funcs) + 1
    <3>1. Own(n) = {}
      BY <1>0, <2>3 DEF Own
    <3>2. funcs'[n] = NewFunc(q[head])
      BY <1>0, <1>4, <2>3 DEF Register
    <3>3. funcs'[n].insns = 0 /\ funcs'[n].end = 0
      BY <3>2 DEF NewFunc
    <3>4. QED
      BY <2>1, <3>1, <3>3, FS_EmptySet
  <2>4. QED
    BY <1>4, <2>2, <2>3, RegisterStep
<1>5. CASE ~Visit /\ ~Register
  <2>1. funcs' = funcs /\ seen' = seen
    BY <1>5 DEF Next, Walk, vars, SeedEntry, SeedExport, EndExports, Harvest, EndHarvest,
                Skip, EndDrain, Resume, Stop, Scan, EndScan, Call, Leave, Branch, Plain
  <2>2. Own(n)' = Own(n)
    BY <2>1 DEF Own
  <2>3. QED
    BY <1>1, <2>1, <2>2
<1>6. QED
  BY <1>3, <1>4, <1>5

(* A function's count and extent are those of what its own walk decoded,   *)
(* however the walks interleave with blocks other functions took first.    *)
THEOREM ExtentsAreExact == Spec => []ExtentExact
<1> DEFINE Inv == TypeOK /\ WalkInv /\ ExtentExact
<1>1. Init => Inv
  <2>1. Init => TypeOK /\ WalkInv
    BY InitInv DEF DiscInv
  <2>2. Init => ExtentExact
    BY DEF Init, ExtentExact
  <2>3. QED
    BY <2>1, <2>2
<1>2. Inv /\ [Next]_vars => Inv'
  BY TypeStep, ExtentExactStep
<1>3. Inv => ExtentExact
  OBVIOUS
<1>4. QED
  BY <1>1, <1>2, <1>3, PTL DEF Spec

--------------------------------------------------------------------------------
(* The heuristic only adds.                                                *)

Early == {"entry", "exports", "harvest", "drain"}

(* If a is decoded, its walk began after a function was found by shape.    *)
Late(a) == a \in Decoded => \E j \in 1 .. seen[a] : funcs[j].heur

(* Before the scan nothing is a guess, and the first function registered   *)
(* after it is one, since the first drain emptied the queue.               *)
GuessInv ==
  /\ Walking => Draining
  /\ phase \in Early => \A k \in DOMAIN q : ~q[k].heur
  /\ phase \in {"scan", "redrain"} =>
       \/ ~Walking /\ \A k \in head .. Len(q) : q[k].heur
       \/ \E n \in DOMAIN funcs : funcs[n].heur
  /\ \A k \in head .. Len(q) : q[k].heur => Late(q[k].addr)
  /\ \A n \in DOMAIN funcs : funcs[n].heur => Late(funcs[n].addr)

LEMMA LateKept ==
  ASSUME TypeOK, WalkInv, [Next]_vars, NEW a, Late(a),
         Visit => \E n \in DOMAIN funcs : funcs[n].heur
  PROVE  Late(a)'
<1>0. seen \in [Text -> 0 .. Len(funcs)] /\ funcs \in Seq(Func) /\ Len(funcs) \in Nat
  BY LenProperties DEF TypeOK
<1>1. \A n \in DOMAIN funcs : n \in 1 .. Len(funcs) /\ funcs'[n].heur = funcs[n].heur
  BY <1>0, OwnersKept
<1>2. CASE a \in Decoded
  <2>1. seen'[a] = seen[a] /\ seen[a] \in 1 .. Len(funcs)
    BY <1>0, <1>2, OwnersKept DEF Decoded
  <2>2. PICK j \in 1 .. seen[a] : funcs[j].heur
    BY <1>2 DEF Late
  <2>3. j \in DOMAIN funcs
    BY <1>0, <2>1
  <2>4. j \in 1 .. seen'[a] /\ funcs'[j].heur
    BY <1>1, <2>1, <2>2, <2>3
  <2>5. QED
    BY <2>4 DEF Late
<1>3. CASE a \notin Decoded /\ Visit
  <2>1. PICK n \in DOMAIN funcs : funcs[n].heur
    BY <1>3
  <2>2. a \in Decoded' => seen'[a] = N
    BY <1>0, <1>3, VisitStep DEF Decoded
  <2>3. n \in 1 .. N /\ funcs'[n].heur
    BY <1>1, <2>1 DEF N
  <2>4. QED
    BY <2>2, <2>3 DEF Late
<1>4. CASE a \notin Decoded /\ ~Visit
  <2>1. seen' = seen
    BY <1>4 DEF Next, Walk, vars, SeedEntry, SeedExport, EndExports, Harvest, EndHarvest,
                Skip, Register, EndDrain, Resume, Stop, Scan, EndScan, Call, Leave, Branch, Plain
  <2>2. QED
    BY <1>4, <2>1 DEF Late, Decoded
<1>5. QED
  BY <1>2, <1>3, <1>4

LEMMA DrainStep ==
  ASSUME TypeOK, WalkInv, GuessInv, [Next]_vars
  PROVE  (Walking => Draining)'
<1>1. Walking => Draining
  BY DEF GuessInv
<1>2. CASE UNCHANGED << phase, local, cur >>
  BY <1>1, <1>2 DEF Walking, Draining
<1>3. CASE SeedEntry \/ EndExports \/ EndHarvest \/ EndScan
  BY <1>1, <1>3 DEF SeedEntry, EndExports, EndHarvest, EndScan, Walking, Draining
<1>4. CASE EndDrain
  BY <1>4 DEF EndDrain, Walking
<1>5. CASE Register
  BY <1>5 DEF Register, Taking, Draining
<1>6. CASE Walk
  <2>1. phase' = phase /\ Walking
    BY <1>6 DEF Walk, Resume, Stop, Call, Leave, Branch, Plain, Visit, Walking
  <2>2. QED
    BY <1>1, <2>1 DEF Draining
<1>7. CASE SeedExport \/ Harvest \/ Skip \/ Scan \/ UNCHANGED vars
  BY <1>2, <1>7 DEF SeedExport, Harvest, Skip, Scan, vars
<1>8. QED
  BY <1>3, <1>4, <1>5, <1>6, <1>7 DEF Next

LEMMA EarlyStep ==
  ASSUME TypeOK, WalkInv, GuessInv, [Next]_vars, phase' \in Early
  PROVE  phase \in Early /\ \A k \in DOMAIN q' : ~q'[k].heur
<1>1. phase \in Early /\ ~Scan
  BY DEF Early, Next, Walk, vars, SeedEntry, SeedExport, EndExports, Harvest, EndHarvest, Skip,
         Register, EndDrain, Draining, Resume, Stop, Scan, EndScan, Call, Leave, Branch, Plain,
         Visit, TypeOK, Phase
<1>2. \A k \in DOMAIN q : ~q[k].heur
  BY <1>1 DEF GuessInv
<1>3. CASE q' # q
  <2>1. PICK s \in Seed : q' = Append(q, s) /\ s.heur = FALSE
    BY <1>1, <1>3, SeedAdded DEF Sq
  <2>2. QED
    BY <1>1, <1>2, <2>1, QueueAdds DEF TypeOK
<1>4. QED
  BY <1>1, <1>2, <1>3

LEMMA FirstGuessStep ==
  ASSUME TypeOK, WalkInv, GuessInv, [Next]_vars, phase' \in {"scan", "redrain"}
  PROVE  \/ ~Walking' /\ \A k \in head' .. Len(q') : q'[k].heur
         \/ \E n \in DOMAIN funcs' : funcs'[n].heur
<1>0. /\ q \in Seq(Seed) /\ Len(q) \in Nat /\ head \in 1 .. Len(q) + 1
      /\ funcs \in Seq(Func)
  BY LenProperties DEF TypeOK
<1>1. CASE \E n \in DOMAIN funcs : funcs[n].heur
  BY <1>1, OwnersKept
<1>2. ASSUME phase \in {"scan", "redrain"}, ~\E n \in DOMAIN funcs : funcs[n].heur
      PROVE  ~Walking /\ \A k \in head .. Len(q) : q[k].heur
  BY <1>2 DEF GuessInv
<1>3. CASE EndDrain
  BY <1>0, <1>3 DEF EndDrain, Walking
<1>4. ASSUME ~EndDrain PROVE phase \in {"scan", "redrain"}
  BY <1>4 DEF Next, Walk, vars, SeedEntry, SeedExport, EndExports, Harvest, EndHarvest, Skip,
         Register, Resume, Stop, Scan, EndScan, Call, Leave, Branch, Plain, Visit, Phase
<1> DEFINE None == ~\E n \in DOMAIN funcs : funcs[n].heur
<1>5. CASE None /\ Register
  <2>1. q[head].heur /\ head \in head .. Len(q)
    BY <1>0, <1>2, <1>4, <1>5 DEF Register, Taking, EndDrain
  <2>2. /\ funcs'[Len(funcs) + 1] = NewFunc(q[head])
        /\ Len(funcs) + 1 \in DOMAIN funcs'
    BY <1>0, <1>5 DEF Register
  <2>3. QED
    BY <2>1, <2>2 DEF NewFunc
<1>6. CASE None /\ Skip
  BY <1>0, <1>2, <1>4, <1>6 DEF Skip, Taking, Walking, EndDrain
<1>7. CASE None /\ Scan
  <2>1. ~Walking /\ \A k \in head .. Len(q) : q[k].heur
    BY <1>2, <1>7 DEF Scan
  <2>2. UNCHANGED << head, local, cur >>
    BY <1>7 DEF Scan
  <2>3. CASE q' = q
    BY <2>1, <2>2, <2>3 DEF Walking
  <2>4. CASE q' # q
    <3>1. PICK s \in Seed : q' = Append(q, s) /\ s.heur = TRUE
      BY <1>7, <2>4, SeedAdded DEF Sq, Scan, SeedEntry, SeedExport, Harvest, Call, Visit, GuessInv,
         Draining, Walking
    <3>2. /\ Len(q') = Len(q) + 1
          /\ \A k \in DOMAIN q' : \/ k \in DOMAIN q /\ q'[k] = q[k]
                                  \/ k = Len(q) + 1 /\ q'[k] = s
      BY <1>0, <3>1, QueueAdds
    <3>3. ASSUME NEW k \in head' .. Len(q') PROVE q'[k].heur
      <4>1. k \in DOMAIN q' /\ (k \in DOMAIN q => k \in head .. Len(q))
        BY <1>0, <2>2, <3>1, <3>2
      <4>2. QED
        BY <2>1, <3>1, <3>2, <4>1
    <3>4. QED
      BY <2>1, <2>2, <3>3 DEF Walking
  <2>5. QED
    BY <2>3, <2>4
<1>8. CASE None /\ Walk
  <2>1. Walking
    BY <1>8 DEF Walk, Resume, Stop, Call, Leave, Branch, Plain, Visit, Walking
  <2>2. phase' = phase
    BY <1>8 DEF Walk, Resume, Stop, Call, Leave, Branch, Plain, Visit
  <2>3. QED
    BY <1>2, <1>8, <2>1, <2>2
<1>9. CASE None /\ (EndScan \/ UNCHANGED vars)
  <2>1. UNCHANGED << q, head, local, cur >>
    BY <1>9 DEF EndScan, vars
  <2>2. QED
    BY <1>2, <1>3, <1>4, <1>9, <2>1 DEF Walking
<1>10. CASE SeedEntry \/ SeedExport \/ EndExports \/ Harvest \/ EndHarvest
  BY <1>10 DEF SeedEntry, SeedExport, EndExports, Harvest, EndHarvest
<1>11. QED
  BY <1>1, <1>3, <1>5, <1>6, <1>7, <1>8, <1>9, <1>10 DEF Next

(* A walk with a guess waiting goes on after another guess. *)
LEMMA VisitLate ==
  ASSUME TypeOK, GuessInv, Visit, NEW k \in DOMAIN q, q[k].heur
  PROVE  \E n \in DOMAIN funcs : funcs[n].heur
<1>1. Walking
  BY DEF Visit, Walking
<1>2. phase = "redrain"
  BY <1>1 DEF GuessInv, Draining, Early
<1>3. QED
  BY <1>1, <1>2 DEF GuessInv

LEMMA WaitingStep ==
  ASSUME TypeOK, WalkInv, GuessInv, [Next]_vars,
         NEW k \in head' .. Len(q'), q'[k].heur
  PROVE  Late(q[k].addr)'
<1>0. q \in Seq(Seed) /\ Len(q) \in Nat /\ head \in 1 .. Len(q) + 1
  BY LenProperties DEF TypeOK
<1>1. head' \in {head, head + 1}
  BY DEF Next, Walk, vars, SeedEntry, SeedExport, EndExports, Harvest, EndHarvest, Skip,
         Register, EndDrain, Resume, Stop, Scan, EndScan, Call, Leave, Branch, Plain, Visit
<1>2. ASSUME k \in DOMAIN q, q'[k] = q[k]
      PROVE  Late(q[k].addr)'
  <2>1. k \in head .. Len(q)
    BY <1>0, <1>1, <1>2
  <2>2. Late(q[k].addr)
    BY <1>2, <2>1 DEF GuessInv
  <2>3. Visit => \E n \in DOMAIN funcs : funcs[n].heur
    BY <1>2, VisitLate
  <2>4. QED
    BY <1>2, <2>2, <2>3, LateKept
<1>3. CASE q' = q
  BY <1>0, <1>1, <1>2, <1>3
<1>4. CASE q' # q
  <2>1. PICK s \in Seed : /\ q' = Append(q, s)
                          /\ s.heur => Scan /\ Accepts(pos) /\ s = Sq(prog.words[pos], "T32", TRUE)
    BY <1>4, SeedAdded DEF Sq
  <2>2. /\ Len(q') = Len(q) + 1
        /\ \A i \in DOMAIN q' : \/ i \in DOMAIN q /\ q'[i] = q[i]
                                \/ i = Len(q) + 1 /\ q'[i] = s
    BY <1>0, <2>1, QueueAdds
  <2>3. k \in DOMAIN q'
    BY <1>0, <1>1, <2>1, <2>2
  <2>4. CASE q'[k] = s
    <3>1. Scan /\ s.addr \notin Decoded
      BY <2>1, <2>4 DEF Accepts, Sq
    <3>2. Decoded' = Decoded
      BY <3>1 DEF Scan, Decoded
    <3>3. q'[k].addr \notin Decoded'
      BY <2>4, <3>1, <3>2
    <3>4. QED
      BY <3>3 DEF Late
  <2>5. QED
    BY <1>2, <2>2, <2>3, <2>4
<1>5. QED
  BY <1>3, <1>4

LEMMA GuessedStep ==
  ASSUME TypeOK, WalkInv, GuessInv, [Next]_vars,
         NEW n \in DOMAIN funcs', funcs'[n].heur
  PROVE  Late(funcs[n].addr)'
<1>0. /\ q \in Seq(Seed) /\ Len(q) \in Nat /\ head \in 1 .. Len(q) + 1
      /\ funcs \in Seq(Func)
  BY LenProperties DEF TypeOK
<1>1. CASE n \in DOMAIN funcs
  <2>1. funcs[n].heur /\ funcs'[n].addr = funcs[n].addr
    BY <1>1, OwnersKept
  <2>2. Late(funcs[n].addr)
    BY <1>1, <2>1 DEF GuessInv
  <2>3. Visit => \E m \in DOMAIN funcs : funcs[m].heur
    BY <1>1, <2>1
  <2>4. QED
    BY <2>1, <2>2, <2>3, LateKept
<1>2. CASE n \notin DOMAIN funcs
  <2>1. Register
    BY <1>2, OtherSteps DEF SameFuncs
  <2>2. n = Len(funcs) + 1 /\ head \in head .. Len(q)
    BY <1>0, <1>2, <2>1, RegisterStep DEF Register, Taking
  <2>3. funcs'[n] = NewFunc(q[head])
    BY <1>0, <2>1, <2>2 DEF Register
  <2>4. q[head].heur /\ funcs'[n].addr = q[head].addr
    BY <2>3 DEF NewFunc
  <2>5. Late(q[head].addr)
    BY <2>2, <2>4 DEF GuessInv
  <2>6. ~Visit
    BY <2>1 DEF Register, Taking, Walking, Visit
  <2>7. QED
    BY <2>4, <2>5, <2>6, LateKept
<1>3. QED
  BY <1>1, <1>2

(* No function found by shape was walked on behalf of a function the       *)
(* reliable seeds found, for every module and order of the seeds.          *)
THEOREM HeuristicsOnlyAdd == Spec => []HeuristicOnlyAdds
<1> DEFINE Inv == TypeOK /\ WalkInv /\ GuessInv
<1>1. Init => Inv
  <2>1. Init => TypeOK /\ WalkInv
    BY InitInv DEF DiscInv
  <2>2. Init => GuessInv
    BY DEF Init, GuessInv, Walking
  <2>3. QED
    BY <2>1, <2>2
<1>2. Inv /\ [Next]_vars => Inv'
  <2> SUFFICES ASSUME Inv, [Next]_vars PROVE Inv'
    OBVIOUS
  <2>1. TypeOK' /\ WalkInv'
    BY TypeStep
  <2>2. (Walking => Draining)' /\ (phase' \in Early => \A k \in DOMAIN q' : ~q'[k].heur)
    BY DrainStep, EarlyStep
  <2>3. phase' \in {"scan", "redrain"} =>
           \/ ~Walking' /\ \A k \in head' .. Len(q') : q'[k].heur
           \/ \E n \in DOMAIN funcs' : funcs'[n].heur
    BY FirstGuessStep
  <2>4. /\ \A k \in head' .. Len(q') : q'[k].heur => Late(q[k].addr)'
        /\ \A n \in DOMAIN funcs' : funcs'[n].heur => Late(funcs[n].addr)'
    BY WaitingStep, GuessedStep
  <2>5. GuessInv'
    BY <2>2, <2>3, <2>4 DEF GuessInv, Early
  <2>6. QED
    BY <2>1, <2>5
<1>3. Inv => HeuristicOnlyAdds
  BY FuncType DEF GuessInv, HeuristicOnlyAdds, Late, Decoded
<1>4. QED
  BY <1>1, <1>2, <1>3, PTL DEF Spec

--------------------------------------------------------------------------------
(* Tables are walked whole.                                                *)

(* A table entry the scan has passed is decoded, a function or a seed; and *)
(* when discovery is over nothing waits.                                   *)
TableInv ==
  /\ phase \in {"scan", "redrain", "done"} =>
       \A k \in DOMAIN prog.words :
         (phase = "scan" => k < pos) /\ InTable(k) /\ Plausible(prog.words[k]) =>
           prog.words[k] \in Decoded \/ Promised(prog.words[k])
  /\ phase = "done" => ~Walking /\ head > Len(q)

LEMMA TableStep ==
  ASSUME TypeOK, WalkInv, TableInv, [Next]_vars,
         phase' \in {"scan", "redrain", "done"},
         NEW k \in DOMAIN prog.words, phase' = "scan" => k < pos',
         InTable(k), Plausible(prog.words[k])
  PROVE  prog.words[k] \in Decoded' \/ Promised(prog.words[k])'
<1>0. /\ prog' = prog /\ prog \in Program /\ pos \in Nat \ {0}
      /\ q \in Seq(Seed) /\ Len(q) \in Nat /\ head \in 1 .. Len(q) + 1
  BY OwnersKept, LenProperties DEF TypeOK
<1>1. prog.words \in Seq(Nat) /\ k \in 1 .. Len(prog.words) /\ prog.words[k] \in Text
  BY <1>0, LenProperties DEF Program, Plausible, Decodes
<1>2. ASSUME prog.words[k] \in Decoded \/ Promised(prog.words[k])
      PROVE  prog.words[k] \in Decoded' \/ Promised(prog.words[k])'
  <2>1. \A a \in Text : Promised(a) => Promised(a)'
    BY PromisesKept
  <2>2. \A a \in Decoded : a \in Decoded'
    BY OwnersKept
  <2>3. QED
    BY <1>0, <1>1, <1>2, <2>1, <2>2
<1>3. CASE Scan
  <2>1. phase = "scan" /\ phase' = "scan" /\ pos' = pos + 1
    BY <1>3 DEF Scan
  <2>2. CASE k < pos
    BY <1>2, <2>1, <2>2 DEF TableInv
  <2>3. CASE k = pos /\ prog.words[k] \notin Decoded
    <3>1. Accepts(pos)
      BY <2>3 DEF Accepts, InTable
    <3> DEFINE s == Sq(prog.words[k], "T32", TRUE)
    <3>2. q' = Append(q, s) /\ head' = head
      BY <1>3, <2>3, <3>1 DEF Scan
    <3>3. s \in Seed /\ s.addr = prog.words[k]
      <4>1. prog.words[k] \in Nat /\ "T32" \in Mode
        BY <1>1 DEF Mode, Text
      <4>2. QED
        BY <4>1, SeedType
    <3> HIDE DEF s
    <3>4. Len(q') = Len(q) + 1 /\ q'[Len(q) + 1] = s
      BY <1>0, <3>2, <3>3, AppendProperties
    <3>5. \E i \in head' .. Len(q') : q'[i].addr = prog.words[k]
      BY <1>0, <3>2, <3>3, <3>4
    <3>6. QED
      BY <1>0, <3>5 DEF Promised, Queued
  <2>4. QED
    BY <1>0, <1>1, <1>2, <2>1, <2>2, <2>3
<1>4. CASE EndScan
  <2>1. phase = "scan" /\ k < pos
    BY <1>0, <1>1, <1>4 DEF EndScan
  <2>2. QED
    BY <1>2, <2>1 DEF TableInv
<1>5. CASE EndDrain
  <2>1. CASE phase = "drain"
    BY <1>1, <1>5, <2>1 DEF EndDrain
  <2>2. CASE phase = "redrain"
    BY <1>2, <2>2 DEF TableInv
  <2>3. QED
    BY <1>5, <2>1, <2>2 DEF EndDrain, Draining
<1>6. CASE SeedEntry \/ SeedExport \/ EndExports \/ Harvest \/ EndHarvest
  BY <1>6 DEF SeedEntry, SeedExport, EndExports, Harvest, EndHarvest
<1>7. CASE Skip \/ Register \/ Walk \/ UNCHANGED vars
  <2>1. phase' = phase /\ pos' = pos
    BY <1>7 DEF Walk, vars, Skip, Register, Resume, Stop, Call, Leave, Branch, Plain, Visit
  <2>2. QED
    BY <1>2, <2>1 DEF TableInv
<1>8. QED
  BY <1>3, <1>4, <1>5, <1>6, <1>7 DEF Next

LEMMA DoneStep ==
  ASSUME TypeOK, TableInv, [Next]_vars, phase' = "done"
  PROVE  ~Walking' /\ head' > Len(q')
<1>1. CASE EndDrain
  BY <1>1 DEF EndDrain, Walking, TypeOK
<1>2. CASE ~EndDrain
  <2>1. phase = "done" \/ phase' # "done"
    BY <1>2 DEF Next, Walk, vars, SeedEntry, SeedExport, EndExports, Harvest, EndHarvest, Skip,
           Register, Resume, Stop, Scan, EndScan, Call, Leave, Branch, Plain, Visit
  <2>2. ~Walking /\ head > Len(q)
    BY <2>1 DEF TableInv
  <2>3. UNCHANGED << q, head, local, cur >>
    BY <2>1, <2>2 DEF Next, Walk, vars, SeedEntry, SeedExport, EndExports, Harvest, EndHarvest,
           Skip, Register, EndDrain, Draining, Taking, Walking, Resume, Stop, Scan, EndScan,
           Call, Leave, Branch, Plain, Visit
  <2>4. QED
    BY <2>2, <2>3 DEF Walking
<1>3. QED
  BY <1>1, <1>2

(* Whatever the words are, every plausible entry of a table is decoded     *)
(* when discovery ends, or is a function its own mode cannot decode.       *)
THEOREM TablesAreWalked == Spec => []TablesWalked
<1> DEFINE Inv == TypeOK /\ WalkInv /\ FlowClosed /\ TableInv
<1>1. Init => Inv
  <2>1. Init => TypeOK /\ WalkInv /\ FlowClosed
    BY InitInv DEF DiscInv
  <2>2. Init => TableInv
    BY DEF Init, TableInv
  <2>3. QED
    BY <2>1, <2>2
<1>2. Inv /\ [Next]_vars => Inv'
  <2> SUFFICES ASSUME Inv, [Next]_vars PROVE Inv'
    OBVIOUS
  <2>1. TypeOK' /\ WalkInv' /\ FlowClosed' /\ UNCHANGED prog
    BY TypeStep, FlowStep, OwnersKept
  <2>2. \A k : InTable(k)' = InTable(k) /\ Plausible(prog.words[k])' = Plausible(prog.words[k])
    BY <2>1 DEF InTable, Shaped, Plausible, Decodes, Decode
  <2>3. TableInv'
    BY <2>1, <2>2, TableStep, DoneStep DEF TableInv
  <2>4. QED
    BY <2>1, <2>3
<1>3. Inv => TablesWalked
  <2> SUFFICES ASSUME Inv PROVE TablesWalked
    OBVIOUS
  <2> SUFFICES ASSUME phase = "done", NEW k \in DOMAIN prog.words,
                      InTable(k), Plausible(prog.words[k]), prog.words[k] \notin Decoded
               PROVE  \E n \in DOMAIN funcs :
                        /\ funcs[n].addr = prog.words[k] /\ funcs[n].mode = "A32"
                        /\ ~Decodes(funcs[n].addr, "A32")
    BY ZenonT(60) DEF TablesWalked
  <2>1. ~Walking /\ head > Len(q) /\ Promised(prog.words[k])
    BY DEF TableInv
  <2>2. prog.words[k] \in FuncAddrs
    BY <2>1 DEF Promised, Queued, TypeOK
  <2>3. PICK n \in DOMAIN funcs : funcs[n].addr = prog.words[k]
    BY <2>2 DEF FuncAddrs
  <2>4. funcs[n].addr \in Text /\ funcs[n].mode \in Mode
    BY FuncType
  <2>5. ~Pending(funcs[n].addr, n)
    BY <2>1, <2>4 DEF Pending, Walking, Nowhere, Text
  <2>6. ~Decodes(funcs[n].addr, funcs[n].mode)
    BY <2>3, <2>5 DEF FlowClosed
  <2>7. Decodes(funcs[n].addr, "T32")
    BY <2>3 DEF Plausible
  <2>8. QED
    BY <2>3, <2>4, <2>6, <2>7 DEF Mode
<1>4. QED
  BY <1>1, <1>2, <1>3, PTL DEF Spec
================================================================================
