----------------------------- MODULE DispatchProofs -----------------------------
(***************************************************************************)
(* Indirect transfers, for every module, table, hash and sequence of calls: *)
(* the merge builds a table the binary search is right on, a transfer runs *)
(* what its pointer means, and no gap goes unreported.                     *)
(*                                                                         *)
(* First the table of reported keys by itself, for every number of slots   *)
(* and every hash: a trap preserves what makes it a correct open           *)
(* addressing table.                                                       *)
(***************************************************************************)
EXTENDS Dispatch, SequenceTheorems, TLAPS


(* A stored key is found by probing: no slot on the way to it is free or   *)
(* holds it already.                                                       *)
Reachable(s) ==
  \E i \in 0 .. Slots - 1 :
    s = Slot(g_seen[s], i) /\ \A j \in 0 .. i - 1 : ~Ends(g_seen[s], j)

ProbeInv == \A s \in 0 .. Slots - 1 : g_seen[s] # 0 => Reachable(s)

(* A key is remembered with its one report, and while a slot is free no    *)
(* other key has any.                                                      *)
CountInv ==
  /\ \A k \in Keys : k # 0 /\ k \in Remembered => reports[k] = 1
  /\ \A k \in Keys : 0 \in Remembered /\ (k = 0 \/ k \notin Remembered) => reports[k] = 0

(* The environment is read once. *)
TraceInv == g_trace \in {-1, env}

TrapInv == TrapTypeOK /\ ProbeInv /\ CountInv /\ TraceInv /\ NoGapLost

--------------------------------------------------------------------------------
LEMMA SlotType ==
  ASSUME NEW key \in Keys, NEW i \in Nat
  PROVE  Slot(key, i) \in 0 .. Slots - 1
  BY SlotsAssumption, KeysAssumption DEF Slot

(* Probing a full round looks at every slot. *)
LEMMA SlotOnto ==
  ASSUME NEW key \in Keys, NEW s \in 0 .. Slots - 1
  PROVE  \E i \in 0 .. Slots - 1 : Slot(key, i) = s
<1> DEFINE h == Hash[key]
           i == IF s >= h THEN s - h ELSE s - h + Slots
<1>1. h \in 0 .. Slots - 1
  BY KeysAssumption
<1>2. i \in 0 .. Slots - 1
  BY <1>1, SlotsAssumption
<1>3. h + i = s \/ h + i = s + Slots
  BY <1>1, SlotsAssumption
<1>4. s % Slots = s /\ (s + Slots) % Slots = s
  BY SlotsAssumption
<1>5. Slot(key, i) = s
  BY <1>3, <1>4 DEF Slot
<1>6. QED
  BY <1>2, <1>5

(* Where probing for a key that is stored ends: at the slot that holds it. *)
LEMMA StoredIsFound ==
  ASSUME TrapTypeOK, ProbeInv, NEW key \in Keys, key # 0,
         NEW s \in 0 .. Slots - 1, g_seen[s] = key,
         NEW i \in 0 .. Slots - 1, Lands(key, i)
  PROVE  g_seen[Slot(key, i)] = key
<1>1. PICK n \in 0 .. Slots - 1 :
        s = Slot(key, n) /\ \A j \in 0 .. n - 1 : ~Ends(key, j)
  BY DEF ProbeInv, Reachable
<1>2. Ends(key, n) /\ Ends(key, i)
  BY <1>1 DEF Ends, Lands
<1>3. n = i
  <2>1. ~(n < i)
    BY <1>2 DEF Lands
  <2>2. ~(i < n)
    BY <1>1, <1>2
  <2>3. QED
    BY <2>1, <2>2
<1>4. QED
  BY <1>1, <1>3

(* A probe that ends nowhere has seen a full table without the key.        *)
LEMMA NowhereIsFull ==
  ASSUME NEW key \in Keys, \A i \in 0 .. Slots - 1 : ~Ends(key, i)
  PROVE  key \notin Remembered /\ 0 \notin Remembered
  BY SlotOnto DEF Remembered, Ends

--------------------------------------------------------------------------------
LEMMA TrapInitInv == TrapInit => TrapInv
<1> SUFFICES ASSUME TrapInit PROVE TrapInv
  OBVIOUS
<1>1. TrapTypeOK /\ TraceInv /\ NoGapLost
  BY DEF TrapInit, TrapTypeOK, TraceInv, NoGapLost
<1>2. ProbeInv
  BY DEF TrapInit, ProbeInv
<1>3. CountInv
  BY DEF TrapInit, CountInv, Remembered
<1>4. QED
  BY <1>1, <1>2, <1>3 DEF TrapInv

(* The table after a key took a free slot. *)
LEMMA StoreKeepsProbe ==
  ASSUME TrapTypeOK, ProbeInv, NEW key \in Keys, key # 0,
         NEW i \in 0 .. Slots - 1, Lands(key, i), g_seen[Slot(key, i)] = 0,
         g_seen' = [g_seen EXCEPT ![Slot(key, i)] = key]
  PROVE  ProbeInv'
<1> DEFINE t == Slot(key, i)
<1>1. t \in 0 .. Slots - 1
  BY SlotType
<1>2. g_seen \in [0 .. Slots - 1 -> Keys \cup {0}]
  BY DEF TrapTypeOK
<1>3. ASSUME NEW k \in Keys, k # 0, NEW j \in Nat, ~Ends(k, j)
      PROVE  ~Ends(k, j)'
  <2>1. Slot(k, j) \in 0 .. Slots - 1
    BY <1>3, SlotType
  <2>2. g_seen[Slot(k, j)] # 0
    BY <1>3 DEF Ends
  <2>3. Slot(k, j) # t
    BY <2>2
  <2>4. g_seen'[Slot(k, j)] = g_seen[Slot(k, j)]
    BY <1>1, <1>2, <2>1, <2>3
  <2>5. QED
    BY <1>3, <2>4 DEF Ends, Slot
<1>4. ASSUME NEW s \in 0 .. Slots - 1, g_seen'[s] # 0
      PROVE  Reachable(s)'
  <2>1. CASE s = t
    <3>1. g_seen'[s] = key
      BY <1>1, <1>2, <2>1
    <3>2. \A j \in 0 .. i - 1 : ~Ends(key, j)'
      BY <1>3 DEF Lands
    <3>3. QED
      BY <2>1, <3>1, <3>2 DEF Reachable, Slot
  <2>2. CASE s # t
    <3>1. g_seen'[s] = g_seen[s]
      BY <1>1, <1>2, <2>2
    <3>2. PICK n \in 0 .. Slots - 1 :
            s = Slot(g_seen[s], n) /\ \A j \in 0 .. n - 1 : ~Ends(g_seen[s], j)
      BY <1>4, <3>1 DEF ProbeInv, Reachable
    <3>3. g_seen[s] \in Keys /\ g_seen[s] # 0
      BY <1>2, <1>4, <3>1
    <3>4. \A j \in 0 .. n - 1 : ~Ends(g_seen[s], j)'
      <4>1. ASSUME NEW j \in 0 .. n - 1 PROVE ~Ends(g_seen[s], j)'
        <5>1. j \in Nat /\ ~Ends(g_seen[s], j)
          BY <3>2
        <5>2. g_seen'[s] = g_seen[s] /\ ~Ends(g_seen[s], j)'
          BY <1>3, <3>1, <3>3, <5>1
        <5>3. QED
          BY <5>2
      <4>2. QED
        BY <4>1
    <3>5. QED
      BY <3>1, <3>2, <3>4 DEF Reachable, Slot, Ends
  <2>3. QED
    BY <2>1, <2>2
<1>5. QED
  BY <1>4 DEF ProbeInv

(* A report keeps the table, the counts and their types, and leaves its    *)
(* key, unless it is 0, with a line in the log.                            *)
LEMMA ReportStep ==
  ASSUME TrapTypeOK, ProbeInv, CountInv, NEW key \in Keys, Report(key)
  PROVE  /\ g_seen' \in [0 .. Slots - 1 -> Keys \cup {0}]
         /\ reports' \in [Keys -> Nat]
         /\ ProbeInv' /\ CountInv'
         /\ \A k \in Keys : reports'[k] >= reports[k]
         /\ key # 0 => reports'[key] > 0
<1> DEFINE Goal == /\ g_seen' \in [0 .. Slots - 1 -> Keys \cup {0}]
                   /\ reports' \in [Keys -> Nat]
                   /\ ProbeInv' /\ CountInv'
                   /\ \A k \in Keys : reports'[k] >= reports[k]
                   /\ key # 0 => reports'[key] > 0
<1>1. g_seen \in [0 .. Slots - 1 -> Keys \cup {0}] /\ reports \in [Keys -> Nat]
  BY DEF TrapTypeOK
<1>2. ASSUME NEW i \in 0 .. Slots - 1, Lands(key, i), g_seen[Slot(key, i)] = key,
             UNCHANGED << g_seen, reports >>
      PROVE  Goal
  <2>1. ProbeInv' /\ CountInv'
    BY <1>2 DEF ProbeInv, CountInv, Reachable, Ends, Slot, Remembered
  <2>2. key # 0 => reports[key] = 1
    <3>1. Slot(key, i) \in 0 .. Slots - 1
      BY SlotType
    <3>2. key \in Remembered
      BY <1>2, <3>1 DEF Remembered
    <3>3. QED
      BY <3>2 DEF CountInv
  <2>3. QED
    BY <1>1, <1>2, <2>1, <2>2
<1>3. ASSUME NEW i \in 0 .. Slots - 1, Lands(key, i), g_seen[Slot(key, i)] # key,
             g_seen' = [g_seen EXCEPT ![Slot(key, i)] = key], Reported(key)
      PROVE  Goal
  <2> DEFINE t == Slot(key, i)
  <2>1. t \in 0 .. Slots - 1
    BY SlotType
  <2>2. g_seen[t] = 0 /\ key # 0
    BY <1>3 DEF Lands, Ends
  <2>3. ProbeInv'
    BY <1>3, <2>2, StoreKeepsProbe
  <2>4. key \notin Remembered /\ 0 \in Remembered
    BY <1>3, <2>1, <2>2, StoredIsFound DEF Remembered
  <2>5. reports[key] = 0
    BY <2>4 DEF CountInv
  <2>6. reports' = [reports EXCEPT ![key] = reports[key] + 1]
    BY <1>3 DEF Reported
  <2>7. Remembered' \subseteq Remembered \cup {key} /\ key \in Remembered'
    BY <1>1, <1>3, <2>1 DEF Remembered
  <2>8. Remembered \ {0} \subseteq Remembered'
    BY <1>1, <1>3, <2>1, <2>2 DEF Remembered
  <2>9. reports'[key] = 1 /\ \A k \in Keys \ {key} : reports'[k] = reports[k]
    BY <1>1, <2>5, <2>6
  <2>10. CountInv'
    BY <2>4, <2>7, <2>8, <2>9, <2>2 DEF CountInv
  <2>11. QED
    BY <1>1, <1>3, <2>1, <2>3, <2>5, <2>6, <2>9, <2>10
<1>4. ASSUME \A i \in 0 .. Slots - 1 : ~Ends(key, i), Reported(key), UNCHANGED g_seen
      PROVE  Goal
  <2>1. key \notin Remembered /\ 0 \notin Remembered
    BY <1>4, NowhereIsFull
  <2>2. reports' = [reports EXCEPT ![key] = reports[key] + 1]
    BY <1>4 DEF Reported
  <2>3. ProbeInv' /\ Remembered' = Remembered
    BY <1>4 DEF ProbeInv, Reachable, Ends, Slot, Remembered
  <2>4. CountInv'
    BY <1>1, <2>1, <2>2, <2>3 DEF CountInv
  <2>5. QED
    BY <1>1, <1>4, <2>2, <2>3, <2>4
<1>5. QED
  BY <1>2, <1>3, <1>4 DEF Report

(* A trap. *)
LEMMA TrapStep ==
  ASSUME TrapInv, ~aborted, NEW key \in Keys, Trap(key)
  PROVE  TrapInv'
<1> USE DEF TrapInv
<1>1. /\ g_hits' = g_hits + 1 /\ g_trace' = (IF g_trace = -1 THEN env ELSE g_trace)
      /\ trapped' = trapped \cup {key} /\ env' = env
  BY DEF Trap
<1>2. TraceInv' /\ g_trace' \in {0, 1} /\ env' \in {0, 1} /\ g_hits' \in Nat
      /\ trapped' \subseteq Keys
  BY <1>1 DEF TraceInv, TrapTypeOK
<1>3. CASE g_trace' = 1
  <2>1. Report(key) /\ aborted' = aborted
    BY <1>3 DEF Trap
  <2>2. TrapTypeOK' /\ ProbeInv' /\ CountInv'
    BY <1>2, <2>1, ReportStep DEF TrapTypeOK
  <2>3. NoGapLost'
    <3>1. \A k \in trapped \ {0} : k \in Keys /\ reports[k] > 0
      BY DEF NoGapLost, TrapTypeOK
    <3>2. /\ \A k \in Keys : reports'[k] >= reports[k]
          /\ key # 0 => reports'[key] > 0
          /\ reports \in [Keys -> Nat] /\ reports' \in [Keys -> Nat]
      BY <2>1, ReportStep DEF TrapTypeOK
    <3>3. ASSUME NEW k \in trapped' \ {0} PROVE reports'[k] > 0
      <4>1. CASE k = key
        BY <3>2, <3>3, <4>1
      <4>2. CASE k # key
        <5>1. k \in Keys /\ reports[k] > 0 /\ reports'[k] >= reports[k]
          BY <1>1, <3>1, <3>2, <3>3, <4>2
        <5>2. QED
          BY <3>2, <5>1
      <4>3. QED
        BY <4>1, <4>2
    <3>4. QED
      BY <3>3 DEF NoGapLost
  <2>4. QED
    BY <1>2, <2>2, <2>3
<1>4. CASE g_trace' # 1
  <2>1. aborted' = TRUE /\ UNCHANGED << g_seen, reports >>
    BY <1>4 DEF Trap
  <2>2. TrapTypeOK' /\ ProbeInv' /\ CountInv'
    BY <1>2, <2>1 DEF TrapTypeOK, ProbeInv, CountInv, Reachable, Ends, Slot, Remembered
  <2>3. QED
    BY <1>2, <2>1, <2>2 DEF NoGapLost
<1>5. QED
  BY <1>3, <1>4

(* A step that takes no trap. *)
LEMMA TrapStutter ==
  ASSUME TrapInv, UNCHANGED trapVars
  PROVE  TrapInv'
  BY DEF TrapInv, trapVars, TrapTypeOK, ProbeInv, CountInv, TraceInv, NoGapLost,
         Reachable, Ends, Slot, Remembered

(* A key written twice found a full table and no slot. *)
LEMMA TrapInvReportedOnce == TrapInv => ReportedOnce
<1> SUFFICES ASSUME TrapInv, NEW k \in Keys, reports[k] > 1
             PROVE  0 \notin Remembered /\ k \notin Remembered
  BY DEF ReportedOnce
<1>1. k # 0 => k \notin Remembered
  BY DEF TrapInv, CountInv
<1>2. 0 \notin Remembered
  BY <1>1 DEF TrapInv, CountInv
<1>3. QED
  BY <1>1, <1>2

--------------------------------------------------------------------------------
(* The merge, the search and the transfers.                                *)

USE ModulesAssumption, CallsAssumption

(* The entries in front of the cursors of the merge: below what is still   *)
(* to come, and above or equal to nothing twice.                           *)
OrderInv ==
  /\ \A p \in DOMAIN table :
       /\ fi <= NF => table[p].addr < mod.funcs[fi]
       /\ si <= NS => table[p].addr <= mod.stubs[si]
       /\ si <= NS /\ StubsDistinct => table[p].addr < mod.stubs[si]
  /\ StubsDistinct =>
       \A p, r \in DOMAIN table : p < r => table[p].addr < table[r].addr

(* Every entry in front of the cursors has its place in the table ...      *)
CompleteInv ==
  /\ \A i \in 1 .. si - 1 :
       \E p \in DOMAIN table : table[p].addr = mod.stubs[i]
  /\ \A i \in 1 .. fi - 1 :
       \E p \in DOMAIN table : table[p].addr = mod.funcs[i]

(* ... and the table has nothing else, with stubs as what they are.        *)
SoundInv ==
  \A p \in DOMAIN table :
    \/ /\ table[p].fn \in 1 .. NS
       /\ table[p].addr = mod.stubs[table[p].fn]
    \/ /\ table[p].fn = 0
       /\ table[p].addr \in Funcs \ Stubs

(* Two imports that share a stub end up next to each other.                *)
TwinInv ==
  /\ si > 1 =>
       /\ table # <<>>
       /\ fi <= NF => mod.stubs[si - 1] < mod.funcs[fi]
       /\ si <= NS /\ mod.stubs[si - 1] = mod.stubs[si] =>
            table[Len(table)].addr = mod.stubs[si - 1]
  /\ \A i \in 2 .. si - 1 : mod.stubs[i - 1] = mod.stubs[i] => ~Sorted

PhaseInv ==
  /\ phase # "merge" => si = NS + 1 /\ fi = NF + 1
  /\ phase \in {"merge", "init"} =>
       g_count = 0 /\ hits = 0 /\ misses = 0 /\ last = [addr |-> None, ran |-> None]
  /\ phase \in {"idle", "search"} => g_count = IF Sorted THEN Len(table) ELSE 0

(* The bounds of the search enclose the entry it is for. *)
SearchInv ==
  phase = "search" =>
    /\ ~aborted /\ from \in Keys
    /\ \A p \in DOMAIN table :
         g_count # 0 /\ table[p].addr = Key => lo < p /\ p <= hi

MergeInv == OrderInv /\ CompleteInv /\ SoundInv /\ TwinInv

(* The invariant of the table and its search ... *)
TableInv == mod \in Modules /\ TypeOK /\ MergeInv /\ PhaseInv /\ SearchInv

(* ... and of what the transfers come to. *)
DispInv == TableInv /\ TrapInv /\ TransfersResolve /\ RefusedNotWrong /\ GapsStop

--------------------------------------------------------------------------------
(* The two lists of a module. *)
LEMMA ModuleFacts ==
  ASSUME mod \in Modules
  PROVE  /\ NF \in Nat /\ NS \in Nat
         /\ DOMAIN mod.funcs = 1 .. NF /\ DOMAIN mod.stubs = 1 .. NS
         /\ \A i \in 1 .. NF : mod.funcs[i] \in Nat /\ mod.funcs[i] \in Keys
         /\ \A i \in 1 .. NS : mod.stubs[i] \in Nat /\ mod.stubs[i] \in Keys
         /\ \A i \in 1 .. NS : mod.nids[i] \in Keys
         /\ \A i, j \in 1 .. NF : i < j => mod.funcs[i] < mod.funcs[j]
         /\ \A i, j \in 1 .. NS : i < j => mod.stubs[i] <= mod.stubs[j]
         /\ StubsDistinct =>
              \A i, j \in 1 .. NS : i < j => mod.stubs[i] < mod.stubs[j]
<1>1. mod \in Module /\ Increasing(mod.funcs) /\ Nondecreasing(mod.stubs)
      /\ DOMAIN mod.nids = DOMAIN mod.stubs
      /\ (\A i \in DOMAIN mod.funcs : mod.funcs[i] \in Keys)
      /\ (\A i \in DOMAIN mod.stubs : mod.stubs[i] \in Keys)
  OBVIOUS
<1>2. mod.funcs \in Seq(Nat) /\ mod.stubs \in Seq(Nat) /\ mod.nids \in Seq(Keys)
  BY <1>1 DEF Module
<1>3. /\ NF \in Nat /\ NS \in Nat
      /\ DOMAIN mod.funcs = 1 .. NF /\ DOMAIN mod.stubs = 1 .. NS
  BY <1>2, LenProperties DEF NF, NS
<1>4. /\ \A i \in 1 .. NF : mod.funcs[i] \in Nat
      /\ \A i \in 1 .. NS : mod.stubs[i] \in Nat
      /\ \A i \in 1 .. NS : mod.nids[i] \in Keys
  BY SMTT(30), <1>1, <1>2, <1>3, ElementOfSeq
<1>5. QED
  BY <1>1, <1>3, <1>4 DEF Increasing, Nondecreasing, StubsDistinct

LEMMA TableFacts ==
  ASSUME TypeOK
  PROVE  /\ table \in Seq(Entry) /\ Len(table) \in Nat
         /\ DOMAIN table = 1 .. Len(table)
         /\ \A p \in 1 .. Len(table) : table[p].addr \in Nat /\ table[p].fn \in Nat
<1>1. table \in Seq(Entry)
  BY DEF TypeOK
<1>2. Len(table) \in Nat /\ DOMAIN table = 1 .. Len(table)
  BY <1>1, LenProperties
<1>3. \A p \in 1 .. Len(table) : table[p] \in Entry
  BY <1>1, <1>2, ElementOfSeq
<1>4. QED
  BY <1>1, <1>2, <1>3 DEF Entry

(* What one more entry makes of the table. *)
LEMMA Pushed ==
  ASSUME TypeOK, NEW e \in Entry, table' = Append(table, e)
  PROVE  /\ table' \in Seq(Entry)
         /\ Len(table') = Len(table) + 1 /\ DOMAIN table' = 1 .. Len(table) + 1
         /\ table'[Len(table) + 1] = e
         /\ \A p \in 1 .. Len(table) : table'[p] = table[p]
         /\ ~Sorted => ~Sorted'
         /\ table # <<>> /\ e.addr <= table[Len(table)].addr => ~Sorted'
<1>1. table \in Seq(Entry) /\ Len(table) \in Nat
      /\ \A p \in 1 .. Len(table) : table[p].addr \in Nat
  BY TableFacts
<1>2. /\ table' \in Seq(Entry)
      /\ Len(table') = Len(table) + 1 /\ DOMAIN table' = 1 .. Len(table) + 1
      /\ table'[Len(table) + 1] = e
      /\ \A p \in 1 .. Len(table) : table'[p] = table[p]
  BY <1>1, AppendProperties, LenProperties
<1>3. ~Sorted => ~Sorted'
  BY <1>1, <1>2 DEF Sorted
<1>4. table # <<>> /\ e.addr <= table[Len(table)].addr => ~Sorted'
  <2> SUFFICES ASSUME table # <<>>, e.addr <= table[Len(table)].addr PROVE ~Sorted'
    OBVIOUS
  <2>1. Len(table) # 0
    BY <1>1, EmptySeq
  <2> DEFINE n == Len(table) + 1
  <2>2. n \in 2 .. Len(table') /\ n - 1 = Len(table) /\ n - 1 \in 1 .. Len(table)
    BY <1>1, <1>2, <2>1
  <2>3. table'[n - 1] = table[Len(table)] /\ table'[n] = e /\ e.addr \in Nat
    BY <1>2, <2>2 DEF Entry
  <2>4. ~(table'[n - 1].addr < table'[n].addr)
    BY <1>1, <2>2, <2>3
  <2>5. QED
    BY <2>2, <2>4 DEF Sorted
<1>5. QED
  BY <1>2, <1>3, <1>4

--------------------------------------------------------------------------------
(* The merge. *)

(* A stub takes its place, with the function it shadows or without. *)
LEMMA AddStub ==
  ASSUME TableInv, si <= NS, table' = StubEntry, si' = si + 1, mod' = mod,
         \/ fi' = fi /\ (fi <= NF => mod.stubs[si] < mod.funcs[fi])
         \/ fi' = fi + 1 /\ fi <= NF /\ mod.stubs[si] = mod.funcs[fi]
  PROVE  table' \in Seq(Entry) /\ MergeInv'
<1> DEFINE L == Len(table)
           a == mod.stubs[si]
           e == [addr |-> a, fn |-> si]
<1> USE DEF TableInv, MergeInv
<1>1. si \in 1 .. NS /\ fi \in 1 .. NF + 1 /\ NF \in Nat /\ NS \in Nat /\ a \in Nat
  BY ModuleFacts DEF TypeOK
<1>2. e \in Entry
  BY <1>1 DEF Entry
<1>3. /\ table' \in Seq(Entry) /\ L \in Nat
      /\ DOMAIN table = 1 .. L /\ DOMAIN table' = 1 .. L + 1 /\ Len(table') = L + 1
      /\ table'[L + 1] = e
      /\ \A p \in 1 .. L : table'[p] = table[p] /\ table[p].addr \in Nat
      /\ ~Sorted => ~Sorted'
      /\ table # <<>> /\ a <= table[L].addr => ~Sorted'
  BY <1>2, Pushed, TableFacts DEF StubEntry
<1>4. /\ NF' = NF /\ NS' = NS /\ Funcs' = Funcs /\ Stubs' = Stubs
      /\ StubsDistinct' = StubsDistinct
  BY DEF NF, NS, Funcs, Stubs, StubsDistinct, Increasing
<1>5. fi' <= NF => a < mod.funcs[fi'] /\ (fi' = fi \/ mod.funcs[fi] < mod.funcs[fi'])
  BY <1>1, ModuleFacts
<1>6. OrderInv'
  <2>1. ASSUME NEW p \in 1 .. L
        PROVE  /\ fi' <= NF => table[p].addr < mod.funcs[fi']
               /\ si + 1 <= NS => table[p].addr <= mod.stubs[si + 1]
               /\ si + 1 <= NS /\ StubsDistinct => table[p].addr < mod.stubs[si + 1]
               /\ StubsDistinct => table[p].addr < a
    <3>1. /\ fi <= NF => table[p].addr < mod.funcs[fi]
          /\ table[p].addr <= a /\ (StubsDistinct => table[p].addr < a)
      BY <1>1, <1>3 DEF OrderInv
    <3>2. table[p].addr \in Nat
      BY <1>3
    <3>3. fi' <= NF => table[p].addr < mod.funcs[fi']
      BY SMTT(30), <1>1, <1>5, <3>1, <3>2, ModuleFacts
    <3>4. si + 1 <= NS => a <= mod.stubs[si + 1] /\ mod.stubs[si + 1] \in Nat
      BY SMTT(30), <1>1, ModuleFacts
    <3>5. QED
      BY SMTT(30), <1>1, <3>1, <3>2, <3>3, <3>4
  <2>2. /\ si + 1 <= NS => a <= mod.stubs[si + 1]
        /\ si + 1 <= NS /\ StubsDistinct => a < mod.stubs[si + 1]
    BY <1>1, ModuleFacts
  <2>3. StubsDistinct => \A p, r \in 1 .. L : p < r => table[p].addr < table[r].addr
    BY <1>3 DEF OrderInv
  <2>4. \A p \in 1 .. L + 1 : p \in 1 .. L \/ p = L + 1
    BY <1>3
  <2>5. StubsDistinct =>
          \A p, r \in 1 .. L + 1 : p < r => table'[p].addr < table'[r].addr
    <3> SUFFICES ASSUME StubsDistinct, NEW p \in 1 .. L + 1, NEW r \in 1 .. L + 1, p < r
                 PROVE  table'[p].addr < table'[r].addr
      OBVIOUS
    <3>1. p \in 1 .. L
      BY <1>3
    <3>2. CASE r \in 1 .. L
      BY <1>3, <2>3, <3>1, <3>2
    <3>3. CASE r = L + 1
      BY <1>3, <2>1, <3>1, <3>3
    <3>4. QED
      BY <2>4, <3>2, <3>3
  <2>6. \A p \in 1 .. L + 1 :
          /\ fi' <= NF => table'[p].addr < mod.funcs[fi']
          /\ si + 1 <= NS => table'[p].addr <= mod.stubs[si + 1]
          /\ si + 1 <= NS /\ StubsDistinct => table'[p].addr < mod.stubs[si + 1]
    BY <1>3, <1>5, <2>1, <2>2, <2>4
  <2>7. QED
    BY <1>3, <1>4, <2>5, <2>6 DEF OrderInv
<1>7. CompleteInv'
  <2>1. ASSUME NEW i \in 1 .. si PROVE \E p \in DOMAIN table' : table'[p].addr = mod.stubs[i]
    <3>1. CASE i = si
      BY <1>3, <3>1
    <3>2. CASE i # si
      <4>1. PICK p \in DOMAIN table : table[p].addr = mod.stubs[i]
        BY <1>1, <3>2 DEF CompleteInv
      <4>2. QED
        BY <1>3, <4>1
    <3>3. QED
      BY <3>1, <3>2
  <2>2. ASSUME NEW i \in 1 .. fi' - 1
        PROVE  \E p \in DOMAIN table' : table'[p].addr = mod.funcs[i]
    <3>1. CASE i \in 1 .. fi - 1
      <4>1. PICK p \in DOMAIN table : table[p].addr = mod.funcs[i]
        BY <3>1 DEF CompleteInv
      <4>2. QED
        BY <1>3, <4>1
    <3>2. CASE i \notin 1 .. fi - 1
      <4>1. i = fi /\ mod.funcs[fi] = a
        BY <1>1, <3>2
      <4>2. QED
        BY <1>3, <4>1
    <3>3. QED
      BY <3>1, <3>2
  <2>3. si' - 1 = si
    BY <1>1
  <2>4. QED
    BY <2>1, <2>2, <2>3 DEF CompleteInv
<1>8. SoundInv'
  <2>1. ASSUME NEW p \in 1 .. L + 1
        PROVE  \/ table'[p].fn \in 1 .. NS /\ table'[p].addr = mod.stubs[table'[p].fn]
               \/ table'[p].fn = 0 /\ table'[p].addr \in Funcs \ Stubs
    <3>1. CASE p = L + 1
      BY <1>1, <1>3, <3>1
    <3>2. CASE p # L + 1
      BY <1>3, <3>2 DEF SoundInv
    <3>3. QED
      BY <3>1, <3>2
  <2>2. QED
    BY <1>3, <1>4, <2>1 DEF SoundInv
<1>9. TwinInv'
  <2>1. table' # <<>> /\ table'[Len(table')].addr = a /\ si' - 1 = si
    BY <1>1, <1>3, EmptySeq
  <2>2. ASSUME NEW i \in 2 .. si, mod.stubs[i - 1] = mod.stubs[i] PROVE ~Sorted'
    <3>1. CASE i = si
      BY <1>1, <1>3, <2>2, <3>1 DEF TwinInv
    <3>2. CASE i # si
      BY <1>1, <1>3, <2>2, <3>2 DEF TwinInv
    <3>3. QED
      BY <3>1, <3>2
  <2>3. QED
    BY <1>4, <1>5, <2>1, <2>2 DEF TwinInv
<1>10. QED
  BY <1>3, <1>6, <1>7, <1>8, <1>9

(* A function that is no stub takes its place. *)
LEMMA AddFunc ==
  ASSUME TableInv, fi <= NF, si <= NS => mod.stubs[si] > mod.funcs[fi],
         table' = FuncEntry, fi' = fi + 1, si' = si, mod' = mod
  PROVE  table' \in Seq(Entry) /\ MergeInv'
<1> DEFINE L == Len(table)
           a == mod.funcs[fi]
           e == [addr |-> a, fn |-> 0]
<1> USE DEF TableInv, MergeInv
<1>1. fi \in 1 .. NF /\ si \in 1 .. NS + 1 /\ NF \in Nat /\ NS \in Nat /\ a \in Nat
  BY ModuleFacts DEF TypeOK
<1>2. e \in Entry
  BY <1>1 DEF Entry
<1>3. /\ table' \in Seq(Entry) /\ L \in Nat
      /\ DOMAIN table = 1 .. L /\ DOMAIN table' = 1 .. L + 1 /\ Len(table') = L + 1
      /\ table'[L + 1] = e
      /\ \A p \in 1 .. L : table'[p] = table[p] /\ table[p].addr \in Nat
      /\ ~Sorted => ~Sorted'
  BY <1>2, Pushed, TableFacts DEF FuncEntry
<1>4. /\ NF' = NF /\ NS' = NS /\ Funcs' = Funcs /\ Stubs' = Stubs
      /\ StubsDistinct' = StubsDistinct
  BY DEF NF, NS, Funcs, Stubs, StubsDistinct, Increasing
<1>5. fi + 1 <= NF => a < mod.funcs[fi + 1] /\ mod.funcs[fi + 1] \in Nat
  BY <1>1, ModuleFacts
<1>6. si <= NS => a < mod.stubs[si] /\ mod.stubs[si] \in Nat
  BY <1>1, ModuleFacts
<1>7. \A p \in 1 .. L : table[p].addr < a
  BY <1>1, <1>3 DEF OrderInv
<1>8. \A p \in 1 .. L + 1 : p \in 1 .. L \/ p = L + 1
  BY <1>3
<1>9. OrderInv'
  <2>1. StubsDistinct => \A p, r \in 1 .. L : p < r => table[p].addr < table[r].addr
    BY <1>3 DEF OrderInv
  <2>2. StubsDistinct =>
          \A p, r \in 1 .. L + 1 : p < r => table'[p].addr < table'[r].addr
    <3> SUFFICES ASSUME StubsDistinct, NEW p \in 1 .. L + 1, NEW r \in 1 .. L + 1, p < r
                 PROVE  table'[p].addr < table'[r].addr
      OBVIOUS
    <3>1. p \in 1 .. L
      BY <1>3
    <3>2. CASE r \in 1 .. L
      BY <1>3, <2>1, <3>1, <3>2
    <3>3. CASE r = L + 1
      BY <1>3, <1>7, <3>1, <3>3
    <3>4. QED
      BY <1>8, <3>2, <3>3
  <2>3. ASSUME NEW p \in 1 .. L + 1
        PROVE  /\ fi + 1 <= NF => table'[p].addr < mod.funcs[fi + 1]
               /\ si <= NS => table'[p].addr < mod.stubs[si]
    <3>1. table'[p].addr <= a /\ table'[p].addr \in Nat
      BY SMTT(30), <1>1, <1>3, <1>7, <1>8
    <3>2. QED
      BY SMTT(30), <1>1, <1>5, <1>6, <3>1
  <2>4. si <= NS => \A p \in 1 .. L + 1 : table'[p].addr <= mod.stubs[si]
    BY SMTT(30), <1>1, <1>3, <1>6, <1>7, <1>8
  <2>5. QED
    BY <1>3, <1>4, <2>2, <2>3, <2>4 DEF OrderInv
<1>10. CompleteInv'
  <2>1. ASSUME NEW i \in 1 .. si - 1
        PROVE  \E p \in DOMAIN table' : table'[p].addr = mod.stubs[i]
    <3>1. PICK p \in DOMAIN table : table[p].addr = mod.stubs[i]
      BY DEF CompleteInv
    <3>2. QED
      BY <1>3, <3>1
  <2>2. ASSUME NEW i \in 1 .. fi
        PROVE  \E p \in DOMAIN table' : table'[p].addr = mod.funcs[i]
    <3>1. CASE i = fi
      BY <1>3, <3>1
    <3>2. CASE i # fi
      <4>1. PICK p \in DOMAIN table : table[p].addr = mod.funcs[i]
        BY <1>1, <3>2 DEF CompleteInv
      <4>2. QED
        BY <1>3, <4>1
    <3>3. QED
      BY <3>1, <3>2
  <2>3. fi' - 1 = fi
    BY <1>1
  <2>4. QED
    BY <2>1, <2>2, <2>3 DEF CompleteInv
<1>11. a \in Funcs \ Stubs
  <2>1. a \in Funcs
    BY <1>1, ModuleFacts DEF Funcs
  <2>2. ASSUME NEW j \in DOMAIN mod.stubs PROVE mod.stubs[j] # a
    <3>1. j \in 1 .. NS
      BY ModuleFacts
    <3>2. CASE j < si
      <4>1. PICK p \in DOMAIN table : table[p].addr = mod.stubs[j]
        BY <1>1, <3>1, <3>2 DEF CompleteInv
      <4>2. QED
        BY <1>1, <1>3, <1>7, <4>1
    <3>3. CASE j >= si
      <4>1. mod.stubs[si] <= mod.stubs[j] /\ a < mod.stubs[si] /\ mod.stubs[j] \in Nat
        BY SMTT(30), <1>1, <1>6, <3>1, <3>3, ModuleFacts
      <4>2. QED
        BY <1>1, <1>6, <3>1, <3>3, <4>1
    <3>4. QED
      BY <1>1, <3>1, <3>2, <3>3
  <2>3. QED
    BY <2>1, <2>2 DEF Stubs
<1>12. SoundInv'
  <2>1. ASSUME NEW p \in 1 .. L + 1
        PROVE  \/ table'[p].fn \in 1 .. NS /\ table'[p].addr = mod.stubs[table'[p].fn]
               \/ table'[p].fn = 0 /\ table'[p].addr \in Funcs \ Stubs
    <3>1. CASE p = L + 1
      BY <1>3, <1>11, <3>1
    <3>2. CASE p # L + 1
      BY SMTT(30), <1>3, <3>2 DEF SoundInv
    <3>3. QED
      BY <3>1, <3>2
  <2>2. QED
    BY <1>3, <1>4, <2>1 DEF SoundInv
<1>13. TwinInv'
  <2>1. table' # <<>>
    BY <1>3, EmptySeq
  <2>2. ASSUME si > 1
        PROVE  /\ fi + 1 <= NF => mod.stubs[si - 1] < mod.funcs[fi + 1]
               /\ ~(si <= NS /\ mod.stubs[si - 1] = mod.stubs[si])
    <3>1. mod.stubs[si - 1] < a /\ mod.stubs[si - 1] \in Nat
      <4>1. si - 1 \in 1 .. NS
        BY <1>1, <2>2
      <4>2. QED
        BY <1>1, <2>2, <4>1, ModuleFacts DEF TwinInv
    <3>2. QED
      BY <1>1, <1>5, <1>6, <3>1
  <2>3. \A i \in 2 .. si - 1 : mod.stubs[i - 1] = mod.stubs[i] => ~Sorted'
    BY <1>3 DEF TwinInv
  <2>4. QED
    BY <1>4, <2>1, <2>2, <2>3 DEF TwinInv
<1>14. QED
  BY <1>3, <1>9, <1>10, <1>12, <1>13

(* The finished table: what the runtime's check finds out. *)
LEMMA FinishedTable ==
  ASSUME TableInv, phase # "merge"
  PROVE  /\ StubsDistinct <=> Sorted
         /\ StubsDistinct =>
              \A p, r \in 1 .. Len(table) : p < r => table[p].addr < table[r].addr
         /\ { table[p].addr : p \in DOMAIN table } = Funcs \cup Stubs
<1> USE DEF TableInv, MergeInv
<1>1. si = NS + 1 /\ fi = NF + 1 /\ NS \in Nat /\ NF \in Nat
  BY ModuleFacts DEF PhaseInv
<1>2. DOMAIN table = 1 .. Len(table) /\ Len(table) \in Nat
  BY TableFacts
<1>3. StubsDistinct =>
        \A p, r \in 1 .. Len(table) : p < r => table[p].addr < table[r].addr
  BY <1>2 DEF OrderInv
<1>4. StubsDistinct => Sorted
  <2> SUFFICES ASSUME StubsDistinct, NEW i \in 2 .. Len(table)
               PROVE  table[i - 1].addr < table[i].addr
    BY DEF Sorted
  <2>1. i - 1 \in 1 .. Len(table) /\ i \in 1 .. Len(table) /\ i - 1 < i
    BY <1>2
  <2>2. QED
    BY <1>3, <2>1
<1>5. ~StubsDistinct => ~Sorted
  <2> SUFFICES ASSUME ~StubsDistinct PROVE ~Sorted
    OBVIOUS
  <2>1. PICK i \in 1 .. NS, j \in 1 .. NS : i < j /\ ~(mod.stubs[i] < mod.stubs[j])
    BY ModuleFacts DEF StubsDistinct, Increasing
  <2>2. i + 1 \in 2 .. NS /\ i + 1 \in 1 .. NS /\ (i + 1) - 1 = i
    BY <1>1, <2>1
  <2>3. /\ mod.stubs[i] <= mod.stubs[i + 1]
        /\ i + 1 = j \/ mod.stubs[i + 1] <= mod.stubs[j]
        /\ mod.stubs[i] \in Nat /\ mod.stubs[j] \in Nat /\ mod.stubs[i + 1] \in Nat
    BY <2>1, <2>2, ModuleFacts
  <2>4. mod.stubs[i] = mod.stubs[i + 1]
    BY <2>1, <2>3
  <2>5. i + 1 \in 2 .. si - 1
    BY <1>1, <2>2
  <2>6. QED
    BY <2>2, <2>4, <2>5 DEF TwinInv
<1>6. { table[p].addr : p \in DOMAIN table } = Funcs \cup Stubs
  <2>1. ASSUME NEW p \in DOMAIN table PROVE table[p].addr \in Funcs \cup Stubs
    BY <2>1, ModuleFacts DEF SoundInv, Stubs
  <2>2. ASSUME NEW i \in DOMAIN mod.funcs PROVE \E p \in DOMAIN table : table[p].addr = mod.funcs[i]
    BY <1>1, ModuleFacts DEF CompleteInv
  <2>3. ASSUME NEW i \in DOMAIN mod.stubs PROVE \E p \in DOMAIN table : table[p].addr = mod.stubs[i]
    BY <1>1, ModuleFacts DEF CompleteInv
  <2>4. QED
    BY <2>1, <2>2, <2>3 DEF Funcs, Stubs
<1>7. QED
  BY <1>3, <1>4, <1>5, <1>6

--------------------------------------------------------------------------------
(* The search. *)

(* The address the search looks for is the one the pointer names. *)
LEMMA KeyIsCodeAddr ==
  ASSUME addr \in Nat
  PROVE  Key = CodeAddr(addr) /\ Key \in Nat
  BY DEF Key, Masked, CodeAddr

(* A search under way is of a sorted table, at a place inside it. *)
LEMMA SearchingFacts ==
  ASSUME TableInv, Searching
  PROVE  /\ Mid \in Nat /\ lo <= Mid /\ Mid < hi
         /\ Mid + 1 \in 1 .. Len(table)
         /\ g_count = Len(table) /\ g_count # 0 /\ StubsDistinct
         /\ Probed \in Entry /\ addr \in Nat
<1> USE DEF TableInv
<1>1. /\ g_count \in {0, Len(table)} /\ Len(table) \in Nat /\ addr \in Nat
      /\ lo \in 0 .. g_count /\ hi \in 0 .. g_count /\ lo < hi
  BY TableFacts DEF TypeOK, Searching
<1>2. g_count = Len(table) /\ g_count # 0
  BY <1>1
<1>3. StubsDistinct
  BY <1>2, FinishedTable DEF PhaseInv, Searching
<1>4. Mid \in Nat /\ lo <= Mid /\ Mid < hi
  BY <1>1 DEF Mid
<1>5. Mid + 1 \in 1 .. Len(table)
  BY <1>1, <1>2, <1>4
<1>6. Probed \in Entry
  BY <1>5, TableFacts, ElementOfSeq DEF Probed
<1>7. QED
  BY <1>1, <1>2, <1>3, <1>4, <1>5, <1>6

(* Half of the bounds are left, and the entry is in that half. *)
LEMMA NarrowStep ==
  ASSUME TableInv, Narrow
  PROVE  /\ lo' \in 0 .. g_count /\ hi' \in 0 .. g_count
         /\ \A p \in DOMAIN table : table[p].addr = Key => lo' < p /\ p <= hi'
<1>1. Searching /\ Probed.addr # Key
      /\ IF Probed.addr < Key THEN lo' = Mid + 1 /\ hi' = hi ELSE hi' = Mid /\ lo' = lo
  BY DEF Narrow
<1>2. /\ Mid \in Nat /\ lo <= Mid /\ Mid < hi
      /\ Mid + 1 \in 1 .. Len(table) /\ g_count = Len(table) /\ g_count # 0
      /\ StubsDistinct /\ Probed \in Entry /\ addr \in Nat
  BY <1>1, SearchingFacts
<1>3. lo \in 0 .. g_count /\ hi \in 0 .. g_count /\ Len(table) \in Nat
  BY TableFacts DEF TableInv, TypeOK
<1>4. \A p, r \in 1 .. Len(table) : p < r => table[p].addr < table[r].addr
  BY <1>1, <1>2, FinishedTable DEF Searching
<1>5. DOMAIN table = 1 .. Len(table)
      /\ \A p \in 1 .. Len(table) : table[p].addr \in Nat
  BY TableFacts DEF TableInv
<1>6. ASSUME NEW p \in DOMAIN table, table[p].addr = Key PROVE lo' < p /\ p <= hi'
  <2>1. lo < p /\ p <= hi /\ p \in 1 .. Len(table)
    BY <1>1, <1>2, <1>5, <1>6 DEF TableInv, SearchInv, Searching
  <2>2. CASE Probed.addr < Key
    <3>1. ~(p < Mid + 1) /\ p # Mid + 1
      BY <1>2, <1>4, <1>5, <1>6, <2>1, <2>2 DEF Probed
    <3>2. QED
      BY <1>1, <1>2, <1>3, <2>1, <2>2, <3>1
  <2>3. CASE ~(Probed.addr < Key)
    <3>1. p # Mid + 1
      BY <1>1, <1>6 DEF Probed
    <3>2. ~(Mid + 1 < p)
      BY <1>2, <1>4, <1>5, <1>6, <2>1, <2>3 DEF Probed
    <3>3. QED
      BY <1>1, <1>2, <1>3, <2>1, <2>3, <3>1, <3>2
  <2>4. QED
    BY <2>2, <2>3
<1>7. lo' \in 0 .. g_count /\ hi' \in 0 .. g_count
  BY <1>1, <1>2, <1>3
<1>8. QED
  BY <1>6, <1>7

(* What a found entry stands for. *)
LEMMA HitMeans ==
  ASSUME TableInv, Searching, Probed.addr = Key
  PROVE  /\ Means(addr, Probed.fn)
         /\ Probed.fn \in Nat /\ Probed.addr = CodeAddr(addr) /\ Probed.addr \in Keys
         /\ Probed.fn # 0 => Probed.fn \in 1 .. NS /\ mod.stubs[Probed.fn] \in Keys
                             /\ mod.nids[Probed.fn] \in Keys
<1>1. Mid + 1 \in DOMAIN table /\ Probed \in Entry /\ addr \in Nat
  BY SearchingFacts, TableFacts DEF TableInv
<1>2. Probed.addr = CodeAddr(addr)
  BY <1>1, KeyIsCodeAddr
<1>3. \/ Probed.fn \in 1 .. NS /\ Probed.addr = mod.stubs[Probed.fn]
      \/ Probed.fn = 0 /\ Probed.addr \in Funcs \ Stubs
  BY <1>1 DEF TableInv, MergeInv, SoundInv, Probed
<1>4. QED
  BY <1>1, <1>2, <1>3, ModuleFacts DEF Means, Entry, TableInv, Funcs

(* A search that ends without the address has a table without it. *)
LEMMA MissMeans ==
  ASSUME TableInv, phase = "search", lo >= hi, StubsDistinct
  PROVE  Means(addr, None)
<1>1. addr \in Nat /\ lo \in Nat /\ hi \in Nat
      /\ DOMAIN table = 1 .. Len(table) /\ Len(table) \in Nat
      /\ g_count \in {0, Len(table)}
  BY TableFacts DEF TableInv, TypeOK
<1>2. g_count = Len(table)
        /\ { table[p].addr : p \in DOMAIN table } = Funcs \cup Stubs
  BY FinishedTable DEF TableInv, PhaseInv
<1>3. \A p \in DOMAIN table : table[p].addr # Key
  BY <1>1, <1>2 DEF TableInv, SearchInv
<1>4. CodeAddr(addr) \notin Funcs \cup Stubs
  BY <1>1, <1>2, <1>3, KeyIsCodeAddr
<1>5. QED
  BY <1>4 DEF Means

--------------------------------------------------------------------------------
(* The steps. *)

(* A step that leaves what was merged alone. *)
LEMMA MergedStutter ==
  ASSUME MergeInv, UNCHANGED << mod, fi, si, table >>
  PROVE  MergeInv'
  BY DEF MergeInv, OrderInv, CompleteInv, SoundInv, TwinInv, Sorted, NF, NS, Funcs, Stubs,
         StubsDistinct, Increasing

LEMMA MergeStep ==
  ASSUME TableInv, TrapTypeOK', TakeStub \/ TakeFunc \/ TakeBoth
  PROVE  TableInv'
<1> USE DEF TableInv
<1>1. /\ phase = "merge" /\ phase' = phase
      /\ UNCHANGED << mod, g_count, lo, hi, from, addr, hits, misses, last >>
  BY DEF TakeStub, TakeFunc, TakeBoth, Merging, search
<1>2. /\ NF \in Nat /\ NS \in Nat
      /\ \A i \in 1 .. NF : mod.funcs[i] \in Nat
      /\ \A i \in 1 .. NS : mod.stubs[i] \in Nat
      /\ \A i \in 1 .. NF - 1 : mod.funcs[i] < mod.funcs[i + 1]
  <2>1. \A i, j \in 1 .. NF : i < j => mod.funcs[i] < mod.funcs[j]
    BY ModuleFacts
  <2>2. NF \in Nat
    BY ModuleFacts
  <2>3. \A i \in 1 .. NF - 1 : i \in 1 .. NF /\ i + 1 \in 1 .. NF /\ i < i + 1
    BY <2>2
  <2>4. QED
    BY <2>1, <2>2, <2>3, ModuleFacts
<1>3. fi \in 1 .. NF + 1 /\ si \in 1 .. NS + 1 /\ stub_shadowed \in Nat
  BY DEF TypeOK
<1>4. /\ table' \in Seq(Entry) /\ MergeInv'
      /\ fi' \in 1 .. NF + 1 /\ si' \in 1 .. NS + 1 /\ stub_shadowed' \in Nat
  <2>1. CASE TakeStub
    <3>1. si <= NS /\ table' = StubEntry /\ si' = si + 1 /\ fi' = fi
          /\ (fi <= NF => mod.stubs[si] < mod.funcs[fi]) /\ stub_shadowed' = stub_shadowed
      BY <2>1 DEF TakeStub, Merging
    <3>2. table' \in Seq(Entry) /\ MergeInv'
      BY <1>1, <3>1, AddStub
    <3>3. QED
      BY <1>2, <1>3, <3>1, <3>2
  <2>2. CASE TakeFunc
    <3>1. fi <= NF /\ table' = FuncEntry /\ fi' = fi + 1 /\ si' = si
          /\ (si <= NS => mod.stubs[si] > mod.funcs[fi]) /\ stub_shadowed' = stub_shadowed
      BY <2>2 DEF TakeFunc, Merging
    <3>2. table' \in Seq(Entry) /\ MergeInv'
      BY <1>1, <3>1, AddFunc
    <3>3. QED
      BY <1>2, <1>3, <3>1, <3>2
  <2>3. CASE TakeBoth
    <3>1. si <= NS /\ table' = StubEntry /\ si' = si + 1 /\ fi' = fi + 1 /\ fi <= NF
          /\ mod.stubs[si] = mod.funcs[fi] /\ stub_shadowed' = stub_shadowed + 1
      BY <2>3 DEF TakeBoth, Merging
    <3>2. table' \in Seq(Entry) /\ MergeInv'
      BY <1>1, <3>1, AddStub
    <3>3. QED
      BY <1>2, <1>3, <3>1, <3>2
  <2>4. QED
    BY <2>1, <2>2, <2>3
<1>5. NF' = NF /\ NS' = NS
  BY <1>1 DEF NF, NS
<1>6. g_count = 0
  BY <1>1 DEF PhaseInv
<1>7. TypeOK'
  BY <1>1, <1>4, <1>5, <1>6 DEF TypeOK
<1>8. PhaseInv' /\ SearchInv'
  BY <1>1 DEF PhaseInv, SearchInv
<1>9. QED
  BY <1>1, <1>4, <1>7, <1>8

LEMMA TableInvStep ==
  ASSUME TableInv, TrapTypeOK', Next
  PROVE  TableInv'
<1> USE DEF TableInv
<1>1. CASE TakeStub \/ TakeFunc \/ TakeBoth
  BY <1>1, MergeStep
<1>2. ASSUME ~(TakeStub \/ TakeFunc \/ TakeBoth)
      PROVE  UNCHANGED build
  BY <1>2 DEF Next, Build, Lookup, EndMerge, DispatchInit, Transfer, Narrow, Hit, Miss, Gap
<1>3. ASSUME UNCHANGED build
      PROVE  /\ MergeInv' /\ NF' = NF /\ NS' = NS /\ Sorted' = Sorted /\ mod' \in Modules
             /\ UNCHANGED << mod, fi, si, table, stub_shadowed >>
  BY <1>3, MergedStutter DEF build, NF, NS, Sorted
<1>4. CASE EndMerge
  <2>1. UNCHANGED build /\ phase' = "init" /\ phase = "merge" /\ si > NS /\ fi > NF
        /\ UNCHANGED << g_count, lo, hi, from, addr, hits, misses, last >>
    BY <1>4 DEF EndMerge, search
  <2>2. si = NS + 1 /\ fi = NF + 1
    BY <2>1, ModuleFacts DEF TypeOK
  <2>3. TypeOK'
    BY <1>3, <2>1 DEF TypeOK
  <2>4. PhaseInv' /\ SearchInv'
    BY <1>3, <2>1, <2>2 DEF PhaseInv, SearchInv
  <2>5. QED
    BY <1>3, <2>1, <2>3, <2>4
<1>5. CASE DispatchInit
  <2>1. UNCHANGED build /\ phase' = "idle" /\ phase = "init" /\ hits' = 0 /\ misses' = 0
        /\ g_count' = (IF Sorted THEN Len(table) ELSE 0)
        /\ UNCHANGED << lo, hi, from, addr, last >>
    BY <1>5 DEF DispatchInit, search
  <2>2. g_count = 0 /\ Len(table) \in Nat
    BY <2>1, TableFacts DEF PhaseInv
  <2>3. lo = 0 /\ hi = 0
    BY <2>2 DEF TypeOK
  <2>4. TypeOK'
    BY <1>3, <2>1, <2>2, <2>3 DEF TypeOK
  <2>5. PhaseInv' /\ SearchInv'
    BY <1>3, <2>1 DEF PhaseInv, SearchInv
  <2>6. QED
    BY <1>3, <2>1, <2>4, <2>5
<1>6. ASSUME NEW s \in Sites, NEW t \in Targets, Transfer(s, t)
      PROVE  TableInv'
  <2>1. UNCHANGED build /\ phase' = "search" /\ phase = "idle" /\ from' = s /\ addr' = t
        /\ lo' = 0 /\ hi' = g_count /\ ~aborted /\ aborted' = aborted
        /\ UNCHANGED << g_count, hits, misses, last >>
    BY <1>6 DEF Transfer, trapVars
  <2>2. Len(table) \in Nat /\ DOMAIN table = 1 .. Len(table) /\ g_count \in {0, Len(table)}
    BY TableFacts DEF TypeOK
  <2>3. TypeOK'
    BY <1>3, <2>1, <2>2 DEF TypeOK
  <2>4. PhaseInv'
    BY <1>3, <2>1 DEF PhaseInv
  <2>5. SearchInv'
    <3>1. s \in Keys /\ table' = table
      BY <1>3, <1>6, <2>1
    <3>2. ASSUME NEW p \in DOMAIN table, g_count # 0 PROVE 0 < p /\ p <= g_count
      <4>1. g_count = Len(table) /\ p \in 1 .. Len(table)
        BY <2>2, <3>2
      <4>2. QED
        BY <2>2, <4>1
    <3>3. QED
      BY <2>1, <3>1, <3>2 DEF SearchInv
  <2>6. QED
    BY <1>3, <2>1, <2>3, <2>4, <2>5
<1>7. CASE Narrow
  <2>1. UNCHANGED build /\ phase' = "search" /\ phase = "search" /\ aborted' = aborted
        /\ UNCHANGED << g_count, from, addr, hits, misses, last >>
    BY <1>7 DEF Narrow, Searching, trapVars
  <2>2. TypeOK'
    BY <1>3, <1>7, <2>1, NarrowStep DEF TypeOK
  <2>3. PhaseInv'
    BY <1>3, <2>1 DEF PhaseInv
  <2>4. Key' = Key
    BY <2>1 DEF Key
  <2>5. SearchInv'
    BY <1>3, <1>7, <2>1, <2>4, NarrowStep DEF SearchInv
  <2>6. QED
    BY <1>3, <2>1, <2>2, <2>3, <2>5
<1>8. CASE Hit
  <2>1. UNCHANGED build /\ phase' = "idle" /\ phase = "search" /\ hits' = hits + 1
        /\ last' = [addr |-> addr, ran |-> Probed.fn]
        /\ UNCHANGED << g_count, lo, hi, from, addr, misses >>
    BY <1>8 DEF Hit, Searching, search
  <2>2. Probed.fn \in Nat
    BY <1>8, HitMeans DEF Hit
  <2>3. TypeOK'
    BY <1>3, <2>1, <2>2 DEF TypeOK
  <2>4. PhaseInv' /\ SearchInv'
    BY <1>3, <2>1 DEF PhaseInv, SearchInv
  <2>5. QED
    BY <1>3, <2>1, <2>3, <2>4
<1>9. CASE Miss
  <2>1. UNCHANGED build /\ phase' = "idle" /\ phase = "search" /\ misses' = misses + 1
        /\ last' = [addr |-> addr, ran |-> None]
        /\ UNCHANGED << g_count, lo, hi, from, addr, hits >>
    BY <1>9 DEF Miss, search
  <2>2. TypeOK'
    BY <1>3, <2>1 DEF TypeOK
  <2>3. PhaseInv' /\ SearchInv'
    BY <1>3, <2>1 DEF PhaseInv, SearchInv
  <2>4. QED
    BY <1>3, <2>1, <2>2, <2>3
<1>10. ASSUME NEW k \in Gaps, Gap(k) PROVE TableInv'
  <2>1. UNCHANGED build /\ phase' = "idle" /\ phase = "idle"
        /\ UNCHANGED << g_count, lo, hi, from, addr, hits, misses, last >>
    BY <1>10 DEF Gap, search
  <2>2. TypeOK'
    BY <1>3, <2>1 DEF TypeOK
  <2>3. PhaseInv' /\ SearchInv'
    BY <1>3, <2>1 DEF PhaseInv, SearchInv
  <2>4. QED
    BY <1>3, <2>1, <2>2, <2>3
<1>11. QED
  BY <1>1, <1>4, <1>5, <1>6, <1>7, <1>8, <1>9, <1>10 DEF Next, Build, Lookup

(* The result of the last transfer stands while its module does. *)
LEMMA ResultStutter ==
  ASSUME TransfersResolve, UNCHANGED << mod, last >>
  PROVE  TransfersResolve'
  BY DEF TransfersResolve, Means, StubsDistinct, Increasing, Funcs, Stubs

LEMMA ResolveStep ==
  ASSUME TableInv, TransfersResolve, Next
  PROVE  TransfersResolve'
<1>1. CASE Hit
  <2>1. mod' = mod /\ last' = [addr |-> addr, ran |-> Probed.fn] /\ Searching
        /\ Probed.addr = Key
    BY <1>1 DEF Hit, build
  <2>2. Means(addr, Probed.fn)
    BY <2>1, HitMeans
  <2>3. QED
    BY <2>1, <2>2 DEF TransfersResolve, Means, Funcs, Stubs
<1>2. CASE Miss
  <2>1. mod' = mod /\ last' = [addr |-> addr, ran |-> None] /\ phase = "search" /\ lo >= hi
    BY <1>2 DEF Miss, build
  <2>2. StubsDistinct => Means(addr, None)
    BY <2>1, MissMeans
  <2>3. StubsDistinct' = StubsDistinct
    BY <2>1 DEF StubsDistinct, Increasing
  <2>4. QED
    BY <2>1, <2>2, <2>3 DEF TransfersResolve, Means, Funcs, Stubs
<1>3. CASE ~Hit /\ ~Miss
  <2>1. UNCHANGED << mod, last >>
    BY <1>3 DEF Next, Build, Lookup, TakeStub, TakeFunc, TakeBoth, Merging, EndMerge, DispatchInit,
                Transfer, Narrow, Gap, build
  <2>2. QED
    BY <2>1, ResultStutter
<1>4. QED
  BY <1>1, <1>2, <1>3

LEMMA RefusedStep ==
  ASSUME TableInv, RefusedNotWrong, Next
  PROVE  RefusedNotWrong'
<1>1. mod' = mod /\ StubsDistinct' = StubsDistinct
  <2>1. mod' = mod
    BY DEF Next, Build, Lookup, TakeStub, TakeFunc, TakeBoth, Merging, EndMerge, DispatchInit,
           Transfer, Narrow, Hit, Miss, Gap, build
  <2>2. QED
    BY <2>1 DEF StubsDistinct, Increasing
<1>2. CASE Hit
  BY <1>1, <1>2, SearchingFacts DEF Hit, RefusedNotWrong
<1>3. CASE Miss
  BY <1>1, <1>3 DEF Miss, RefusedNotWrong
<1>4. CASE ~Hit /\ ~Miss
  <2>1. last' = last /\ (hits' = hits \/ hits' = 0)
    BY <1>4 DEF Next, Build, Lookup, TakeStub, TakeFunc, TakeBoth, Merging, EndMerge,
                DispatchInit, Transfer, Narrow, Gap
  <2>2. QED
    BY <1>1, <2>1 DEF RefusedNotWrong
<1>5. QED
  BY <1>2, <1>3, <1>4

(* Without tracing a trap stops the program. *)
LEMMA TrapAborts ==
  ASSUME TrapInv, env = 0, NEW k, Trap(k)
  PROVE  aborted'
  BY DEF TrapInv, TraceInv, Trap

(* The traps of a step, if it has one, are on keys. *)
LEMMA TrapsOfStep ==
  ASSUME TableInv, Next
  PROVE  UNCHANGED trapVars \/ (~aborted /\ \E k \in Keys : Trap(k))
<1>1. CASE Hit
  <2>1. Searching /\ Probed.addr = Key /\ Enter(Probed)
    BY <1>1 DEF Hit
  <2>2. /\ Probed.addr \in Keys
        /\ Probed.fn # 0 => Probed.fn \in 1 .. NS /\ mod.stubs[Probed.fn] \in Keys
                            /\ mod.nids[Probed.fn] \in Keys
    BY <2>1, HitMeans
  <2>3. ~aborted
    BY <2>1 DEF TableInv, SearchInv, Searching
  <2>4. QED
    BY <2>1, <2>2, <2>3 DEF Enter, vita_trap_unimpl, vita_trap_import
<1>2. CASE Miss
  BY <1>2 DEF Miss, vita_trap_indirect, TableInv, SearchInv
<1>3. CASE \E k \in Gaps : Gap(k)
  BY <1>3 DEF Gap, vita_trap_unimpl
<1>4. CASE ~Hit /\ ~Miss /\ ~(\E k \in Gaps : Gap(k))
  BY <1>4 DEF Next, Build, Lookup, TakeStub, TakeFunc, TakeBoth, Merging, EndMerge, DispatchInit,
              Transfer, Narrow
<1>5. QED
  BY <1>1, <1>2, <1>3, <1>4

LEMMA GapsStep ==
  ASSUME TableInv, TrapInv, GapsStop, Next
  PROVE  GapsStop'
<1> SUFFICES ASSUME env' = 0, ~aborted' PROVE
      /\ misses' = 0
      /\ last'.addr # None =>
           IF last'.ran = 0 THEN CodeAddr(last'.addr) \in mod'.emitted
                            ELSE last'.ran \in mod'.implemented
  BY DEF GapsStop, CodeAddr
<1>1. env = 0 /\ UNCHANGED trapVars /\ mod' = mod
  <2>1. env' = env
    BY TrapsOfStep DEF Trap, trapVars
  <2>2. mod' = mod
    BY DEF Next, Build, Lookup, TakeStub, TakeFunc, TakeBoth, Merging, EndMerge, DispatchInit,
           Transfer, Narrow, Hit, Miss, Gap, build
  <2>3. QED
    BY <2>1, <2>2, TrapsOfStep, TrapAborts
<1>2. misses = 0 /\ (last.addr # None =>
         IF last.ran = 0 THEN CodeAddr(last.addr) \in mod.emitted
                         ELSE last.ran \in mod.implemented)
  BY <1>1 DEF GapsStop, trapVars
<1>3. CASE Hit
  <2>1. Searching /\ Probed.addr = Key /\ Enter(Probed) /\ misses' = misses
        /\ last' = [addr |-> addr, ran |-> Probed.fn]
    BY <1>3 DEF Hit
  <2>2. Probed.addr = CodeAddr(addr)
    BY <2>1, HitMeans
  <2>3. ~(\E k : Trap(k))
    BY <1>1, TrapAborts DEF trapVars
  <2>4. IF Probed.fn = 0 THEN Probed.addr \in mod.emitted ELSE Probed.fn \in mod.implemented
    BY <2>1, <2>3 DEF Enter, vita_trap_unimpl, vita_trap_import
  <2>5. QED
    BY <1>1, <1>2, <2>1, <2>2, <2>4
<1>4. CASE Miss
  BY <1>1, <1>4, TrapAborts DEF Miss, vita_trap_indirect
<1>5. CASE ~Hit /\ ~Miss
  <2>1. last' = last /\ (misses' = misses \/ misses' = 0)
    BY <1>5 DEF Next, Build, Lookup, TakeStub, TakeFunc, TakeBoth, Merging, EndMerge,
                DispatchInit, Transfer, Narrow, Gap
  <2>2. QED
    BY <1>1, <1>2, <2>1
<1>6. QED
  BY <1>3, <1>4, <1>5

--------------------------------------------------------------------------------
LEMMA InitDisp == Init => DispInv
<1> SUFFICES ASSUME Init PROVE DispInv
  OBVIOUS
<1> USE DEF Init
<1>1. TrapInv
  BY TrapInitInv
<1>2. mod \in Modules /\ NF \in Nat /\ NS \in Nat
  BY ModuleFacts
<1>3. table = <<>> /\ Len(table) = 0 /\ DOMAIN table = {} /\ table \in Seq(Entry)
  BY EmptySeq, LenProperties
<1>4. mod \in Module
  BY <1>2
<1>5. TypeOK
  BY <1>1, <1>2, <1>3, <1>4 DEF TypeOK, TrapInv
<1>6. MergeInv
  BY <1>2, <1>3 DEF MergeInv, OrderInv, CompleteInv, SoundInv, TwinInv
<1>7. PhaseInv /\ SearchInv
  BY DEF PhaseInv, SearchInv
<1>8. TransfersResolve /\ RefusedNotWrong /\ GapsStop
  BY DEF TransfersResolve, RefusedNotWrong, GapsStop
<1>9. QED
  BY <1>1, <1>2, <1>5, <1>6, <1>7, <1>8 DEF DispInv, TableInv

LEMMA StepDisp == DispInv /\ [Next]_vars => DispInv'
<1> SUFFICES ASSUME DispInv, [Next]_vars PROVE DispInv'
  OBVIOUS
<1> USE DEF DispInv
<1>1. CASE Next
  <2>1. TrapInv'
    BY <1>1, TrapsOfStep, TrapStep, TrapStutter
  <2>2. TrapTypeOK'
    BY <2>1 DEF TrapInv
  <2>3. QED
    BY <1>1, <2>1, <2>2, TableInvStep, ResolveStep, RefusedStep, GapsStep
<1>2. CASE UNCHANGED vars
  <2>1. UNCHANGED trapVars /\ UNCHANGED << mod, fi, si, table, stub_shadowed, phase, g_count,
                                           lo, hi, from, addr, hits, misses, last >>
    BY <1>2 DEF vars, build, search
  <2>2. TrapInv' /\ aborted' = aborted /\ env' = env
    BY <2>1, TrapStutter DEF trapVars
  <2>3. MergeInv' /\ NF' = NF /\ NS' = NS /\ Sorted' = Sorted /\ Key' = Key
    BY <2>1, MergedStutter DEF TableInv, NF, NS, Sorted, Key
  <2>4. TypeOK'
    BY <2>1, <2>2, <2>3 DEF TypeOK, TableInv, TrapInv
  <2>5. PhaseInv' /\ SearchInv'
    BY <2>1, <2>2, <2>3 DEF PhaseInv, SearchInv, TableInv
  <2>6. TransfersResolve'
    BY <2>1, ResultStutter
  <2>7. RefusedNotWrong' /\ GapsStop'
    BY <2>1, <2>2 DEF RefusedNotWrong, GapsStop, StubsDistinct, Increasing, CodeAddr
  <2>8. QED
    BY <2>1, <2>2, <2>3, <2>4, <2>5, <2>6, <2>7 DEF TableInv
<1>3. QED
  BY <1>1, <1>2

(* The table, its search and the traps keep their invariant for ever. *)
THEOREM DispatchInvariant == Spec => []DispInv
  BY InitDisp, StepDisp, PTL DEF Spec

(* Every variable of Dispatch keeps its type: the search stays inside the  *)
(* table.                                                                  *)
THEOREM TypeCorrect == Spec => []TypeOK
<1>1. DispInv => TypeOK
  BY DEF DispInv, TableInv
<1>2. QED
  BY <1>1, DispatchInvariant, PTL

(* The merge of em_emit yields a table with every function and every stub, *)
(* in strict order, the stub where both claim an address.                  *)
THEOREM TableIsComplete == Spec => []TableComplete
<1>1. ASSUME DispInv, phase \notin {"merge", "init"}, StubsDistinct
      PROVE  TableComplete
  <2> USE DEF DispInv, TableInv
  <2>1. /\ DOMAIN table = 1 .. Len(table)
        /\ phase \in {"idle", "search"}
    BY <1>1, TableFacts DEF TypeOK
  <2>2. /\ Sorted
        /\ \A p, r \in 1 .. Len(table) : p < r => table[p].addr < table[r].addr
        /\ { table[p].addr : p \in DOMAIN table } = Funcs \cup Stubs
    BY <1>1, FinishedTable
  <2>3. \A i \in DOMAIN table : table[i].addr \in Stubs =>
          table[i].fn # 0 /\ mod.stubs[table[i].fn] = table[i].addr
    BY <1>1 DEF MergeInv, SoundInv
  <2>4. g_count = Len(table)
    BY <1>1, <2>1, <2>2 DEF PhaseInv
  <2>5. QED
    BY <2>1, <2>2, <2>3, <2>4 DEF TableComplete, Increasing
<1>2. DispInv => TableComplete
  BY <1>1 DEF TableComplete
<1>3. QED
  BY <1>2, DispatchInvariant, PTL

(* A transfer runs what its pointer means, whatever the table. *)
THEOREM TransfersAreResolved == Spec => []TransfersResolve
<1>1. DispInv => TransfersResolve
  BY DEF DispInv
<1>2. QED
  BY <1>1, DispatchInvariant, PTL

(* A table with two entries for one address runs nothing. *)
THEOREM RefusedTableRunsNothing == Spec => []RefusedNotWrong
<1>1. DispInv => RefusedNotWrong
  BY DEF DispInv
<1>2. QED
  BY <1>1, DispatchInvariant, PTL

(* Without tracing no gap is passed over. *)
THEOREM GapsAlwaysStop == Spec => []GapsStop
<1>1. DispInv => GapsStop
  BY DEF DispInv
<1>2. QED
  BY <1>1, DispatchInvariant, PTL

(* The log has one line per key while the table of reported keys has room, *)
(* for every hash function.                                                *)
THEOREM ReportsAreSingle == Spec => []ReportedOnce
<1>1. DispInv => ReportedOnce
  BY TrapInvReportedOnce DEF DispInv
<1>2. QED
  BY <1>1, DispatchInvariant, PTL

(* Under tracing every gap but those keyed 0 is in the log. *)
THEOREM GapsAreReported == Spec => []NoGapLost
<1>1. DispInv => NoGapLost
  BY DEF DispInv, TrapInv
<1>2. QED
  BY <1>1, DispatchInvariant, PTL
================================================================================
